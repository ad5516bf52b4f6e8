----------------------------- MODULE MCRotation -----------------------------
EXTENDS Rotation
CONSTANTS acct1, acct2, acct3, r0, f1, f2, f3

PriorityABC == <<acct1, acct2, acct3>>

(* Two follow-ups of the first run, and one of the first of them, whose    *)
(* copy may go to the account that the second copies to.                   *)
FollowsTree == {<<f1, r0>>, <<f2, r0>>, <<f3, f1>>}
=============================================================================
