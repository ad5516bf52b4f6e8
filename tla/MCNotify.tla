------------------------------ MODULE MCNotify ------------------------------
(* Two runs, and one monitor on the first of them. *)
EXTENDS Notify, TLC

CONSTANTS m1, r1

OnTheFirst == m1 :> r1
=============================================================================
