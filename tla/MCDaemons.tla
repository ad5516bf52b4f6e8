----------------------------- MODULE MCDaemons -----------------------------
(* One client of an old and one of a new package version. *)
EXTENDS Daemons, TLC

CONSTANTS c1, c2

OldAndNew == (c1 :> "old") @@ (c2 :> "new")
=============================================================================
