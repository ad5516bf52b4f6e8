----------------------------- MODULE MCRunStore -----------------------------
(* Instances of RunStore for TLC. *)
EXTENDS RunStoreInv, TLC

(* Runs are interchangeable. *)
RunSymmetry == Permutations(Run)
=============================================================================
