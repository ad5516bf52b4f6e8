----------------------------- MODULE MCEventLog -----------------------------
(* Instances of EventLog for TLC. *)
EXTENDS EventLog, TLC

(* Calls of the same kind are interchangeable. *)
EventSymmetry == Permutations(Appender) \cup Permutations(Summarizer)
=============================================================================
