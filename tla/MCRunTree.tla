----------------------------- MODULE MCRunTree -----------------------------
(* Three generations, or a start and two follow-ups of it.  A call comes    *)
(* with an orchestrator's id, or with metadata that names one and that      *)
(* looks like a profile start's.                                            *)
EXTENDS RunTree, TLC

Calls == {[profile |-> FALSE, owner |-> Nobody, pinned |-> "o1"],
          [profile |-> TRUE, owner |-> "o1", pinned |-> Nobody]}
=============================================================================
