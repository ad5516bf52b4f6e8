---------------------------- MODULE RunLifecycle ----------------------------
(***************************************************************************)
(* What the daemon promises of a run, whatever files it keeps: a run that  *)
(* was created finishes at most once, with one outcome that never changes, *)
(* and its end is announced at most once, never before it ended.  A run    *)
(* that ended may be pruned.  RunStore implements this specification.      *)
(***************************************************************************)
EXTENDS Naturals

CONSTANTS
  Run,      \* the run ids that may be created
  Outcome   \* the terminal statuses, none of them "absent", "running" or "pruned"

VARIABLES
  phase,      \* "absent", "running", an outcome, or "pruned"
  announced   \* has a terminal notification been published for the run?

lifecycleVars == <<phase, announced>>

LifecycleTypeOK ==
  /\ phase \in [Run -> Outcome \cup {"absent", "running", "pruned"}]
  /\ announced \in [Run -> BOOLEAN]

LifecycleInit ==
  /\ phase = [r \in Run |-> "absent"]
  /\ announced = [r \in Run |-> FALSE]

Create(r) ==
  /\ phase[r] = "absent"
  /\ phase' = [phase EXCEPT ![r] = "running"]
  /\ UNCHANGED announced

Finish(r) ==
  /\ phase[r] = "running"
  /\ \E o \in Outcome : phase' = [phase EXCEPT ![r] = o]
  /\ UNCHANGED announced

Announce(r) ==
  /\ phase[r] \in Outcome
  /\ ~announced[r]
  /\ announced' = [announced EXCEPT ![r] = TRUE]
  /\ UNCHANGED phase

Discard(r) ==
  /\ phase[r] \in Outcome
  /\ phase' = [phase EXCEPT ![r] = "pruned"]
  /\ UNCHANGED announced

LifecycleNext ==
  \E r \in Run : Create(r) \/ Finish(r) \/ Announce(r) \/ Discard(r)

LifecycleSpec == LifecycleInit /\ [][LifecycleNext]_lifecycleVars
=============================================================================
