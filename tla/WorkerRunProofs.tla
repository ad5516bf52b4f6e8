--------------------------- MODULE WorkerRunProofs ---------------------------
(***************************************************************************)
(* Theorems about WorkerRun, for any number of runs and lines and for any  *)
(* number of failing calls.  The invariant says in which stages a worker   *)
(* may live and that, while the interceptor watches, every event of the    *)
(* first worker is in the buffer.  A second invariant, which rests on the  *)
(* first, follows the events that were handled, the retry's marker and the *)
(* stops that were accepted to the end of the run.                         *)
(***************************************************************************)
EXTENDS WorkerRun, FiniteSetTheorems, TLAPS

(* The stages between the spawn of a worker and its close. *)
WithWorker == {"spawned", "attached", "rejected", "abandoned"}

OnlyTheLastWorker(r) ==
  /\ alive[r] \subseteq {attempt[r]}
  /\ stage[r] \notin WithWorker => alive[r] = {}
  /\ stage[r] \in {"none", "preparing"} => attempt[r] = 0
  /\ stage[r] \in {"spawned", "attached", "settling"} => attempt[r] \in Attempt
  /\ stage[r] \in {"retrying", "marked", "respawning"} => attempt[r] = 1 /\ fired[r]

FirstAttemptWatched(r) ==
  /\ fired[r] => engaged[r]
  /\ engaged[r] => attempt[r] = 1 \/ fired[r]
  /\ attempt[r] = 2 /\ stage[r] \in {"attached", "settling", "finalizing"} => ~engaged[r]
  /\ fired[r] \/ ~engaged[r] => buffer[r] = <<>>
  /\ stage[r] \notin {"attached", "settling"} => parsing[r] = {}

NothingOfFirst(r) ==
  \A e \in Elements(disk[r]) \cup pending[r] : e[1] # 1

WatchedIsBuffered(r) ==
  engaged[r] \/ attempt[r] \in {0, 2} \/ stage[r] = "spawned" => NothingOfFirst(r)

EndedIsSettled(r) ==
  Ended(r) => stage[r] \in {"resolved", "done", "merged", "abandoned"}

ActiveHasTarget(r) == r \in active => target[r] \in Attempt

RunInvariant(r) ==
  /\ ActiveHasTarget(r)
  /\ OnlyTheLastWorker(r)
  /\ FirstAttemptWatched(r)
  /\ WatchedIsBuffered(r)
  /\ EndedIsSettled(r)

WorkerInvariant ==
  WorkerTypeOK /\ \A r \in Run : RunInvariant(r)
-----------------------------------------------------------------------------

LEMMA ElementsAppend ==
  ASSUME NEW S, NEW s \in Seq(S), NEW e \in S
  PROVE  Elements(Append(s, e)) = Elements(s) \cup {e}
BY DEF Elements

LEMMA ElementsConcat ==
  ASSUME NEW S, NEW s \in Seq(S), NEW t \in Seq(S)
  PROVE  Elements(s \o t) = Elements(s) \cup Elements(t)
<1>1. Len(s \o t) = Len(s) + Len(t) /\ Len(s) \in Nat /\ Len(t) \in Nat
  OBVIOUS
<1>2. Elements(s \o t) \subseteq Elements(s) \cup Elements(t)
  BY <1>1 DEF Elements
<1>3. Elements(s) \subseteq Elements(s \o t)
  BY <1>1 DEF Elements
<1>4. \A i \in 1..Len(t) : t[i] = (s \o t)[Len(s) + i] /\ Len(s) + i \in 1..Len(s \o t)
  BY <1>1
<1>5. Elements(t) \subseteq Elements(s \o t)
  BY <1>4 DEF Elements
<1> QED
  BY <1>2, <1>3, <1>5

LEMMA ElementsInSet ==
  ASSUME NEW S, NEW s \in Seq(S)
  PROVE  Elements(s) \subseteq S
BY DEF Elements

LEMMA WorkerInvariantInit == WorkerInit => WorkerInvariant
BY DEF WorkerInit, WorkerInvariant, WorkerTypeOK, Stage, Attempt, Event, RunInvariant,
   ActiveHasTarget, OnlyTheLastWorker, FirstAttemptWatched, WatchedIsBuffered, NothingOfFirst,
   EndedIsSettled, Ended, Stop, WithWorker, Elements
-----------------------------------------------------------------------------

LEMMA StartRunTypes ==
  ASSUME WorkerTypeOK, NEW r \in Run, StartRun(r)
  PROVE  WorkerTypeOK'
BY DEF StartRun, Move, WorkerTypeOK, Stage, Attempt, Stop, Event, LineKind, closure, events,
   processes, service, Up

LEMMA FailPreSpawnTypes ==
  ASSUME WorkerTypeOK, NEW r \in Run, FailPreSpawn(r)
  PROVE  WorkerTypeOK'
BY DEF FailPreSpawn, Move, WorkerTypeOK, Stage, Attempt, Stop, Event, LineKind, closure, events,
   processes, service, Up

LEMMA AppendEventTypes ==
  ASSUME WorkerTypeOK, NEW r \in Run, AppendEvent(r)
  PROVE  WorkerTypeOK'
BY DEF AppendEvent, WorkerTypeOK, Stage, Attempt, Stop, Event, LineKind, supervision, closure,
   processes, service, Up

LEMMA SettleRetryTypes ==
  ASSUME WorkerTypeOK, NEW r \in Run, SettleRetry(r)
  PROVE  WorkerTypeOK'
BY DEF SettleRetry, CloseSeen, Drained, WorkerTypeOK, Stage, Attempt, Stop, Event, LineKind,
   closure, events, processes, service, Up

LEMMA WriteMarkerTypes ==
  ASSUME WorkerTypeOK, NEW r \in Run, WriteMarker(r)
  PROVE  WorkerTypeOK'
BY DEF WriteMarker, Move, Marker, WorkerTypeOK, Stage, Attempt, Stop, Event, LineKind, closure,
   processes, service, Up

LEMMA OnRetryFiredTypes ==
  ASSUME WorkerTypeOK, NEW r \in Run, OnRetryFired(r)
  PROVE  WorkerTypeOK'
BY DEF OnRetryFired, Move, ContextOfRetry, WorkerTypeOK, Stage, Attempt, Stop, Event, LineKind,
   closure, events, processes, service, Up

LEMMA FinalizeTypes ==
  ASSUME WorkerTypeOK, NEW r \in Run, Finalize(r)
  PROVE  WorkerTypeOK'
BY DEF Finalize, Move, WorkerTypeOK, Stage, Attempt, Stop, Event, LineKind, closure, events,
   processes, service, Up

LEMMA ResolveTypes ==
  ASSUME WorkerTypeOK, NEW r \in Run, Resolve(r)
  PROVE  WorkerTypeOK'
BY DEF Resolve, Move, WorkerTypeOK, Stage, Attempt, Stop, Event, LineKind, closure, events,
   processes, service, Up

LEMMA RemergeTypes ==
  ASSUME WorkerTypeOK, NEW r \in Run, Remerge(r)
  PROVE  WorkerTypeOK'
BY ElementsInSet DEF Remerge, Move, WorkerTypeOK, Stage, Attempt, Stop, Event, LineKind,
   closure, events, processes, service, Up, Marker

LEMMA LoseEventTypes ==
  ASSUME WorkerTypeOK, NEW r \in Run, LoseEvent(r)
  PROVE  WorkerTypeOK'
BY DEF LoseEvent, Fault, WorkerTypeOK, Stage, Attempt, Stop, Event, LineKind, supervision,
   processes, service, Up

LEMMA LoseLineTypes ==
  ASSUME WorkerTypeOK, NEW r \in Run, LoseLine(r)
  PROVE  WorkerTypeOK'
BY DEF LoseLine, Fault, WorkerTypeOK, Stage, Attempt, Stop, Event, LineKind, supervision,
   closure, processes, service, Up

LEMMA FailMarkerTypes ==
  ASSUME WorkerTypeOK, NEW r \in Run, FailMarker(r)
  PROVE  WorkerTypeOK'
BY DEF FailMarker, Fault, Move, WorkerTypeOK, Stage, Attempt, Stop, Event, LineKind, closure,
   events, processes, service, Up

LEMMA FailHookTypes ==
  ASSUME WorkerTypeOK, NEW r \in Run, FailHook(r)
  PROVE  WorkerTypeOK'
BY DEF FailHook, Fault, Move, WorkerTypeOK, Stage, Attempt, Stop, Event, LineKind, closure,
   events, processes, service, Up

LEMMA FailFinalizeTypes ==
  ASSUME WorkerTypeOK, NEW r \in Run, FailFinalize(r)
  PROVE  WorkerTypeOK'
BY DEF FailFinalize, Fault, Move, WorkerTypeOK, Stage, Attempt, Stop, Event, LineKind, closure,
   events, processes, service, Up

LEMMA WorkerExitTypes ==
  ASSUME WorkerTypeOK, NEW r \in Run, WorkerExit(r)
  PROVE  WorkerTypeOK'
BY DEF WorkerExit, Closed, WorkerTypeOK, Stage, Attempt, Stop, Event, LineKind, events, service,
   Up

LEMMA KillTimerTypes ==
  ASSUME WorkerTypeOK, NEW r \in Run, KillTimer(r)
  PROVE  WorkerTypeOK'
BY DEF KillTimer, Closed, WorkerTypeOK, Stage, Attempt, Stop, Event, LineKind, events, service,
   Up

(* The closure's cancel, appendEventBuffered and the status of finalizeRun  *)
(* keep the types of what they assign.                                      *)
LEMMA CancelTypes ==
  ASSUME WorkerTypeOK, NEW r \in Run, NEW n \in Attempt, NEW s \in Stop, Cancel(r, n, s)
  PROVE  /\ override' \in [Run -> [Attempt -> Stop \cup {"none"}]]
         /\ killer' \in [Run -> SUBSET Attempt]
<1>1. FirstStop(override[r][n], s) \in Stop \cup {"none"}
  BY DEF WorkerTypeOK, FirstStop
<1>2. override' = [override EXCEPT ![r] = [override[r] EXCEPT ![n] = FirstStop(override[r][n], s)]]
  BY DEF Cancel, WorkerTypeOK
<1>3. [override[r] EXCEPT ![n] = FirstStop(override[r][n], s)] \in [Attempt -> Stop \cup {"none"}]
  BY <1>1 DEF WorkerTypeOK
<1>4. override' \in [Run -> [Attempt -> Stop \cup {"none"}]]
  BY <1>2, <1>3 DEF WorkerTypeOK
<1>5. killer' \in [Run -> SUBSET Attempt]
  BY DEF Cancel, KillSchedules, WorkerTypeOK
<1> QED
  BY <1>4, <1>5

LEMMA RecordObservedErrorTypes ==
  ASSUME WorkerTypeOK, NEW r \in Run, attempt[r] \in Attempt,
         Cancel(r, attempt[r], "failed") \/ (UNCHANGED override /\ UNCHANGED killer)
  PROVE  /\ override' \in [Run -> [Attempt -> Stop \cup {"none"}]]
         /\ killer' \in [Run -> SUBSET Attempt]
<1>1. CASE Cancel(r, attempt[r], "failed")
  BY <1>1, CancelTypes DEF Stop
<1>2. CASE UNCHANGED override /\ UNCHANGED killer
  BY <1>2 DEF WorkerTypeOK
<1> QED
  BY <1>1, <1>2

LEMMA AppendBufferedTypes ==
  ASSUME WorkerTypeOK, NEW r \in Run, NEW e \in Event, AppendBuffered(r, e)
  PROVE  buffer' \in [Run -> Seq(Event)] /\ pending' \in [Run -> SUBSET Event]
<1>1. CASE buffer' = [buffer EXCEPT ![r] = Append(@, e)] /\ UNCHANGED pending
  BY <1>1 DEF WorkerTypeOK
<1>2. CASE pending' = [pending EXCEPT ![r] = @ \cup {e}] /\ UNCHANGED buffer
  BY <1>2 DEF WorkerTypeOK
<1> QED
  BY <1>1, <1>2 DEF AppendBuffered

LEMMA OutcomeType ==
  ASSUME WorkerTypeOK, NEW r \in Run, attempt[r] \in Attempt
  PROVE  Outcome(r) \in Stop \cup {"completed"}
<1>1. override[r][attempt[r]] \in Stop \cup {"none"}
  BY DEF WorkerTypeOK
<1> QED
  BY <1>1 DEF Outcome, FirstStop, Stop

LEMMA SpawnTypes ==
  ASSUME WorkerTypeOK, NEW r \in Run, OnlyTheLastWorker(r), Spawn(r)
  PROVE  WorkerTypeOK'
<1>1. attempt[r] \in {0, 1} /\ attempt[r] + 1 \in Attempt
  BY DEF Spawn, Move, OnlyTheLastWorker, Attempt
<1> QED
  BY <1>1 DEF Spawn, Move, WorkerTypeOK, Stage, Attempt, Stop, Event, LineKind, supervision,
     closure, events, processes, service, Fault, Up, Marker

LEMMA AttachTypes ==
  ASSUME WorkerTypeOK, NEW r \in Run, OnlyTheLastWorker(r), Attach(r)
  PROVE  WorkerTypeOK'
<1> DEFINE n == attempt[r]
           watched == n = 1 /\ r \in Resumable
<1>1. n \in Attempt /\ <<n, 0>> \in Event /\ watched \in BOOLEAN
  BY DEF Attach, Move, OnlyTheLastWorker, Attempt, Event
<1>2. /\ engaged' = [engaged EXCEPT ![r] = watched]
      /\ buffer' = [buffer EXCEPT ![r] = IF watched THEN << <<n, 0>> >> ELSE <<>>]
      /\ pending' = [pending EXCEPT ![r] = IF watched THEN @ ELSE @ \cup {<<n, 0>>}]
  BY DEF Attach
<1> HIDE DEF watched
<1>3. engaged' \in [Run -> BOOLEAN] /\ buffer' \in [Run -> Seq(Event)]
      /\ pending' \in [Run -> SUBSET Event]
  <2>1. CASE watched
    BY <1>1, <1>2, <2>1 DEF WorkerTypeOK
  <2>2. CASE ~watched
    <3>1. /\ engaged' = [engaged EXCEPT ![r] = FALSE]
          /\ buffer' = [buffer EXCEPT ![r] = <<>>]
          /\ pending' = [pending EXCEPT ![r] = @ \cup {<<n, 0>>}]
      BY <1>1, <1>2, <2>2
    <3> HIDE DEF n
    <3>2. engaged' \in [Run -> BOOLEAN]
      BY <3>1 DEF WorkerTypeOK
    <3>3. buffer' \in [Run -> Seq(Event)]
      BY <3>1 DEF WorkerTypeOK
    <3>4. pending' \in [Run -> SUBSET Event]
      BY <1>1, <3>1 DEF WorkerTypeOK
    <3> QED
      BY <3>2, <3>3, <3>4
  <2> QED
    BY <2>1, <2>2
<1> QED
  BY <1>1, <1>3 DEF Attach, Move, Closure, WorkerTypeOK, Stage, Attempt, Stop, Event, LineKind,
     supervision, closure, events, processes, service, Fault, Up, Marker

LEMMA FinishLineTypes ==
  ASSUME WorkerTypeOK, NEW r \in Run, attempt[r] \in Attempt, FinishLine(r)
  PROVE  WorkerTypeOK'
<1>1. PICK p \in parsing[r] :
        /\ parsing' = [parsing EXCEPT ![r] = @ \ {p}]
        /\ \/ /\ UNCHANGED gotResult /\ UNCHANGED override /\ UNCHANGED killer
              /\ UNCHANGED buffer /\ UNCHANGED pending
           \/ /\ gotResult' = [gotResult EXCEPT ![r] = @ \/ p[2] = "result"]
              /\ Cancel(r, attempt[r], "failed") \/ (UNCHANGED override /\ UNCHANGED killer)
              /\ AppendBuffered(r, <<attempt[r], p[1]>>)
  BY DEF FinishLine, RecordObservedError
<1>2. p[1] \in Nat /\ <<attempt[r], p[1]>> \in Event
  BY DEF WorkerTypeOK, Event, Attempt
<1>3. /\ UNCHANGED <<supervision, target, engaged, fired, exitOk, broken, read, disk, alive,
                      service, faults>>
      /\ parsing' \in [Run -> SUBSET (Nat \X LineKind)]
  BY <1>1 DEF FinishLine, WorkerTypeOK
<1>4. /\ gotResult' \in [Run -> BOOLEAN]
      /\ override' \in [Run -> [Attempt -> Stop \cup {"none"}]]
      /\ killer' \in [Run -> SUBSET Attempt]
      /\ buffer' \in [Run -> Seq(Event)] /\ pending' \in [Run -> SUBSET Event]
  <2>1. CASE /\ UNCHANGED gotResult /\ UNCHANGED override /\ UNCHANGED killer
             /\ UNCHANGED buffer /\ UNCHANGED pending
    BY <2>1 DEF WorkerTypeOK
  <2>2. CASE /\ gotResult' = [gotResult EXCEPT ![r] = @ \/ p[2] = "result"]
             /\ Cancel(r, attempt[r], "failed") \/ (UNCHANGED override /\ UNCHANGED killer)
             /\ AppendBuffered(r, <<attempt[r], p[1]>>)
    <3>1. gotResult' \in [Run -> BOOLEAN]
      BY <2>2 DEF WorkerTypeOK
    <3>2. /\ override' \in [Run -> [Attempt -> Stop \cup {"none"}]]
          /\ killer' \in [Run -> SUBSET Attempt]
      BY <2>2, RecordObservedErrorTypes
    <3>3. buffer' \in [Run -> Seq(Event)] /\ pending' \in [Run -> SUBSET Event]
      BY <1>2, <2>2, AppendBufferedTypes
    <3> QED
      BY <3>1, <3>2, <3>3
  <2> QED
    BY <1>1, <2>1, <2>2
<1> QED
  BY <1>3, <1>4 DEF WorkerTypeOK, supervision, service

LEMMA SettleFinalTypes ==
  ASSUME WorkerTypeOK, NEW r \in Run, attempt[r] \in Attempt, SettleFinal(r)
  PROVE  WorkerTypeOK'
<1>1. Outcome(r) \in Stop \cup {"none", "completed"}
  BY OutcomeType
<1>2. disk[r] \o buffer[r] \in Seq(Event)
  BY DEF WorkerTypeOK
<1> QED
  BY <1>1, <1>2 DEF SettleFinal, FlushedAtClose, WorkerTypeOK, Stage, Attempt, Stop, Event,
     LineKind, supervision, closure, events, processes, service, Fault, Up, Marker

LEMMA FailAttachTypes ==
  ASSUME WorkerTypeOK, NEW r \in Run, FailAttach(r)
  PROVE  WorkerTypeOK'
<1>1. /\ \/ stage' = [stage EXCEPT ![r] = "abandoned"] /\ status' = [status EXCEPT ![r] = "failed"]
         \/ stage' = [stage EXCEPT ![r] = "rejected"] /\ status' = status
      /\ faults' \in Nat
  BY DEF FailAttach, Move, Fault, WorkerTypeOK
<1>2. stage' \in [Run -> Stage] /\ status' \in [Run -> Stop \cup {"none", "running", "completed"}]
  BY <1>1 DEF WorkerTypeOK, Stage, Stop
<1> QED
  BY <1>1, <1>2 DEF FailAttach, WorkerTypeOK, Stage, Attempt, Stop, Event, LineKind, supervision,
     closure, events, processes, service, Fault, Up, Marker

LEMMA HandleLineTypes ==
  ASSUME WorkerTypeOK, NEW r \in Run, attempt[r] \in Attempt, HandleLine(r)
  PROVE  WorkerTypeOK'
<1>1. PICK k \in LineKind :
        LET pass == [parsing EXCEPT ![r] = @ \cup {<<read[r] + 1, k>>}] IN
        \/ /\ parsing' = pass
           /\ UNCHANGED buffer /\ UNCHANGED pending /\ UNCHANGED engaged
           /\ UNCHANGED fired /\ UNCHANGED killer
        \/ /\ parsing' = pass
           /\ pending' = [pending EXCEPT ![r] = @ \cup Elements(buffer[r])]
           /\ buffer' = [buffer EXCEPT ![r] = <<>>]
           /\ engaged' = [engaged EXCEPT ![r] = FALSE]
           /\ UNCHANGED fired /\ UNCHANGED killer
        \/ /\ fired' = [fired EXCEPT ![r] = TRUE]
           /\ buffer' = [buffer EXCEPT ![r] = <<>>]
           /\ killer' = [killer EXCEPT ![r] = @ \cup KillSchedules(attempt[r])]
           /\ UNCHANGED parsing /\ UNCHANGED pending /\ UNCHANGED engaged
  BY DEF HandleLine
<1>2. Elements(buffer[r]) \subseteq Event
  BY ElementsInSet DEF WorkerTypeOK
<1>3. /\ parsing' \in [Run -> SUBSET (Nat \X LineKind)]
      /\ buffer' \in [Run -> Seq(Event)] /\ pending' \in [Run -> SUBSET Event]
      /\ engaged' \in [Run -> BOOLEAN] /\ fired' \in [Run -> BOOLEAN]
      /\ killer' \in [Run -> SUBSET Attempt]
  <2>1. read[r] + 1 \in Nat
    BY DEF WorkerTypeOK
  <2>2. <<read[r] + 1, k>> \in Nat \X LineKind
    BY <2>1
  <2>3. parsing' \in [Run -> SUBSET (Nat \X LineKind)]
    BY <1>1, <2>2 DEF WorkerTypeOK
  <2>4. buffer' \in [Run -> Seq(Event)] /\ pending' \in [Run -> SUBSET Event]
    <3>1. buffer' = buffer \/ buffer' = [buffer EXCEPT ![r] = <<>>]
      BY <1>1
    <3>2. pending' = pending \/ pending' = [pending EXCEPT ![r] = @ \cup Elements(buffer[r])]
      BY <1>1
    <3>3. ASSUME buffer' = buffer PROVE buffer' \in [Run -> Seq(Event)]
      BY <3>3 DEF WorkerTypeOK
    <3>4. ASSUME buffer' = [buffer EXCEPT ![r] = <<>>] PROVE buffer' \in [Run -> Seq(Event)]
      BY <3>4 DEF WorkerTypeOK
    <3>5. CASE pending' = pending
      BY <3>1, <3>3, <3>4, <3>5 DEF WorkerTypeOK
    <3>6. CASE pending' = [pending EXCEPT ![r] = @ \cup Elements(buffer[r])]
      <4>1. pending' \in [Run -> SUBSET Event]
        BY <1>2, <3>6 DEF WorkerTypeOK
      <4> QED
        BY <3>1, <3>3, <3>4, <4>1
    <3> QED
      BY <3>2, <3>5, <3>6
  <2>5. engaged' \in [Run -> BOOLEAN] /\ fired' \in [Run -> BOOLEAN]
    BY <1>1 DEF WorkerTypeOK
  <2>6. killer' \in [Run -> SUBSET Attempt]
    <3>1. killer' = killer \/ killer' = [killer EXCEPT ![r] = @ \cup {attempt[r]}]
      BY <1>1 DEF KillSchedules
    <3>2. CASE killer' = killer
      BY <3>2 DEF WorkerTypeOK
    <3>3. CASE killer' = [killer EXCEPT ![r] = @ \cup {attempt[r]}]
      BY <3>3 DEF WorkerTypeOK
    <3> QED
      BY <3>1, <3>2, <3>3
  <2> QED
    BY <2>3, <2>4, <2>5, <2>6
<1>4. /\ read' = [read EXCEPT ![r] = @ + 1]
      /\ UNCHANGED <<supervision, override, target, gotResult, exitOk, broken, disk, alive,
                      service, faults>>
  BY DEF HandleLine
<1> QED
  BY <1>3, <1>4 DEF WorkerTypeOK, supervision, service

LEMMA HandleStderrTypes ==
  ASSUME WorkerTypeOK, NEW r \in Run, attempt[r] \in Attempt, HandleStderr(r)
  PROVE  WorkerTypeOK'
<1>1. Cancel(r, attempt[r], "failed") \/ (UNCHANGED override /\ UNCHANGED killer)
  BY DEF HandleStderr, RecordObservedError
<1>2. <<attempt[r], read[r] + 1>> \in Event
  BY DEF WorkerTypeOK, Event, Attempt
<1>3. AppendBuffered(r, <<attempt[r], read[r] + 1>>)
  BY DEF HandleStderr
<1>4. /\ override' \in [Run -> [Attempt -> Stop \cup {"none"}]]
      /\ killer' \in [Run -> SUBSET Attempt]
  BY <1>1, RecordObservedErrorTypes
<1>5. buffer' \in [Run -> Seq(Event)] /\ pending' \in [Run -> SUBSET Event]
  BY <1>2, <1>3, AppendBufferedTypes
<1>6. /\ read' = [read EXCEPT ![r] = @ + 1]
      /\ UNCHANGED <<supervision, target, engaged, fired, gotResult, exitOk, broken, parsing,
                      disk, alive, service, faults>>
  BY DEF HandleStderr
<1> QED
  BY <1>4, <1>5, <1>6 DEF WorkerTypeOK, supervision, service

LEMMA StopActiveTypes ==
  ASSUME WorkerTypeOK, NEW r \in Run, ActiveHasTarget(r), NEW s \in Stop, StopActive(r, s)
  PROVE  WorkerTypeOK'
<1>1. target[r] \in Attempt /\ Cancel(r, target[r], s)
  BY DEF StopActive, ActiveHasTarget
<1>2. /\ override' \in [Run -> [Attempt -> Stop \cup {"none"}]]
      /\ killer' \in [Run -> SUBSET Attempt]
  BY <1>1, CancelTypes
<1>3. stopped' \subseteq Run
  BY DEF StopActive, WorkerTypeOK
<1> QED
  BY <1>2, <1>3 DEF StopActive, WorkerTypeOK, Stage, Attempt, Stop, Event, LineKind, supervision,
     closure, events, processes, service, Fault, Up, Marker

LEMMA ShutdownTypes ==
  ASSUME WorkerTypeOK, \A r \in Run : ActiveHasTarget(r), Shutdown
  PROVE  WorkerTypeOK'
<1>1. \A r \in active : target[r] \in Attempt
  BY DEF ActiveHasTarget, WorkerTypeOK
<1>2. \A r \in active : FirstStop(override[r][target[r]], "cancelled") \in Stop \cup {"none"}
  BY <1>1 DEF WorkerTypeOK, FirstStop, Stop
<1>3. \A r \in active : [override[r] EXCEPT ![target[r]] = FirstStop(override[r][target[r]], "cancelled")]
                          \in [Attempt -> Stop \cup {"none"}]
  BY <1>1, <1>2 DEF WorkerTypeOK
<1>4. override' \in [Run -> [Attempt -> Stop \cup {"none"}]]
  BY <1>3 DEF Shutdown, WorkerTypeOK
<1>5. killer' \in [Run -> SUBSET Attempt]
  BY <1>1 DEF Shutdown, WorkerTypeOK, KillSchedules
<1> QED
  BY <1>4, <1>5 DEF Shutdown, WorkerTypeOK, Stage, Attempt, Stop, Event, LineKind, supervision,
     closure, events, processes, service, Fault, Up, Marker
-----------------------------------------------------------------------------

LEMMA StartRunKeeps ==
  ASSUME WorkerTypeOK, NEW r \in Run, RunInvariant(r), StartRun(r), NEW q \in Run, RunInvariant(q)
  PROVE  RunInvariant(q)'
<1>1. /\ stage[r] = "none" /\ stage' = [stage EXCEPT ![r] = "preparing"]
      /\ status' = [status EXCEPT ![r] = "running"]
      /\ UNCHANGED <<attempt, outcome, active, timer, closure, events, processes, service, faults>>
  BY DEF StartRun, Move
<1> QED
  BY <1>1 DEF WorkerTypeOK, RunInvariant, ActiveHasTarget, OnlyTheLastWorker, FirstAttemptWatched,
     WatchedIsBuffered, NothingOfFirst, EndedIsSettled, Ended, Attempt, WithWorker, Stop, closure,
     events, processes, service

LEMMA FailPreSpawnKeeps ==
  ASSUME WorkerTypeOK, NEW r \in Run, RunInvariant(r), FailPreSpawn(r), NEW q \in Run, RunInvariant(q)
  PROVE  RunInvariant(q)'
BY DEF FailPreSpawn, Move, WorkerTypeOK, RunInvariant, ActiveHasTarget, OnlyTheLastWorker,
   FirstAttemptWatched, WatchedIsBuffered, NothingOfFirst, EndedIsSettled, Ended, Attempt,
   WithWorker, closure, events, processes, service

LEMMA SpawnKeeps ==
  ASSUME WorkerTypeOK, NEW r \in Run, RunInvariant(r), Spawn(r), NEW q \in Run, RunInvariant(q)
  PROVE  RunInvariant(q)'
BY DEF Spawn, Move, WorkerTypeOK, RunInvariant, ActiveHasTarget, OnlyTheLastWorker,
   FirstAttemptWatched, WatchedIsBuffered, NothingOfFirst, EndedIsSettled, Ended, Attempt,
   WithWorker, closure, events, service

LEMMA AttachKeeps ==
  ASSUME WorkerTypeOK, NEW r \in Run, RunInvariant(r), Attach(r), NEW q \in Run, RunInvariant(q)
  PROVE  RunInvariant(q)'
<1> DEFINE n == attempt[r]
           watched == n = 1 /\ r \in Resumable
<1>1. n \in Attempt /\ parsing[r] = {} /\ Elements(<< <<n, 0>> >>) = {<<n, 0>>} /\ ~Ended(r)
  BY DEF Attach, Move, RunInvariant, OnlyTheLastWorker, FirstAttemptWatched, EndedIsSettled,
     Elements
<1>2. /\ stage[r] = "spawned" /\ stage' = [stage EXCEPT ![r] = "attached"]
      /\ target' = [target EXCEPT ![r] = n]
      /\ engaged' = [engaged EXCEPT ![r] = watched]
      /\ fired' = [fired EXCEPT ![r] = FALSE]
      /\ buffer' = [buffer EXCEPT ![r] = IF watched THEN << <<n, 0>> >> ELSE <<>>]
      /\ pending' = [pending EXCEPT ![r] = IF watched THEN @ ELSE @ \cup {<<n, 0>>}]
      /\ active' \subseteq active \cup {r}
      /\ UNCHANGED status /\ UNCHANGED attempt /\ UNCHANGED alive /\ UNCHANGED disk
      /\ UNCHANGED parsing /\ UNCHANGED faults
  BY DEF Attach, Move, Closure, processes
<1> HIDE DEF watched, n
<1>3. CASE q # r
  <2>1. /\ stage'[q] = stage[q] /\ target'[q] = target[q] /\ engaged'[q] = engaged[q]
        /\ fired'[q] = fired[q] /\ buffer'[q] = buffer[q] /\ pending'[q] = pending[q]
        /\ q \in active' => q \in active
    BY <1>2, <1>3 DEF WorkerTypeOK
  <2> QED
    BY <1>2, <2>1 DEF WorkerTypeOK, RunInvariant, ActiveHasTarget, OnlyTheLastWorker,
       FirstAttemptWatched, WatchedIsBuffered, NothingOfFirst, EndedIsSettled, Ended, Attempt,
       WithWorker
<1>4. CASE q = r
  <2>1. /\ stage'[r] = "attached" /\ target'[r] = n /\ engaged'[r] = watched /\ fired'[r] = FALSE
    BY <1>2 DEF WorkerTypeOK
  <2>2. ~watched => buffer'[r] = <<>> /\ pending'[r] = pending[r] \cup {<<n, 0>>}
    BY <1>2 DEF WorkerTypeOK
  <2>3. watched => pending'[r] = pending[r] /\ n = 1
    BY <1>2 DEF WorkerTypeOK, watched
  <2>4. ActiveHasTarget(r)' /\ OnlyTheLastWorker(r)' /\ EndedIsSettled(r)'
    BY <1>1, <1>2, <2>1 DEF WorkerTypeOK, RunInvariant, ActiveHasTarget, OnlyTheLastWorker,
       FirstAttemptWatched, WatchedIsBuffered, NothingOfFirst, EndedIsSettled, Ended, Attempt,
       WithWorker, n
  <2>5. FirstAttemptWatched(r)'
    BY <1>1, <1>2, <2>1, <2>2, <2>3 DEF WorkerTypeOK, RunInvariant, ActiveHasTarget,
       OnlyTheLastWorker, FirstAttemptWatched, WatchedIsBuffered, NothingOfFirst, EndedIsSettled,
       Ended, Attempt, WithWorker, n
  <2>6. NothingOfFirst(r)
    BY <1>2 DEF RunInvariant, WatchedIsBuffered
  <2>7. WatchedIsBuffered(r)'
    <3>1. CASE watched
      BY <1>2, <2>3, <2>6, <3>1 DEF WatchedIsBuffered, NothingOfFirst
    <3>2. CASE ~watched
      <4>1. n # 2 => ~(engaged'[r] \/ attempt'[r] \in {0, 2} \/ stage'[r] = "spawned")
        BY <1>1, <1>2, <2>1, <3>2 DEF n, Attempt
      <4>2. n = 2 => NothingOfFirst(r)'
        BY <1>2, <2>2, <2>6, <3>2 DEF NothingOfFirst
      <4> QED
        BY <4>1, <4>2 DEF WatchedIsBuffered
    <3> QED
      BY <3>1, <3>2
  <2> QED
    BY <1>4, <2>4, <2>5, <2>7 DEF RunInvariant
<1> QED
  BY <1>3, <1>4

LEMMA FinishLineKeeps ==
  ASSUME WorkerTypeOK, NEW r \in Run, RunInvariant(r), FinishLine(r), NEW q \in Run, RunInvariant(q)
  PROVE  RunInvariant(q)'
<1>1. PICK p \in parsing[r] :
        /\ parsing' = [parsing EXCEPT ![r] = @ \ {p}]
        /\ \/ Dropped(r) /\ UNCHANGED buffer /\ UNCHANGED pending
           \/ ~Dropped(r) /\ AppendBuffered(r, <<attempt[r], p[1]>>)
        /\ UNCHANGED <<supervision, target, engaged, fired, exitOk, broken, read, disk, alive,
                       service, faults>>
  BY DEF FinishLine
<1>2. stage[r] \in {"attached", "settling"}
  BY DEF RunInvariant, FirstAttemptWatched
<1> DEFINE e == <<attempt[r], p[1]>>
<1>3. attempt[r] \in Attempt /\ e[1] = attempt[r]
  BY <1>2 DEF RunInvariant, OnlyTheLastWorker
<1> HIDE DEF e
<1>4. /\ UNCHANGED buffer \/ (engaged[r] /\ ~fired[r] /\ buffer' = [buffer EXCEPT ![r] = Append(@, e)])
      /\ UNCHANGED pending \/ (~engaged[r] /\ pending' = [pending EXCEPT ![r] = @ \cup {e}])
  BY <1>1 DEF AppendBuffered, Dropped, e
<1>5. /\ buffer'[q] = buffer[q] \/ (q = r /\ engaged[r] /\ ~fired[r])
      /\ pending'[q] = pending[q] \/ (q = r /\ ~engaged[r] /\ pending'[q] = pending[q] \cup {e})
      /\ parsing'[q] \subseteq parsing[q]
  BY <1>1, <1>4 DEF WorkerTypeOK
<1>6. WatchedIsBuffered(q)'
  BY <1>1, <1>3, <1>5 DEF WorkerTypeOK, RunInvariant, ActiveHasTarget, OnlyTheLastWorker,
     FirstAttemptWatched, WatchedIsBuffered, NothingOfFirst, EndedIsSettled, Ended, Attempt,
     WithWorker, supervision, service
<1>7. FirstAttemptWatched(q)'
  BY <1>1, <1>5 DEF WorkerTypeOK, RunInvariant, ActiveHasTarget, OnlyTheLastWorker,
     FirstAttemptWatched, WatchedIsBuffered, NothingOfFirst, EndedIsSettled, Ended, Attempt,
     WithWorker, supervision, service
<1>8. ActiveHasTarget(q)' /\ OnlyTheLastWorker(q)' /\ EndedIsSettled(q)'
  BY <1>1 DEF WorkerTypeOK, RunInvariant, ActiveHasTarget, OnlyTheLastWorker, FirstAttemptWatched,
     WatchedIsBuffered, NothingOfFirst, EndedIsSettled, Ended, Attempt, WithWorker, supervision,
     service
<1> QED
  BY <1>6, <1>7, <1>8 DEF RunInvariant

LEMMA AppendEventKeeps ==
  ASSUME WorkerTypeOK, NEW r \in Run, RunInvariant(r), AppendEvent(r), NEW q \in Run, RunInvariant(q)
  PROVE  RunInvariant(q)'
BY ElementsAppend DEF AppendEvent, WorkerTypeOK, RunInvariant, ActiveHasTarget,
   OnlyTheLastWorker, FirstAttemptWatched, WatchedIsBuffered, NothingOfFirst, EndedIsSettled,
   Ended, Attempt, WithWorker, supervision, closure, processes, service

LEMMA SettleFinalKeeps ==
  ASSUME WorkerTypeOK, NEW r \in Run, RunInvariant(r), SettleFinal(r), NEW q \in Run, RunInvariant(q)
  PROVE  RunInvariant(q)'
<1>1. attempt[r] = 2 => buffer[r] = <<>>
  BY DEF SettleFinal, CloseSeen, RunInvariant, FirstAttemptWatched
<1>2. /\ stage[r] = "settling" /\ stage' = [stage EXCEPT ![r] = "finalizing"] /\ parsing[r] = {}
      /\ ~fired[r] /\ engaged' = [engaged EXCEPT ![r] = FALSE]
      /\ buffer' = [buffer EXCEPT ![r] = <<>>]
      /\ disk' = [disk EXCEPT ![r] = @ \o buffer[r]]
      /\ UNCHANGED <<status, attempt, active, target, fired, parsing, pending, processes, faults>>
  BY DEF SettleFinal, CloseSeen, Drained, FlushedAtClose
<1>3. attempt[r] = 2 => Elements(disk'[r]) = Elements(disk[r])
  <2>1. Elements(disk'[r]) = Elements(disk[r]) \cup Elements(buffer[r])
    BY <1>2, ElementsConcat DEF WorkerTypeOK
  <2> QED
    <3>1. Elements(<<>>) = {}
      BY DEF Elements
    <3> QED
      BY <1>1, <2>1, <3>1
<1>4. WatchedIsBuffered(q)'
  <2>1. CASE q = r
    BY <1>2, <1>3, <2>1 DEF WorkerTypeOK, RunInvariant, ActiveHasTarget, OnlyTheLastWorker,
       FirstAttemptWatched, WatchedIsBuffered, NothingOfFirst, EndedIsSettled, Ended, Attempt,
       WithWorker
  <2>2. CASE q # r
    BY <1>2, <2>2 DEF WorkerTypeOK, RunInvariant, ActiveHasTarget, OnlyTheLastWorker,
       FirstAttemptWatched, WatchedIsBuffered, NothingOfFirst, EndedIsSettled, Ended, Attempt,
       WithWorker
  <2> QED
    BY <2>1, <2>2
<1>5. FirstAttemptWatched(q)'
  BY <1>2 DEF WorkerTypeOK, RunInvariant, ActiveHasTarget, OnlyTheLastWorker, FirstAttemptWatched,
     WatchedIsBuffered, NothingOfFirst, EndedIsSettled, Ended, Attempt, WithWorker
<1>6. ActiveHasTarget(q)' /\ OnlyTheLastWorker(q)' /\ EndedIsSettled(q)'
  BY <1>2 DEF WorkerTypeOK, RunInvariant, ActiveHasTarget, OnlyTheLastWorker, FirstAttemptWatched,
     WatchedIsBuffered, NothingOfFirst, EndedIsSettled, Ended, Attempt, WithWorker, processes
<1> QED
  BY <1>4, <1>5, <1>6 DEF RunInvariant

LEMMA SettleRetryKeeps ==
  ASSUME WorkerTypeOK, NEW r \in Run, RunInvariant(r), SettleRetry(r), NEW q \in Run, RunInvariant(q)
  PROVE  RunInvariant(q)'
BY DEF SettleRetry, CloseSeen, Drained, WorkerTypeOK, RunInvariant, ActiveHasTarget,
   OnlyTheLastWorker, FirstAttemptWatched, WatchedIsBuffered, NothingOfFirst, EndedIsSettled,
   Ended, Attempt, WithWorker, closure, events, processes, service

LEMMA WriteMarkerKeeps ==
  ASSUME WorkerTypeOK, NEW r \in Run, RunInvariant(r), WriteMarker(r), NEW q \in Run, RunInvariant(q)
  PROVE  RunInvariant(q)'
<1>1. /\ stage[r] = "retrying" /\ stage' = [stage EXCEPT ![r] = "marked"]
      /\ disk' = [disk EXCEPT ![r] = Append(@, Marker)]
      /\ UNCHANGED <<status, attempt, active, closure, parsing, buffer, pending, processes, faults>>
  BY DEF WriteMarker, Move
<1>2. Marker \in Event /\ Marker[1] = 0
  BY DEF Marker, Event
<1>3. Elements(disk'[r]) = Elements(disk[r]) \cup {Marker}
  BY <1>1, <1>2, ElementsAppend DEF WorkerTypeOK
<1>4. WatchedIsBuffered(q)'
  <2>1. CASE q = r
    BY <1>1, <1>2, <1>3, <2>1 DEF WorkerTypeOK, RunInvariant, ActiveHasTarget, OnlyTheLastWorker,
       FirstAttemptWatched, WatchedIsBuffered, NothingOfFirst, EndedIsSettled, Ended, Attempt,
       WithWorker, closure
  <2>2. CASE q # r
    BY <1>1, <2>2 DEF WorkerTypeOK, RunInvariant, ActiveHasTarget, OnlyTheLastWorker,
       FirstAttemptWatched, WatchedIsBuffered, NothingOfFirst, EndedIsSettled, Ended, Attempt,
       WithWorker, closure
  <2> QED
    BY <2>1, <2>2
<1> QED
  BY <1>1, <1>4 DEF WorkerTypeOK, RunInvariant, ActiveHasTarget, OnlyTheLastWorker,
     FirstAttemptWatched, WatchedIsBuffered, NothingOfFirst, EndedIsSettled, Ended, Attempt,
     WithWorker, closure, processes

LEMMA OnRetryFiredKeeps ==
  ASSUME WorkerTypeOK, NEW r \in Run, RunInvariant(r), OnRetryFired(r), NEW q \in Run, RunInvariant(q)
  PROVE  RunInvariant(q)'
BY DEF OnRetryFired, Move, WorkerTypeOK, RunInvariant, ActiveHasTarget, OnlyTheLastWorker,
   FirstAttemptWatched, WatchedIsBuffered, NothingOfFirst, EndedIsSettled, Ended, Attempt,
   WithWorker, closure, events, processes, service

LEMMA FinalizeKeeps ==
  ASSUME WorkerTypeOK, NEW r \in Run, RunInvariant(r), Finalize(r), NEW q \in Run, RunInvariant(q)
  PROVE  RunInvariant(q)'
BY DEF Finalize, Move, WorkerTypeOK, RunInvariant, ActiveHasTarget, OnlyTheLastWorker,
   FirstAttemptWatched, WatchedIsBuffered, NothingOfFirst, EndedIsSettled, Ended, Attempt,
   WithWorker, closure, events, processes, service

LEMMA ResolveKeeps ==
  ASSUME WorkerTypeOK, NEW r \in Run, RunInvariant(r), Resolve(r), NEW q \in Run, RunInvariant(q)
  PROVE  RunInvariant(q)'
BY DEF Resolve, Move, WorkerTypeOK, RunInvariant, ActiveHasTarget, OnlyTheLastWorker,
   FirstAttemptWatched, WatchedIsBuffered, NothingOfFirst, EndedIsSettled, Ended, Attempt,
   WithWorker, closure, events, processes, service

LEMMA RemergeKeeps ==
  ASSUME WorkerTypeOK, NEW r \in Run, RunInvariant(r), Remerge(r), NEW q \in Run, RunInvariant(q)
  PROVE  RunInvariant(q)'
BY DEF Remerge, Move, WorkerTypeOK, RunInvariant, ActiveHasTarget, OnlyTheLastWorker,
   FirstAttemptWatched, WatchedIsBuffered, NothingOfFirst, EndedIsSettled, Ended, Attempt,
   WithWorker, closure, events, processes, service

LEMMA LoseEventKeeps ==
  ASSUME WorkerTypeOK, NEW r \in Run, RunInvariant(r), LoseEvent(r), NEW q \in Run, RunInvariant(q)
  PROVE  RunInvariant(q)'
BY DEF LoseEvent, Fault, WorkerTypeOK, RunInvariant, ActiveHasTarget, OnlyTheLastWorker,
   FirstAttemptWatched, WatchedIsBuffered, NothingOfFirst, EndedIsSettled, Ended, Attempt,
   WithWorker, supervision, processes, service

LEMMA LoseLineKeeps ==
  ASSUME WorkerTypeOK, NEW r \in Run, RunInvariant(r), LoseLine(r), NEW q \in Run, RunInvariant(q)
  PROVE  RunInvariant(q)'
BY DEF LoseLine, Fault, WorkerTypeOK, RunInvariant, ActiveHasTarget, OnlyTheLastWorker,
   FirstAttemptWatched, WatchedIsBuffered, NothingOfFirst, EndedIsSettled, Ended, Attempt,
   WithWorker, supervision, closure, processes, service

LEMMA FailAttachKeeps ==
  ASSUME WorkerTypeOK, NEW r \in Run, RunInvariant(r), FailAttach(r), NEW q \in Run, RunInvariant(q)
  PROVE  RunInvariant(q)'
BY DEF FailAttach, Fault, Move, WorkerTypeOK, RunInvariant, ActiveHasTarget, OnlyTheLastWorker,
   FirstAttemptWatched, WatchedIsBuffered, NothingOfFirst, EndedIsSettled, Ended, Attempt,
   WithWorker, closure, events, processes, service

LEMMA FailMarkerKeeps ==
  ASSUME WorkerTypeOK, NEW r \in Run, RunInvariant(r), FailMarker(r), NEW q \in Run, RunInvariant(q)
  PROVE  RunInvariant(q)'
BY DEF FailMarker, Fault, Move, WorkerTypeOK, RunInvariant, ActiveHasTarget, OnlyTheLastWorker,
   FirstAttemptWatched, WatchedIsBuffered, NothingOfFirst, EndedIsSettled, Ended, Attempt,
   WithWorker, closure, events, processes, service

LEMMA FailHookKeeps ==
  ASSUME WorkerTypeOK, NEW r \in Run, RunInvariant(r), FailHook(r), NEW q \in Run, RunInvariant(q)
  PROVE  RunInvariant(q)'
BY DEF FailHook, Fault, Move, WorkerTypeOK, RunInvariant, ActiveHasTarget, OnlyTheLastWorker,
   FirstAttemptWatched, WatchedIsBuffered, NothingOfFirst, EndedIsSettled, Ended, Attempt,
   WithWorker, closure, events, processes, service

LEMMA FailFinalizeKeeps ==
  ASSUME WorkerTypeOK, NEW r \in Run, RunInvariant(r), FailFinalize(r), NEW q \in Run, RunInvariant(q)
  PROVE  RunInvariant(q)'
BY DEF FailFinalize, Fault, Move, WorkerTypeOK, RunInvariant, ActiveHasTarget,
   OnlyTheLastWorker, FirstAttemptWatched, WatchedIsBuffered, NothingOfFirst, EndedIsSettled,
   Ended, Attempt, WithWorker, closure, events, processes, service

LEMMA HandleLineKeeps ==
  ASSUME WorkerTypeOK, NEW r \in Run, RunInvariant(r), HandleLine(r), NEW q \in Run, RunInvariant(q)
  PROVE  RunInvariant(q)'
<1>1. /\ stage[r] = "attached" /\ ~fired[r]
      /\ UNCHANGED <<supervision, override, target, gotResult, exitOk, broken, disk, alive,
                     service, faults>>
  BY DEF HandleLine, Listening
<1>2. \/ /\ \E P \in SUBSET (Nat \X LineKind) : parsing' = [parsing EXCEPT ![r] = P]
         /\ UNCHANGED buffer /\ UNCHANGED pending /\ UNCHANGED engaged /\ UNCHANGED fired
      \/ /\ \E P \in SUBSET (Nat \X LineKind) : parsing' = [parsing EXCEPT ![r] = P]
         /\ engaged[r]
         /\ pending' = [pending EXCEPT ![r] = @ \cup Elements(buffer[r])]
         /\ buffer' = [buffer EXCEPT ![r] = <<>>]
         /\ engaged' = [engaged EXCEPT ![r] = FALSE]
         /\ UNCHANGED fired
      \/ /\ engaged[r]
         /\ fired' = [fired EXCEPT ![r] = TRUE]
         /\ buffer' = [buffer EXCEPT ![r] = <<>>]
         /\ UNCHANGED parsing /\ UNCHANGED pending /\ UNCHANGED engaged
  <2>1. \A k \in LineKind : parsing[r] \cup {<<read[r] + 1, k>>} \in SUBSET (Nat \X LineKind)
    BY DEF WorkerTypeOK
  <2> QED
    BY <2>1 DEF HandleLine
<1>3. ActiveHasTarget(q)' /\ OnlyTheLastWorker(q)' /\ EndedIsSettled(q)'
  <2>1. fired'[q] = fired[q] \/ fired'[q] = TRUE
    BY <1>2 DEF WorkerTypeOK
  <2> QED
    BY <1>1, <2>1 DEF WorkerTypeOK, RunInvariant, ActiveHasTarget, OnlyTheLastWorker,
       FirstAttemptWatched, WatchedIsBuffered, NothingOfFirst, EndedIsSettled, Ended, Attempt,
       WithWorker, supervision, service
<1>4. CASE \E P \in SUBSET (Nat \X LineKind) : parsing' = [parsing EXCEPT ![r] = P]
           /\ UNCHANGED buffer /\ UNCHANGED pending /\ UNCHANGED engaged /\ UNCHANGED fired
  BY <1>1, <1>3, <1>4 DEF WorkerTypeOK, RunInvariant, ActiveHasTarget, OnlyTheLastWorker,
     FirstAttemptWatched, WatchedIsBuffered, NothingOfFirst, EndedIsSettled, Ended, Attempt,
     WithWorker, supervision
<1>5. CASE /\ \E P \in SUBSET (Nat \X LineKind) : parsing' = [parsing EXCEPT ![r] = P]
           /\ engaged[r]
           /\ pending' = [pending EXCEPT ![r] = @ \cup Elements(buffer[r])]
           /\ buffer' = [buffer EXCEPT ![r] = <<>>]
           /\ engaged' = [engaged EXCEPT ![r] = FALSE]
           /\ UNCHANGED fired
  <2>1. attempt[r] = 1
    BY <1>1, <1>5 DEF RunInvariant, FirstAttemptWatched, OnlyTheLastWorker, Attempt
  <2> QED
    BY <1>1, <1>3, <1>5, <2>1 DEF WorkerTypeOK, RunInvariant, ActiveHasTarget, OnlyTheLastWorker,
       FirstAttemptWatched, WatchedIsBuffered, NothingOfFirst, EndedIsSettled, Ended, Attempt,
       WithWorker, supervision
<1>6. CASE /\ engaged[r]
           /\ fired' = [fired EXCEPT ![r] = TRUE]
           /\ buffer' = [buffer EXCEPT ![r] = <<>>]
           /\ UNCHANGED parsing /\ UNCHANGED pending /\ UNCHANGED engaged
  BY <1>1, <1>3, <1>6 DEF WorkerTypeOK, RunInvariant, ActiveHasTarget, OnlyTheLastWorker,
     FirstAttemptWatched, WatchedIsBuffered, NothingOfFirst, EndedIsSettled, Ended, Attempt,
     WithWorker, supervision
<1> QED
  BY <1>2, <1>4, <1>5, <1>6

LEMMA HandleStderrKeeps ==
  ASSUME WorkerTypeOK, NEW r \in Run, RunInvariant(r), HandleStderr(r), NEW q \in Run, RunInvariant(q)
  PROVE  RunInvariant(q)'
BY ElementsAppend DEF HandleStderr, Listening, AppendBuffered, WorkerTypeOK, RunInvariant,
   ActiveHasTarget, OnlyTheLastWorker, FirstAttemptWatched, WatchedIsBuffered, NothingOfFirst,
   EndedIsSettled, Ended, Attempt, WithWorker, supervision, service

LEMMA WorkerExitKeeps ==
  ASSUME WorkerTypeOK, NEW r \in Run, RunInvariant(r), WorkerExit(r), NEW q \in Run, RunInvariant(q)
  PROVE  RunInvariant(q)'
BY DEF WorkerExit, Closed, WorkerTypeOK, RunInvariant, ActiveHasTarget, OnlyTheLastWorker,
   FirstAttemptWatched, WatchedIsBuffered, NothingOfFirst, EndedIsSettled, Ended, Attempt,
   WithWorker, events, service

LEMMA KillTimerKeeps ==
  ASSUME WorkerTypeOK, NEW r \in Run, RunInvariant(r), KillTimer(r), NEW q \in Run, RunInvariant(q)
  PROVE  RunInvariant(q)'
BY DEF KillTimer, Closed, WorkerTypeOK, RunInvariant, ActiveHasTarget, OnlyTheLastWorker,
   FirstAttemptWatched, WatchedIsBuffered, NothingOfFirst, EndedIsSettled, Ended, Attempt,
   WithWorker, events, service

LEMMA CancelRunKeeps ==
  ASSUME WorkerTypeOK, NEW r \in Run, RunInvariant(r), CancelRun(r), NEW q \in Run, RunInvariant(q)
  PROVE  RunInvariant(q)'
BY DEF CancelRun, StopActive, WorkerTypeOK, RunInvariant, ActiveHasTarget, OnlyTheLastWorker,
   FirstAttemptWatched, WatchedIsBuffered, NothingOfFirst, EndedIsSettled, Ended, Attempt,
   WithWorker, events

LEMMA RunTimerKeeps ==
  ASSUME WorkerTypeOK, NEW r \in Run, RunInvariant(r), RunTimer(r), NEW q \in Run, RunInvariant(q)
  PROVE  RunInvariant(q)'
BY DEF RunTimer, StopActive, WorkerTypeOK, RunInvariant, ActiveHasTarget, OnlyTheLastWorker,
   FirstAttemptWatched, WatchedIsBuffered, NothingOfFirst, EndedIsSettled, Ended, Attempt,
   WithWorker, events

LEMMA ShutdownKeeps ==
  ASSUME WorkerTypeOK, Shutdown, NEW q \in Run, RunInvariant(q)
  PROVE  RunInvariant(q)'
BY DEF Shutdown, RunInvariant, ActiveHasTarget, OnlyTheLastWorker, FirstAttemptWatched,
   WatchedIsBuffered, NothingOfFirst, EndedIsSettled, Ended, supervision, events

LEMMA ExitKeeps ==
  ASSUME WorkerTypeOK, Exit, NEW q \in Run, RunInvariant(q)
  PROVE  WorkerTypeOK' /\ RunInvariant(q)'
BY DEF Exit, WorkerTypeOK, RunInvariant, ActiveHasTarget, OnlyTheLastWorker,
   FirstAttemptWatched, WatchedIsBuffered, NothingOfFirst, EndedIsSettled, Ended, supervision,
   closure, events, processes

(* One case per action: it keeps the types and the invariant of every run. *)
LEMMA WorkerInvariantNext == WorkerInvariant /\ [WorkerNext]_workerVars => WorkerInvariant'
<1> SUFFICES ASSUME WorkerInvariant, [WorkerNext]_workerVars
             PROVE  WorkerInvariant'
  OBVIOUS
<1> USE DEF WorkerInvariant
<1>1. ASSUME NEW r \in Run,
             StartRun(r) \/ FailPreSpawn(r) \/ Continue(r) \/ Failing(r)
               \/ HandleLine(r) \/ HandleStderr(r) \/ WorkerExit(r) \/ KillTimer(r)
               \/ CancelRun(r) \/ RunTimer(r)
      PROVE  WorkerTypeOK' /\ \A q \in Run : RunInvariant(q)'
  <2>0. /\ r \in Run /\ RunInvariant(r) /\ OnlyTheLastWorker(r) /\ ActiveHasTarget(r)
        /\ stage[r] \in {"attached", "settling"} => attempt[r] \in Attempt
        /\ parsing[r] # {} => stage[r] \in {"attached", "settling"}
    <3>1. r \in Run /\ RunInvariant(r)
      BY <1>1
    <3> QED
      BY <3>1 DEF RunInvariant, OnlyTheLastWorker, FirstAttemptWatched
  <2>1. CASE StartRun(r)
    BY <2>0, <2>1, StartRunTypes, StartRunKeeps
  <2>2. CASE FailPreSpawn(r)
    BY <2>0, <2>2, FailPreSpawnTypes, FailPreSpawnKeeps
  <2>3. CASE Spawn(r)
    BY <2>0, <2>3, SpawnTypes, SpawnKeeps
  <2>4. CASE Attach(r)
    BY <2>0, <2>4, AttachTypes, AttachKeeps
  <2>5. CASE FinishLine(r)
    <3>1. attempt[r] \in Attempt
      BY <2>0, <2>5 DEF FinishLine
    <3> QED
      BY <2>0, <2>5, <3>1, FinishLineTypes, FinishLineKeeps
  <2>6. CASE AppendEvent(r)
    BY <2>0, <2>6, AppendEventTypes, AppendEventKeeps
  <2>7. CASE SettleFinal(r)
    <3>1. attempt[r] \in Attempt
      BY <2>0, <2>7 DEF SettleFinal, CloseSeen
    <3> QED
      BY <2>0, <2>7, <3>1, SettleFinalTypes, SettleFinalKeeps
  <2>8. CASE SettleRetry(r)
    BY <2>0, <2>8, SettleRetryTypes, SettleRetryKeeps
  <2>9. CASE WriteMarker(r)
    BY <2>0, <2>9, WriteMarkerTypes, WriteMarkerKeeps
  <2>10. CASE OnRetryFired(r)
    BY <2>0, <2>10, OnRetryFiredTypes, OnRetryFiredKeeps
  <2>11. CASE Finalize(r)
    BY <2>0, <2>11, FinalizeTypes, FinalizeKeeps
  <2>12. CASE Resolve(r)
    BY <2>0, <2>12, ResolveTypes, ResolveKeeps
  <2>13. CASE Remerge(r)
    BY <2>0, <2>13, RemergeTypes, RemergeKeeps
  <2>14. CASE LoseEvent(r)
    BY <2>0, <2>14, LoseEventTypes, LoseEventKeeps
  <2>15. CASE LoseLine(r)
    BY <2>0, <2>15, LoseLineTypes, LoseLineKeeps
  <2>16. CASE FailAttach(r)
    BY <2>0, <2>16, FailAttachTypes, FailAttachKeeps
  <2>17. CASE FailMarker(r)
    BY <2>0, <2>17, FailMarkerTypes, FailMarkerKeeps
  <2>18. CASE FailHook(r)
    BY <2>0, <2>18, FailHookTypes, FailHookKeeps
  <2>19. CASE FailFinalize(r)
    BY <2>0, <2>19, FailFinalizeTypes, FailFinalizeKeeps
  <2>20. CASE HandleLine(r)
    <3>1. attempt[r] \in Attempt
      BY <2>0, <2>20 DEF HandleLine, Listening
    <3> QED
      BY <2>0, <2>20, <3>1, HandleLineTypes, HandleLineKeeps
  <2>21. CASE HandleStderr(r)
    <3>1. attempt[r] \in Attempt
      BY <2>0, <2>21 DEF HandleStderr, Listening
    <3> QED
      BY <2>0, <2>21, <3>1, HandleStderrTypes, HandleStderrKeeps
  <2>22. CASE WorkerExit(r)
    BY <2>0, <2>22, WorkerExitTypes, WorkerExitKeeps
  <2>23. CASE KillTimer(r)
    BY <2>0, <2>23, KillTimerTypes, KillTimerKeeps
  <2>24. CASE CancelRun(r)
    <3>1. StopActive(r, "cancelled") /\ "cancelled" \in Stop
      BY <2>24 DEF CancelRun, Stop
    <3> QED
      BY <2>0, <2>24, <3>1, StopActiveTypes, CancelRunKeeps
  <2>25. CASE RunTimer(r)
    <3>1. StopActive(r, "timed_out") /\ "timed_out" \in Stop
      BY <2>25 DEF RunTimer, Stop
    <3> QED
      BY <2>0, <2>25, <3>1, StopActiveTypes, RunTimerKeeps
  <2> QED
    BY <1>1, <2>1, <2>2, <2>3, <2>4, <2>5, <2>6, <2>7, <2>8, <2>9, <2>10, <2>11, <2>12, <2>13,
       <2>14, <2>15, <2>16, <2>17, <2>18, <2>19, <2>20, <2>21, <2>22, <2>23, <2>24, <2>25 DEF
       Continue, Failing
<1>2. CASE WorkerNext
  <2>2. CASE Shutdown
    <3>1. \A r \in Run : ActiveHasTarget(r)
      BY DEF RunInvariant
    <3>2. WorkerTypeOK'
      BY <2>2, <3>1, ShutdownTypes
    <3>3. \A q \in Run : RunInvariant(q)'
      BY <2>2, ShutdownKeeps
    <3> QED
      BY <3>2, <3>3
  <2>3. CASE Exit
    <3>1. \A q \in Run : RunInvariant(q)'
      BY <2>3, ExitKeeps
    <3>2. WorkerTypeOK'
      BY <2>3 DEF Exit, WorkerTypeOK, supervision, closure, events, processes
    <3> QED
      BY <3>1, <3>2
  <2> QED
    BY <1>1, <1>2, <2>2, <2>3 DEF WorkerNext
<1>3. CASE UNCHANGED workerVars
  BY <1>3 DEF workerVars, supervision, closure, events, processes, service, WorkerTypeOK,
              RunInvariant, ActiveHasTarget, OnlyTheLastWorker, FirstAttemptWatched,
              WatchedIsBuffered, NothingOfFirst, EndedIsSettled, Ended
<1> QED
  BY <1>2, <1>3
-----------------------------------------------------------------------------
(* The inductive invariant holds in every reachable state. *)
THEOREM WorkerInvariance == WorkerSpec => []WorkerInvariant
BY WorkerInvariantInit, WorkerInvariantNext, PTL DEF WorkerSpec

(* Type correctness: the closures, buffers and tables of the supervision    *)
(* hold what processManager.ts and orchestratorService.ts put there.        *)
THEOREM WorkerTypes == WorkerSpec => []WorkerTypeOK
<1>1. WorkerInvariant => WorkerTypeOK
  BY DEF WorkerInvariant
<1> QED
  BY <1>1, WorkerInvariance, PTL

(* A run never has two workers: executeAttempt spawns the retry only after  *)
(* the close of the worker that the interceptor killed.                     *)
THEOREM OneWorker == WorkerSpec => []OneWorkerAtATime
<1>1. WorkerInvariant => OneWorkerAtATime
  <2>1. ASSUME WorkerInvariant, NEW r \in Run
        PROVE  Cardinality(alive[r]) <= 1
    <3>1. alive[r] = {} \/ alive[r] = {attempt[r]}
      BY <2>1 DEF WorkerInvariant, RunInvariant, OnlyTheLastWorker
    <3>2. Cardinality({}) = 0 /\ Cardinality({attempt[r]}) = 1
      BY FS_EmptySet, FS_Singleton
    <3> QED
      BY <3>1, <3>2
  <2> QED
    BY <2>1 DEF OneWorkerAtATime
<1> QED
  BY <1>1, WorkerInvariance, PTL

(* The event buffer of the interceptor: of a worker that it kills, nothing  *)
(* reaches events.jsonl, whatever calls fail.                               *)
THEOREM NoTraceOfKilled == WorkerSpec => []KilledAttemptLeavesNoEvents
<1>1. WorkerInvariant => KilledAttemptLeavesNoEvents
  BY DEF WorkerInvariant, RunInvariant, FirstAttemptWatched, WatchedIsBuffered, NothingOfFirst,
         KilledAttemptLeavesNoEvents
<1> QED
  BY <1>1, WorkerInvariance, PTL

(* A run that ended has no worker left, whatever calls fail: finalizeRun is *)
(* reached only through the worker's close.  The start that failed between  *)
(* the spawn and the listeners is the one exception.                        *)
THEOREM NoWorkerOutlivesItsRun == WorkerSpec => []EndedRunHasNoWorker
<1>1. WorkerInvariant => EndedRunHasNoWorker
  BY DEF WorkerInvariant, RunInvariant, EndedIsSettled, OnlyTheLastWorker, WithWorker,
         EndedRunHasNoWorker
<1> QED
  BY <1>1, WorkerInvariance, PTL
-----------------------------------------------------------------------------
(* The second invariant. *)

(* Every event of the last worker that was handled so far is in s. *)
OfLast(r, s) == \A i \in 0..read[r] : <<attempt[r], i>> \in s

(* Where an event is before it is in events.jsonl: its line awaits the meta *)
(* update, or it is buffered, or its append is under way.                   *)
Underway(r) ==
  Elements(disk[r]) \cup pending[r] \cup Elements(buffer[r])
    \cup {<<attempt[r], p[1]>> : p \in parsing[r]}

Listened == {"attached", "settling"}
Written == {"finalizing", "resolved", "done", "merged"}

HandledIsKept(r) ==
  faults = 0 =>
    /\ stage[r] \in Listened /\ ~fired[r] => OfLast(r, Underway(r))
    /\ stage[r] \in Written /\ attempt[r] > 0 => OfLast(r, Elements(disk[r]))
    /\ stage[r] # "abandoned"

RetryIsMarked(r) ==
  /\ attempt[r] = 2 \/ stage[r] \in {"marked", "respawning"} => Marker \in Elements(disk[r])
  /\ faults = 0 /\ (attempt[r] = 2 \/ stage[r] = "respawning") => context[r] # "resumed"

StopIsRemembered(r) ==
  /\ stage[r] = "abandoned" => status[r] = "failed"
  /\ r \in active \cup stopped => attempt[r] \in Attempt
  /\ r \in active /\ attempt[r] = 1 => target[r] = 1
  /\ r \in stopped /\ attempt[r] = 1 =>
       /\ override[r][1] # "none"
       /\ status[r] # "completed"
       /\ stage[r] = "finalizing" => outcome[r] # "completed"

RunHistory(r) == HandledIsKept(r) /\ RetryIsMarked(r) /\ StopIsRemembered(r)

WorkerHistory == \A r \in Run : RunHistory(r)
-----------------------------------------------------------------------------

LEMMA WorkerHistoryInit == WorkerInit => WorkerHistory
BY DEF WorkerInit, WorkerHistory, RunHistory, HandledIsKept, RetryIsMarked, StopIsRemembered,
   Listened, Written, Attempt

(* A step that reads no line keeps HandledIsKept when no event leaves the   *)
(* places where it may be.                                                  *)
LEMMA KeptIfNoneLeaves ==
  ASSUME NEW q \in Run, HandledIsKept(q), faults' = 0 => faults = 0,
         attempt'[q] = attempt[q], read'[q] = read[q],
         Underway(q) \subseteq Underway(q)', Elements(disk[q]) \subseteq Elements(disk'[q]),
         stage'[q] \in Listened /\ ~fired'[q] => stage[q] \in Listened /\ ~fired[q],
         stage'[q] \in Written => stage[q] \in Written \/ attempt[q] = 0,
         stage'[q] # "abandoned"
  PROVE  HandledIsKept(q)'
<1>1. CASE faults' # 0
  BY <1>1 DEF HandledIsKept
<1>2. CASE faults' = 0
  <2>1. stage'[q] \in Listened /\ ~fired'[q] => OfLast(q, Underway(q))'
    <3>1. stage'[q] \in Listened /\ ~fired'[q] => OfLast(q, Underway(q))
      BY <1>2 DEF HandledIsKept
    <3> QED
      BY <3>1 DEF OfLast
  <2>2. stage'[q] \in Written /\ attempt'[q] > 0 => OfLast(q, Elements(disk[q]))'
    <3>1. stage'[q] \in Written /\ attempt'[q] > 0 => OfLast(q, Elements(disk[q]))
      BY <1>2 DEF HandledIsKept
    <3> QED
      BY <3>1 DEF OfLast
  <2> QED
    BY <2>1, <2>2 DEF HandledIsKept
<1> QED
  BY <1>1, <1>2

(* A step that changes none of the places either. *)
LEMMA KeptIfSame ==
  ASSUME NEW q \in Run, HandledIsKept(q), faults' = 0 => faults = 0,
         attempt'[q] = attempt[q], read'[q] = read[q], disk'[q] = disk[q],
         pending'[q] = pending[q], buffer'[q] = buffer[q], parsing'[q] = parsing[q],
         stage'[q] \in Listened /\ ~fired'[q] => stage[q] \in Listened /\ ~fired[q],
         stage'[q] \in Written => stage[q] \in Written \/ attempt[q] = 0,
         stage'[q] # "abandoned" \/ faults' # 0 \/ stage'[q] = stage[q]
  PROVE  HandledIsKept(q)'
<1>1. Underway(q) = Underway(q)'
  BY DEF Underway, Elements
<1>2. Elements(disk[q]) = Elements(disk'[q])
  BY DEF Elements
<1>3. CASE faults' # 0
  BY <1>3 DEF HandledIsKept
<1>4. CASE faults' = 0
  <2>1. stage'[q] # "abandoned"
    BY <1>4 DEF HandledIsKept
  <2> QED
    BY <1>1, <1>2, <2>1, KeptIfNoneLeaves
<1> QED
  BY <1>3, <1>4

LEMMA StartRunHistory ==
  ASSUME WorkerTypeOK, NEW r \in Run, RunInvariant(r), StartRun(r), NEW q \in Run, RunInvariant(q),
         RunHistory(q)
  PROVE  RunHistory(q)'
<1>1. HandledIsKept(q)'
  BY KeptIfSame DEF StartRun, Move, closure, events, processes, service, WorkerTypeOK, RunHistory, Listened, Written,
     RunInvariant, OnlyTheLastWorker
<1>2. RetryIsMarked(q)'
  BY DEF StartRun, Move, closure, events, processes, service, WorkerTypeOK, RunHistory, RetryIsMarked,
     RunInvariant, OnlyTheLastWorker
<1>3. StopIsRemembered(q)'
  BY DEF StartRun, Move, closure, events, processes, service, WorkerTypeOK, RunHistory, StopIsRemembered,
     RunInvariant, OnlyTheLastWorker, EndedIsSettled, Ended, WithWorker
<1> QED
  BY <1>1, <1>2, <1>3 DEF RunHistory

LEMMA FailPreSpawnHistory ==
  ASSUME WorkerTypeOK, NEW r \in Run, RunInvariant(r), FailPreSpawn(r), NEW q \in Run, RunInvariant(q),
         RunHistory(q)
  PROVE  RunHistory(q)'
<1>1. HandledIsKept(q)'
  BY KeptIfSame DEF FailPreSpawn, Move, closure, events, processes, service, WorkerTypeOK, RunHistory, Listened, Written,
     RunInvariant, OnlyTheLastWorker
<1>2. RetryIsMarked(q)'
  BY DEF FailPreSpawn, Move, closure, events, processes, service, WorkerTypeOK, RunHistory, RetryIsMarked,
     RunInvariant, OnlyTheLastWorker
<1>3. StopIsRemembered(q)'
  BY DEF FailPreSpawn, Move, closure, events, processes, service, WorkerTypeOK, RunHistory, StopIsRemembered,
     RunInvariant, OnlyTheLastWorker, EndedIsSettled, Ended, WithWorker
<1> QED
  BY <1>1, <1>2, <1>3 DEF RunHistory

LEMMA SettleRetryHistory ==
  ASSUME WorkerTypeOK, NEW r \in Run, RunInvariant(r), SettleRetry(r), NEW q \in Run, RunInvariant(q),
         RunHistory(q)
  PROVE  RunHistory(q)'
<1>1. HandledIsKept(q)'
  BY KeptIfSame DEF SettleRetry, CloseSeen, Drained, closure, events, processes, service, WorkerTypeOK, RunHistory, Listened, Written,
     RunInvariant, OnlyTheLastWorker
<1>2. RetryIsMarked(q)'
  BY DEF SettleRetry, CloseSeen, Drained, closure, events, processes, service, WorkerTypeOK, RunHistory, RetryIsMarked,
     RunInvariant, OnlyTheLastWorker
<1>3. StopIsRemembered(q)'
  BY DEF SettleRetry, CloseSeen, Drained, closure, events, processes, service, WorkerTypeOK, RunHistory, StopIsRemembered,
     RunInvariant, OnlyTheLastWorker, EndedIsSettled, Ended, WithWorker
<1> QED
  BY <1>1, <1>2, <1>3 DEF RunHistory

LEMMA OnRetryFiredHistory ==
  ASSUME WorkerTypeOK, NEW r \in Run, RunInvariant(r), OnRetryFired(r), NEW q \in Run, RunInvariant(q),
         RunHistory(q)
  PROVE  RunHistory(q)'
<1>1. HandledIsKept(q)'
  BY KeptIfSame DEF OnRetryFired, Move, ContextOfRetry, closure, events, processes, service, WorkerTypeOK, RunHistory, Listened, Written,
     RunInvariant, OnlyTheLastWorker
<1>2. RetryIsMarked(q)'
  BY DEF OnRetryFired, Move, ContextOfRetry, closure, events, processes, service, WorkerTypeOK, RunHistory, RetryIsMarked,
     RunInvariant, OnlyTheLastWorker
<1>3. StopIsRemembered(q)'
  BY DEF OnRetryFired, Move, ContextOfRetry, closure, events, processes, service, WorkerTypeOK, RunHistory, StopIsRemembered,
     RunInvariant, OnlyTheLastWorker, EndedIsSettled, Ended, WithWorker
<1> QED
  BY <1>1, <1>2, <1>3 DEF RunHistory

LEMMA FinalizeHistory ==
  ASSUME WorkerTypeOK, NEW r \in Run, RunInvariant(r), Finalize(r), NEW q \in Run, RunInvariant(q),
         RunHistory(q)
  PROVE  RunHistory(q)'
<1>1. HandledIsKept(q)'
  BY KeptIfSame DEF Finalize, Move, closure, events, processes, service, WorkerTypeOK, RunHistory, Listened, Written,
     RunInvariant, OnlyTheLastWorker
<1>2. RetryIsMarked(q)'
  BY DEF Finalize, Move, closure, events, processes, service, WorkerTypeOK, RunHistory, RetryIsMarked,
     RunInvariant, OnlyTheLastWorker
<1>3. StopIsRemembered(q)'
  BY DEF Finalize, Move, closure, events, processes, service, WorkerTypeOK, RunHistory, StopIsRemembered,
     RunInvariant, OnlyTheLastWorker, EndedIsSettled, Ended, WithWorker
<1> QED
  BY <1>1, <1>2, <1>3 DEF RunHistory

LEMMA ResolveHistory ==
  ASSUME WorkerTypeOK, NEW r \in Run, RunInvariant(r), Resolve(r), NEW q \in Run, RunInvariant(q),
         RunHistory(q)
  PROVE  RunHistory(q)'
<1>1. HandledIsKept(q)'
  BY KeptIfSame DEF Resolve, Move, closure, events, processes, service, WorkerTypeOK, RunHistory, Listened, Written,
     RunInvariant, OnlyTheLastWorker
<1>2. RetryIsMarked(q)'
  BY DEF Resolve, Move, closure, events, processes, service, WorkerTypeOK, RunHistory, RetryIsMarked,
     RunInvariant, OnlyTheLastWorker
<1>3. StopIsRemembered(q)'
  BY DEF Resolve, Move, closure, events, processes, service, WorkerTypeOK, RunHistory, StopIsRemembered,
     RunInvariant, OnlyTheLastWorker, EndedIsSettled, Ended, WithWorker
<1> QED
  BY <1>1, <1>2, <1>3 DEF RunHistory

LEMMA RemergeHistory ==
  ASSUME WorkerTypeOK, NEW r \in Run, RunInvariant(r), Remerge(r), NEW q \in Run, RunInvariant(q),
         RunHistory(q)
  PROVE  RunHistory(q)'
<1>1. HandledIsKept(q)'
  BY KeptIfSame DEF Remerge, Move, closure, events, processes, service, WorkerTypeOK, RunHistory, Listened, Written,
     RunInvariant, OnlyTheLastWorker
<1>2. RetryIsMarked(q)'
  BY DEF Remerge, Move, closure, events, processes, service, WorkerTypeOK, RunHistory, RetryIsMarked,
     RunInvariant, OnlyTheLastWorker
<1>3. StopIsRemembered(q)'
  BY DEF Remerge, Move, closure, events, processes, service, WorkerTypeOK, RunHistory, StopIsRemembered,
     RunInvariant, OnlyTheLastWorker, EndedIsSettled, Ended, WithWorker
<1> QED
  BY <1>1, <1>2, <1>3 DEF RunHistory

LEMMA WorkerExitHistory ==
  ASSUME WorkerTypeOK, NEW r \in Run, RunInvariant(r), WorkerExit(r), NEW q \in Run, RunInvariant(q),
         RunHistory(q)
  PROVE  RunHistory(q)'
<1>1. HandledIsKept(q)'
  <2>1. /\ stage'[q] = stage[q] \/ (stage[q] = "attached" /\ stage'[q] = "settling")
        /\ UNCHANGED <<attempt, fired, events, faults>>
    BY DEF WorkerExit, Closed, WorkerTypeOK
  <2> QED
    BY <2>1, KeptIfSame DEF events, RunHistory, Listened, Written
<1>2. RetryIsMarked(q)'
  BY DEF WorkerExit, Closed, events, service, WorkerTypeOK, RunHistory, RetryIsMarked,
     RunInvariant, OnlyTheLastWorker
<1>3. StopIsRemembered(q)'
  BY DEF WorkerExit, Closed, events, service, WorkerTypeOK, RunHistory, StopIsRemembered,
     RunInvariant, OnlyTheLastWorker, EndedIsSettled, Ended, WithWorker
<1> QED
  BY <1>1, <1>2, <1>3 DEF RunHistory

LEMMA KillTimerHistory ==
  ASSUME WorkerTypeOK, NEW r \in Run, RunInvariant(r), KillTimer(r), NEW q \in Run, RunInvariant(q),
         RunHistory(q)
  PROVE  RunHistory(q)'
<1>1. HandledIsKept(q)'
  <2>1. /\ stage'[q] = stage[q] \/ (stage[q] = "attached" /\ stage'[q] = "settling")
        /\ UNCHANGED <<attempt, fired, events, faults>>
    BY DEF KillTimer, Closed, WorkerTypeOK
  <2> QED
    BY <2>1, KeptIfSame DEF events, RunHistory, Listened, Written
<1>2. RetryIsMarked(q)'
  BY DEF KillTimer, Closed, events, service, WorkerTypeOK, RunHistory, RetryIsMarked,
     RunInvariant, OnlyTheLastWorker
<1>3. StopIsRemembered(q)'
  BY DEF KillTimer, Closed, events, service, WorkerTypeOK, RunHistory, StopIsRemembered,
     RunInvariant, OnlyTheLastWorker, EndedIsSettled, Ended, WithWorker
<1> QED
  BY <1>1, <1>2, <1>3 DEF RunHistory

LEMMA LoseEventHistory ==
  ASSUME WorkerTypeOK, NEW r \in Run, RunInvariant(r), LoseEvent(r), NEW q \in Run, RunInvariant(q),
         RunHistory(q)
  PROVE  RunHistory(q)'
<1>1. HandledIsKept(q)'
  BY DEF LoseEvent, Fault, WorkerTypeOK, HandledIsKept
<1>2. RetryIsMarked(q)'
  BY DEF LoseEvent, Fault, supervision, processes, service, WorkerTypeOK, RunHistory, RetryIsMarked,
     RunInvariant, OnlyTheLastWorker
<1>3. StopIsRemembered(q)'
  BY DEF LoseEvent, Fault, supervision, processes, service, WorkerTypeOK, RunHistory, StopIsRemembered,
     RunInvariant, OnlyTheLastWorker, EndedIsSettled, Ended, WithWorker
<1> QED
  BY <1>1, <1>2, <1>3 DEF RunHistory

LEMMA LoseLineHistory ==
  ASSUME WorkerTypeOK, NEW r \in Run, RunInvariant(r), LoseLine(r), NEW q \in Run, RunInvariant(q),
         RunHistory(q)
  PROVE  RunHistory(q)'
<1>1. HandledIsKept(q)'
  BY DEF LoseLine, Fault, WorkerTypeOK, HandledIsKept
<1>2. RetryIsMarked(q)'
  BY DEF LoseLine, Fault, supervision, closure, processes, service, WorkerTypeOK, RunHistory, RetryIsMarked,
     RunInvariant, OnlyTheLastWorker
<1>3. StopIsRemembered(q)'
  BY DEF LoseLine, Fault, supervision, closure, processes, service, WorkerTypeOK, RunHistory, StopIsRemembered,
     RunInvariant, OnlyTheLastWorker, EndedIsSettled, Ended, WithWorker
<1> QED
  BY <1>1, <1>2, <1>3 DEF RunHistory

LEMMA FailAttachHistory ==
  ASSUME WorkerTypeOK, NEW r \in Run, RunInvariant(r), FailAttach(r), NEW q \in Run, RunInvariant(q),
         RunHistory(q)
  PROVE  RunHistory(q)'
<1>1. HandledIsKept(q)'
  BY DEF FailAttach, Fault, WorkerTypeOK, HandledIsKept
<1>2. RetryIsMarked(q)'
  BY DEF FailAttach, Fault, Move, closure, events, processes, service, WorkerTypeOK, RunHistory, RetryIsMarked,
     RunInvariant, OnlyTheLastWorker
<1>3. StopIsRemembered(q)'
  BY DEF FailAttach, Fault, Move, closure, events, processes, service, WorkerTypeOK, RunHistory, StopIsRemembered,
     RunInvariant, OnlyTheLastWorker, EndedIsSettled, Ended, WithWorker
<1> QED
  BY <1>1, <1>2, <1>3 DEF RunHistory

LEMMA FailMarkerHistory ==
  ASSUME WorkerTypeOK, NEW r \in Run, RunInvariant(r), FailMarker(r), NEW q \in Run, RunInvariant(q),
         RunHistory(q)
  PROVE  RunHistory(q)'
<1>1. HandledIsKept(q)'
  BY KeptIfSame DEF FailMarker, Fault, Move, closure, events, processes, service, WorkerTypeOK, RunHistory, Listened, Written,
     RunInvariant, OnlyTheLastWorker
<1>2. RetryIsMarked(q)'
  BY DEF FailMarker, Fault, Move, closure, events, processes, service, WorkerTypeOK, RunHistory, RetryIsMarked,
     RunInvariant, OnlyTheLastWorker
<1>3. StopIsRemembered(q)'
  BY DEF FailMarker, Fault, Move, closure, events, processes, service, WorkerTypeOK, RunHistory, StopIsRemembered,
     RunInvariant, OnlyTheLastWorker, EndedIsSettled, Ended, WithWorker
<1> QED
  BY <1>1, <1>2, <1>3 DEF RunHistory

LEMMA FailHookHistory ==
  ASSUME WorkerTypeOK, NEW r \in Run, RunInvariant(r), FailHook(r), NEW q \in Run, RunInvariant(q),
         RunHistory(q)
  PROVE  RunHistory(q)'
<1>1. HandledIsKept(q)'
  BY KeptIfSame DEF FailHook, Fault, Move, closure, events, processes, service, WorkerTypeOK, RunHistory, Listened, Written,
     RunInvariant, OnlyTheLastWorker
<1>2. RetryIsMarked(q)'
  BY DEF FailHook, Fault, Move, closure, events, processes, service, WorkerTypeOK, RunHistory, RetryIsMarked,
     RunInvariant, OnlyTheLastWorker
<1>3. StopIsRemembered(q)'
  BY DEF FailHook, Fault, Move, closure, events, processes, service, WorkerTypeOK, RunHistory, StopIsRemembered,
     RunInvariant, OnlyTheLastWorker, EndedIsSettled, Ended, WithWorker
<1> QED
  BY <1>1, <1>2, <1>3 DEF RunHistory

LEMMA FailFinalizeHistory ==
  ASSUME WorkerTypeOK, NEW r \in Run, RunInvariant(r), FailFinalize(r), NEW q \in Run, RunInvariant(q),
         RunHistory(q)
  PROVE  RunHistory(q)'
<1>1. HandledIsKept(q)'
  BY KeptIfSame DEF FailFinalize, Fault, Move, closure, events, processes, service, WorkerTypeOK, RunHistory, Listened, Written,
     RunInvariant, OnlyTheLastWorker
<1>2. RetryIsMarked(q)'
  BY DEF FailFinalize, Fault, Move, closure, events, processes, service, WorkerTypeOK, RunHistory, RetryIsMarked,
     RunInvariant, OnlyTheLastWorker
<1>3. StopIsRemembered(q)'
  BY DEF FailFinalize, Fault, Move, closure, events, processes, service, WorkerTypeOK, RunHistory, StopIsRemembered,
     RunInvariant, OnlyTheLastWorker, EndedIsSettled, Ended, WithWorker
<1> QED
  BY <1>1, <1>2, <1>3 DEF RunHistory

LEMMA SpawnHistory ==
  ASSUME WorkerTypeOK, NEW r \in Run, RunInvariant(r), Spawn(r), NEW q \in Run, RunInvariant(q),
         RunHistory(q)
  PROVE  RunHistory(q)'
<1>1. HandledIsKept(q)'
  <2>1. CASE q = r
    BY <2>1 DEF Spawn, Move, WorkerTypeOK, HandledIsKept, Listened, Written
  <2>2. CASE q # r
    <3>1. /\ stage'[q] = stage[q] /\ attempt'[q] = attempt[q]
          /\ UNCHANGED <<closure, events, faults>>
      BY <2>2 DEF Spawn, Move, WorkerTypeOK
    <3> QED
      BY <3>1, KeptIfSame DEF closure, events, RunHistory
  <2> QED
    BY <2>1, <2>2
<1>2. RetryIsMarked(q)'
  BY DEF Spawn, Move, closure, events, service, WorkerTypeOK, RunHistory, RetryIsMarked, RunInvariant, OnlyTheLastWorker
<1>3. StopIsRemembered(q)'
  BY DEF Spawn, Move, closure, events, service, WorkerTypeOK, RunHistory, StopIsRemembered, RunInvariant, OnlyTheLastWorker, EndedIsSettled, Ended,
     WithWorker, Attempt
<1> QED
  BY <1>1, <1>2, <1>3 DEF RunHistory

LEMMA AttachHistory ==
  ASSUME WorkerTypeOK, NEW r \in Run, RunInvariant(r), Attach(r), NEW q \in Run, RunInvariant(q),
         RunHistory(q)
  PROVE  RunHistory(q)'
<1>1. HandledIsKept(q)'
  <2>1. CASE q = r
    <3>1. /\ stage'[r] = "attached" /\ read'[r] = 0 /\ attempt' = attempt
          /\ <<attempt[r], 0>> \in pending'[r] \/ buffer'[r] = << <<attempt[r], 0>> >>
      BY DEF Attach, Move, WorkerTypeOK
    <3>2. <<attempt[r], 0>> \in Underway(r)'
      BY <3>1 DEF Underway, Elements
    <3>3. OfLast(r, Underway(r))'
      BY <3>1, <3>2 DEF OfLast
    <3> QED
      BY <2>1, <3>1, <3>3 DEF HandledIsKept, Written
  <2>2. CASE q # r
    <3>1. /\ stage'[q] = stage[q] /\ attempt'[q] = attempt[q] /\ fired'[q] = fired[q]
          /\ read'[q] = read[q] /\ buffer'[q] = buffer[q] /\ pending'[q] = pending[q]
          /\ parsing'[q] = parsing[q] /\ disk'[q] = disk[q] /\ faults' = faults
      BY <2>2 DEF Attach, Move, WorkerTypeOK
    <3> QED
      BY <3>1, KeptIfSame DEF RunHistory
  <2> QED
    BY <2>1, <2>2
<1>2. RetryIsMarked(q)'
  BY DEF Attach, Move, processes, service, WorkerTypeOK, RunHistory, RetryIsMarked, RunInvariant, OnlyTheLastWorker
<1>3. StopIsRemembered(q)'
  BY DEF Attach, Move, Closure, processes, service, WorkerTypeOK, RunHistory, StopIsRemembered, RunInvariant, OnlyTheLastWorker, EndedIsSettled, Ended,
     WithWorker, Attempt
<1> QED
  BY <1>1, <1>2, <1>3 DEF RunHistory

LEMMA AppendEventHistory ==
  ASSUME WorkerTypeOK, NEW r \in Run, RunInvariant(r), AppendEvent(r), NEW q \in Run, RunInvariant(q),
         RunHistory(q)
  PROVE  RunHistory(q)'
<1>1. HandledIsKept(q)'
  <2>1. PICK e \in pending[r] : /\ disk' = [disk EXCEPT ![r] = Append(@, e)]
                                /\ pending' = [pending EXCEPT ![r] = @ \ {e}]
    BY DEF AppendEvent
  <2>2. Elements(disk'[q]) \cup pending'[q] = Elements(disk[q]) \cup pending[q]
        /\ Elements(disk[q]) \subseteq Elements(disk'[q])
    BY <2>1, ElementsAppend DEF WorkerTypeOK
  <2>3. UNCHANGED <<stage, attempt, fired, read, buffer, parsing, faults>>
    BY DEF AppendEvent, supervision, closure
  <2>4. Underway(q) = Underway(q)'
    BY <2>2, <2>3 DEF Underway, Elements
  <2> QED
    BY <2>2, <2>3, <2>4, KeptIfSame, KeptIfNoneLeaves DEF RunHistory, HandledIsKept
<1>2. RetryIsMarked(q)'
  BY ElementsAppend DEF AppendEvent, supervision, WorkerTypeOK, RunHistory, RetryIsMarked
<1>3. StopIsRemembered(q)'
  BY DEF AppendEvent, supervision, closure, service, WorkerTypeOK, RunHistory, StopIsRemembered, RunInvariant, OnlyTheLastWorker, EndedIsSettled, Ended,
     WithWorker, Attempt
<1> QED
  BY <1>1, <1>2, <1>3 DEF RunHistory

LEMMA WriteMarkerHistory ==
  ASSUME WorkerTypeOK, NEW r \in Run, RunInvariant(r), WriteMarker(r), NEW q \in Run, RunInvariant(q),
         RunHistory(q)
  PROVE  RunHistory(q)'
<1>0. /\ disk' = [disk EXCEPT ![r] = Append(@, Marker)] /\ Marker \in Event
      /\ stage[r] = "retrying" /\ stage' = [stage EXCEPT ![r] = "marked"]
      /\ UNCHANGED <<attempt, context, closure, read, pending, buffer, parsing, faults>>
  BY DEF WriteMarker, Move, Marker, Event
<1>1. HandledIsKept(q)'
  <2>1. Elements(disk[q]) \subseteq Elements(disk'[q])
    BY <1>0, ElementsAppend DEF WorkerTypeOK
  <2>2. Underway(q) \subseteq Underway(q)'
    BY <1>0, <2>1 DEF Underway, Elements
  <2>3. stage'[q] = stage[q] \/ stage'[q] = "marked"
    BY <1>0 DEF WorkerTypeOK
  <2>4. CASE stage'[q] = "abandoned"
    BY <1>0, <2>3, <2>4 DEF RunHistory, HandledIsKept
  <2>5. CASE stage'[q] # "abandoned"
    BY <1>0, <2>1, <2>2, <2>3, <2>5, KeptIfNoneLeaves DEF closure, RunHistory, Listened, Written
  <2> QED
    BY <2>4, <2>5
<1>2. RetryIsMarked(q)'
  BY <1>0, ElementsAppend DEF WorkerTypeOK, RunHistory, RetryIsMarked, RunInvariant,
     OnlyTheLastWorker
<1>3. StopIsRemembered(q)'
  BY DEF WriteMarker, Move, closure, processes, service, WorkerTypeOK, RunHistory, StopIsRemembered, RunInvariant, OnlyTheLastWorker, EndedIsSettled, Ended,
     WithWorker, Attempt
<1> QED
  BY <1>1, <1>2, <1>3 DEF RunHistory

(* A step that handles one more line of the attached worker. *)
LEMMA KeptWithOneMore ==
  ASSUME WorkerTypeOK, NEW q \in Run, HandledIsKept(q), faults' = faults,
         stage[q] = "attached", stage'[q] = "attached", ~fired[q],
         attempt'[q] = attempt[q], read'[q] = read[q] + 1,
         fired'[q] \/ Underway(q) \cup {<<attempt[q], read[q] + 1>>} \subseteq Underway(q)'
  PROVE  HandledIsKept(q)'
<1>1. CASE fired'[q]
  BY <1>1 DEF HandledIsKept, Written
<1>2. CASE ~fired'[q] /\ faults = 0
  <2>1. OfLast(q, Underway(q))
    BY <1>2 DEF HandledIsKept, Listened
  <2>2. \A i \in 0..(read[q] + 1) : i \in 0..read[q] \/ i = read[q] + 1
    BY DEF WorkerTypeOK
  <2>3. OfLast(q, Underway(q))'
    BY <1>2, <2>1, <2>2 DEF OfLast
  <2> QED
    BY <2>3 DEF HandledIsKept, Written
<1>3. CASE faults # 0
  BY <1>3 DEF HandledIsKept
<1> QED
  BY <1>1, <1>2, <1>3

(* cancel marks the attempt that it stops and unmarks none. *)
LEMMA CancelStops ==
  ASSUME WorkerTypeOK, NEW r \in Run, NEW n \in Attempt, NEW s \in Stop, Cancel(r, n, s)
  PROVE  /\ override'[r][n] # "none"
         /\ \A q \in Run, m \in Attempt : override[q][m] # "none" => override'[q][m] # "none"
<1>1. FirstStop(override[r][n], s) # "none"
  BY DEF FirstStop, Stop
<1>2. override' = [override EXCEPT ![r] = [override[r] EXCEPT ![n] = FirstStop(override[r][n], s)]]
  BY DEF Cancel, WorkerTypeOK
<1>3. override'[r] = [override[r] EXCEPT ![n] = FirstStop(override[r][n], s)]
  BY <1>2 DEF WorkerTypeOK
<1>4. override'[r][n] = FirstStop(override[r][n], s)
      /\ \A m \in Attempt : m # n => override'[r][m] = override[r][m]
  BY <1>3 DEF WorkerTypeOK
<1>5. \A q \in Run : q # r => override'[q] = override[q]
  BY <1>2 DEF WorkerTypeOK
<1> QED
  BY <1>1, <1>4, <1>5

LEMMA RecordObservedErrorStops ==
  ASSUME WorkerTypeOK, NEW r \in Run, attempt[r] \in Attempt,
         Cancel(r, attempt[r], "failed") \/ UNCHANGED override
  PROVE  \A q \in Run, m \in Attempt : override[q][m] # "none" => override'[q][m] # "none"
BY CancelStops DEF Stop

LEMMA StopsAreKept ==
  ASSUME NEW q \in Run, StopIsRemembered(q), UNCHANGED <<supervision, target, stopped>>,
         override[q][1] # "none" => override'[q][1] # "none"
  PROVE  StopIsRemembered(q)'
BY DEF StopIsRemembered, supervision

LEMMA HandleLineHistory ==
  ASSUME WorkerTypeOK, NEW r \in Run, RunInvariant(r), HandleLine(r), NEW q \in Run, RunInvariant(q),
         RunHistory(q)
  PROVE  RunHistory(q)'
<1>0. /\ stage[r] = "attached" /\ ~fired[r] /\ read' = [read EXCEPT ![r] = @ + 1]
      /\ UNCHANGED <<supervision, override, target, disk, service, faults>>
  BY DEF HandleLine, Listening
<1>1. HandledIsKept(q)'
  <2>1. CASE q = r
    <3>1. \/ \E k \in LineKind : /\ parsing' = [parsing EXCEPT ![r] = @ \cup {<<read[r] + 1, k>>}]
                                /\ UNCHANGED buffer /\ UNCHANGED pending
          \/ \E k \in LineKind : /\ parsing' = [parsing EXCEPT ![r] = @ \cup {<<read[r] + 1, k>>}]
                                /\ pending' = [pending EXCEPT ![r] = @ \cup Elements(buffer[r])]
                                /\ buffer' = [buffer EXCEPT ![r] = <<>>]
          \/ fired'[r]
      BY DEF HandleLine, WorkerTypeOK
    <3>2. \/ fired'[r]
          \/ \E k \in LineKind :
               /\ parsing'[r] = parsing[r] \cup {<<read[r] + 1, k>>}
               /\ pending[r] \cup Elements(buffer[r]) \subseteq pending'[r] \cup Elements(buffer'[r])
      BY <3>1 DEF WorkerTypeOK
    <3>3. ASSUME NEW k \in LineKind,
                 parsing'[r] = parsing[r] \cup {<<read[r] + 1, k>>},
                 pending[r] \cup Elements(buffer[r]) \subseteq pending'[r] \cup Elements(buffer'[r])
          PROVE  Underway(r) \cup {<<attempt[r], read[r] + 1>>} \subseteq Underway(r)'
      <4>1. <<read[r] + 1, k>> \in parsing'[r] /\ <<read[r] + 1, k>>[1] = read[r] + 1
        BY <3>3
      <4>2. <<attempt[r], read[r] + 1>> \in Underway(r)'
        BY <1>0, <4>1 DEF Underway, supervision
      <4>3. Underway(r) \subseteq Underway(r)'
        BY <1>0, <3>3 DEF Underway, supervision, Elements
      <4> QED
        BY <4>2, <4>3
    <3>4. fired'[r] \/ Underway(r) \cup {<<attempt[r], read[r] + 1>>} \subseteq Underway(r)'
      BY <3>2, <3>3
    <3>5. attempt'[r] = attempt[r] /\ read'[r] = read[r] + 1 /\ stage'[r] = "attached"
      BY <1>0 DEF WorkerTypeOK, supervision
    <3> QED
      BY <1>0, <2>1, <3>4, <3>5, KeptWithOneMore DEF RunHistory
  <2>2. CASE q # r
    <3>1. /\ fired'[q] = fired[q] /\ read'[q] = read[q] /\ buffer'[q] = buffer[q]
          /\ pending'[q] = pending[q] /\ parsing'[q] = parsing[q]
      BY <2>2 DEF HandleLine, WorkerTypeOK
    <3> QED
      BY <1>0, <3>1, KeptIfSame DEF RunHistory, supervision
  <2> QED
    BY <2>1, <2>2
<1>2. RetryIsMarked(q)'
  BY <1>0 DEF RunHistory, RetryIsMarked, supervision, Elements
<1>3. StopIsRemembered(q)'
  BY <1>0, StopsAreKept DEF RunHistory, service
<1> QED
  BY <1>1, <1>2, <1>3 DEF RunHistory

(* appendEventBuffered puts the event in one of the places. *)
LEMMA AppendBufferedKeeps ==
  ASSUME WorkerTypeOK, NEW r \in Run, NEW e \in Event, AppendBuffered(r, e)
  PROVE  /\ pending[r] \cup Elements(buffer[r]) \cup {e} = pending'[r] \cup Elements(buffer'[r])
         /\ \A q \in Run \ {r} : pending'[q] = pending[q] /\ buffer'[q] = buffer[q]
<1>1. CASE buffer' = [buffer EXCEPT ![r] = Append(@, e)] /\ UNCHANGED pending
  <2>1. Elements(buffer'[r]) = Elements(buffer[r]) \cup {e}
    BY <1>1, ElementsAppend DEF WorkerTypeOK
  <2> QED
    BY <1>1, <2>1 DEF WorkerTypeOK
<1>2. CASE pending' = [pending EXCEPT ![r] = @ \cup {e}] /\ UNCHANGED buffer
  BY <1>2 DEF WorkerTypeOK, Elements
<1> QED
  BY <1>1, <1>2 DEF AppendBuffered

LEMMA HandleStderrHistory ==
  ASSUME WorkerTypeOK, NEW r \in Run, RunInvariant(r), HandleStderr(r), NEW q \in Run, RunInvariant(q),
         RunHistory(q)
  PROVE  RunHistory(q)'
<1>0. /\ stage[r] = "attached" /\ ~fired[r] /\ read' = [read EXCEPT ![r] = @ + 1]
      /\ AppendBuffered(r, <<attempt[r], read[r] + 1>>)
      /\ Cancel(r, attempt[r], "failed") \/ UNCHANGED override
      /\ UNCHANGED <<supervision, target, fired, parsing, disk, service, faults>>
  BY DEF HandleStderr, Listening, RecordObservedError
<1>1. HandledIsKept(q)'
  <2>1. <<attempt[r], read[r] + 1>> \in Event
    BY DEF WorkerTypeOK, Event
  <2>2. CASE q = r
    <3>1. pending[r] \cup Elements(buffer[r]) \cup {<<attempt[r], read[r] + 1>>}
            = pending'[r] \cup Elements(buffer'[r])
      BY <1>0, <2>1, AppendBufferedKeeps
    <3>2. Underway(r) \cup {<<attempt[r], read[r] + 1>>} \subseteq Underway(r)'
      BY <1>0, <3>1 DEF Underway, supervision, Elements
    <3>3. attempt'[r] = attempt[r] /\ read'[r] = read[r] + 1 /\ stage'[r] = "attached"
      BY <1>0 DEF WorkerTypeOK, supervision
    <3> QED
      BY <1>0, <2>2, <3>2, <3>3, KeptWithOneMore DEF RunHistory
  <2>3. CASE q # r
    <3>1. /\ read'[q] = read[q] /\ buffer'[q] = buffer[q] /\ pending'[q] = pending[q]
      BY <1>0, <2>1, <2>3, AppendBufferedKeeps DEF WorkerTypeOK
    <3> QED
      BY <1>0, <3>1, KeptIfSame DEF RunHistory, supervision
  <2> QED
    BY <2>2, <2>3
<1>2. RetryIsMarked(q)'
  BY <1>0 DEF RunHistory, RetryIsMarked, supervision, Elements
<1>3. StopIsRemembered(q)'
  <2>1. attempt[r] \in Attempt
    BY <1>0 DEF RunInvariant, OnlyTheLastWorker
  <2>2. override[q][1] # "none" => override'[q][1] # "none"
    BY <1>0, <2>1, RecordObservedErrorStops DEF Attempt
  <2> QED
    BY <1>0, <2>2, StopsAreKept DEF RunHistory, service
<1> QED
  BY <1>1, <1>2, <1>3 DEF RunHistory

LEMMA FinishLineHistory ==
  ASSUME WorkerTypeOK, NEW r \in Run, RunInvariant(r), FinishLine(r), NEW q \in Run, RunInvariant(q),
         RunHistory(q)
  PROVE  RunHistory(q)'
<1>0. PICK p \in parsing[r] :
        /\ parsing' = [parsing EXCEPT ![r] = @ \ {p}]
        /\ \/ fired[r] /\ UNCHANGED override /\ UNCHANGED buffer /\ UNCHANGED pending
           \/ /\ AppendBuffered(r, <<attempt[r], p[1]>>)
              /\ Cancel(r, attempt[r], "failed") \/ UNCHANGED override
        /\ UNCHANGED <<supervision, target, fired, read, disk, service, faults>>
  BY DEF FinishLine, Dropped, RecordObservedError
<1>1. HandledIsKept(q)'
  <2>1. <<attempt[r], p[1]>> \in Event
    BY DEF WorkerTypeOK, Event
  <2>2. CASE q # r
    <3>1. parsing'[q] = parsing[q] /\ buffer'[q] = buffer[q] /\ pending'[q] = pending[q]
      BY <1>0, <2>1, <2>2, AppendBufferedKeeps DEF WorkerTypeOK
    <3> QED
      BY <1>0, <3>1, KeptIfSame DEF RunHistory, supervision
  <2>3. CASE q = r /\ fired[r]
    <3>1. stage[r] \in Listened
      BY DEF RunInvariant, FirstAttemptWatched, Listened
    <3> QED
      BY <1>0, <2>3, <3>1 DEF RunHistory, HandledIsKept, supervision, Listened, Written
  <2>4. CASE q = r /\ ~fired[r]
    <3>1. pending[r] \cup Elements(buffer[r]) \cup {<<attempt[r], p[1]>>}
            = pending'[r] \cup Elements(buffer'[r])
      BY <1>0, <2>1, <2>4, AppendBufferedKeeps
    <3>2. parsing'[r] = parsing[r] \ {p}
      BY <1>0 DEF WorkerTypeOK
    <3>3. \A x \in parsing[r] : x = p \/ x \in parsing'[r]
      BY <3>2
    <3>4. Underway(r) \subseteq Underway(r)'
      BY <1>0, <3>1, <3>3 DEF Underway, supervision, Elements
    <3>5. stage[r] # "abandoned"
      BY DEF RunInvariant, FirstAttemptWatched
    <3> QED
      BY <1>0, <2>4, <3>4, <3>5, KeptIfNoneLeaves DEF RunHistory, supervision, Elements
  <2> QED
    BY <2>2, <2>3, <2>4
<1>2. RetryIsMarked(q)'
  BY <1>0 DEF RunHistory, RetryIsMarked, supervision, Elements
<1>3. StopIsRemembered(q)'
  <2>1. attempt[r] \in Attempt
    BY DEF RunInvariant, OnlyTheLastWorker, FirstAttemptWatched
  <2>2. override[q][1] # "none" => override'[q][1] # "none"
    BY <1>0, <2>1, RecordObservedErrorStops DEF Attempt
  <2> QED
    BY <1>0, <2>2, StopsAreKept DEF RunHistory, service
<1> QED
  BY <1>1, <1>2, <1>3 DEF RunHistory

LEMMA SettleFinalHistory ==
  ASSUME WorkerTypeOK, NEW r \in Run, RunInvariant(r), SettleFinal(r), NEW q \in Run, RunInvariant(q),
         RunHistory(q)
  PROVE  RunHistory(q)'
<1>0. /\ stage[r] = "settling" /\ stage' = [stage EXCEPT ![r] = "finalizing"]
      /\ parsing[r] = {} /\ pending[r] = {} /\ ~fired[r]
      /\ disk' = [disk EXCEPT ![r] = @ \o buffer[r]]
      /\ outcome' = [outcome EXCEPT ![r] = Outcome(r)]
      /\ UNCHANGED <<status, attempt, context, active, override, target, read, stopped, faults>>
  BY DEF SettleFinal, CloseSeen, Drained, FlushedAtClose, service
<1>01. Elements(disk'[r]) = Elements(disk[r]) \cup Elements(buffer[r]) /\ stage'[r] = "finalizing"
  BY <1>0, ElementsConcat DEF WorkerTypeOK
<1>1. HandledIsKept(q)'
  <2>1. CASE q # r
    <3>1. /\ stage'[q] = stage[q] /\ fired' = fired /\ disk'[q] = disk[q] /\ pending' = pending
          /\ buffer'[q] = buffer[q] /\ parsing' = parsing
      BY <2>1 DEF SettleFinal, WorkerTypeOK
    <3> QED
      BY <1>0, <3>1, KeptIfSame DEF RunHistory
  <2>2. CASE q = r
    <3>1. faults = 0 => OfLast(r, Underway(r))
      BY <1>0, <2>2 DEF RunHistory, HandledIsKept, Listened
    <3>2. Underway(r) = Elements(disk'[r])
      BY <1>0, <1>01 DEF Underway
    <3>3. faults' = 0 => OfLast(r, Elements(disk[r]))'
      BY <1>0, <3>1, <3>2 DEF OfLast
    <3> QED
      BY <1>01, <2>2, <3>3 DEF HandledIsKept, Listened
  <2> QED
    BY <2>1, <2>2
<1>2. RetryIsMarked(q)'
  <2>1. stage'[q] = stage[q] \/ stage'[q] = "finalizing"
    BY <1>0 DEF WorkerTypeOK
  <2>2. Elements(disk[q]) \subseteq Elements(disk'[q])
    BY <1>0, <1>01 DEF WorkerTypeOK, Elements
  <2> QED
    BY <1>0, <2>1, <2>2 DEF RunHistory, RetryIsMarked
<1>3. StopIsRemembered(q)'
  <2>1. CASE q # r
    BY <1>0, <2>1 DEF WorkerTypeOK, RunHistory, StopIsRemembered
  <2>2. CASE q = r
    <3>1. attempt[r] = 1 /\ override[r][1] # "none" => Outcome(r) # "completed"
      BY DEF WorkerTypeOK, Outcome, FirstStop, Stop, Attempt
    <3> QED
      BY <1>0, <1>01, <2>2, <3>1 DEF WorkerTypeOK, RunHistory, StopIsRemembered
  <2> QED
    BY <2>1, <2>2
<1> QED
  BY <1>1, <1>2, <1>3 DEF RunHistory

(* cancelRun, the timer and the shutdown of the daemon: a run that they     *)
(* stop while its worker lives has an override, and is not yet finalized.   *)
LEMMA StopsAreAdded ==
  ASSUME WorkerTypeOK, NEW q \in Run, RunInvariant(q), StopIsRemembered(q),
         UNCHANGED <<status, stage, attempt, outcome, active, target>>,
         override[q][1] # "none" => override'[q][1] # "none",
         q \in stopped' \ stopped => q \in active /\ alive[q] # {} /\ override'[q][target[q]] # "none"
  PROVE  StopIsRemembered(q)'
<1>1. CASE q \in stopped' \ stopped
  <2>1. stage[q] \in WithWorker
    BY <1>1 DEF RunInvariant, OnlyTheLastWorker
  <2>2. status[q] # "completed"
    BY <2>1 DEF RunInvariant, EndedIsSettled, Ended, WithWorker, StopIsRemembered
  <2>3. attempt[q] \in Attempt /\ (attempt[q] = 1 => override'[q][1] # "none")
    BY <1>1 DEF StopIsRemembered
  <2> QED
    BY <2>1, <2>2, <2>3 DEF StopIsRemembered, WithWorker
<1>2. CASE q \notin stopped' \ stopped
  BY <1>2 DEF StopIsRemembered
<1> QED
  BY <1>1, <1>2

LEMMA StopActiveHistory ==
  ASSUME WorkerTypeOK, NEW r \in Run, RunInvariant(r), NEW s \in Stop, StopActive(r, s),
         NEW q \in Run, RunInvariant(q), RunHistory(q)
  PROVE  RunHistory(q)'
<1>0. /\ r \in active /\ Cancel(r, target[r], s)
      /\ stopped' = IF alive[r] = {} THEN stopped ELSE stopped \cup {r}
      /\ UNCHANGED <<status, stage, attempt, outcome, context, active, target, fired, events, faults>>
  BY DEF StopActive
<1>1. HandledIsKept(q)'
  BY <1>0, KeptIfSame DEF RunHistory, events
<1>2. RetryIsMarked(q)'
  BY <1>0 DEF RunHistory, RetryIsMarked, events, Elements
<1>3. StopIsRemembered(q)'
  <2>1. target[r] \in Attempt
    BY <1>0 DEF RunInvariant, ActiveHasTarget
  <2>2. override'[r][target[r]] # "none"
        /\ (override[q][1] # "none" => override'[q][1] # "none")
    BY <1>0, <2>1, CancelStops DEF Attempt
  <2>3. q \in stopped' \ stopped => q = r /\ alive[r] # {}
    BY <1>0
  <2> QED
    BY <1>0, <2>2, <2>3, StopsAreAdded DEF RunHistory
<1> QED
  BY <1>1, <1>2, <1>3 DEF RunHistory

LEMMA ShutdownHistory ==
  ASSUME WorkerTypeOK, Shutdown, NEW q \in Run, RunInvariant(q), RunHistory(q)
  PROVE  RunHistory(q)'
<1>0. /\ stopped' = stopped \cup {r \in active : alive[r] # {}}
      /\ override' = [r \in Run |-> IF r \in active
                        THEN [override[r] EXCEPT ![target[r]] = FirstStop(@, "cancelled")]
                        ELSE override[r]]
      /\ UNCHANGED <<status, stage, attempt, outcome, context, active, target, fired, events, faults>>
  BY DEF Shutdown, supervision
<1>1. HandledIsKept(q)'
  BY <1>0, KeptIfSame DEF RunHistory, events
<1>2. RetryIsMarked(q)'
  BY <1>0 DEF RunHistory, RetryIsMarked, events, Elements
<1>3. StopIsRemembered(q)'
  <2>1. CASE q \notin active
    <3>1. override'[q] = override[q] /\ q \notin stopped' \ stopped
      BY <1>0, <2>1
    <3> QED
      BY <1>0, <3>1, StopsAreAdded DEF RunHistory
  <2>2. CASE q \in active
    <3>1. target[q] \in Attempt
      BY <2>2 DEF RunInvariant, ActiveHasTarget
    <3>2. override'[q] = [override[q] EXCEPT ![target[q]] = FirstStop(override[q][target[q]], "cancelled")]
      BY <1>0, <2>2
    <3>3. FirstStop(override[q][target[q]], "cancelled") # "none"
      BY DEF FirstStop
    <3>4. override'[q][target[q]] # "none" /\ (override[q][1] # "none" => override'[q][1] # "none")
      BY <3>1, <3>2, <3>3 DEF WorkerTypeOK, Attempt
    <3>5. q \in stopped' \ stopped => alive[q] # {}
      BY <1>0
    <3> QED
      BY <1>0, <2>2, <3>4, <3>5, StopsAreAdded DEF RunHistory
  <2> QED
    BY <2>1, <2>2
<1> QED
  BY <1>1, <1>2, <1>3 DEF RunHistory

LEMMA ExitHistory ==
  ASSUME Exit, NEW q \in Run, RunHistory(q)
  PROVE  RunHistory(q)'
<1>1. /\ UNCHANGED <<supervision, closure, events, faults>> /\ UNCHANGED stopped
  BY DEF Exit
<1>2. HandledIsKept(q)'
  BY <1>1, KeptIfSame DEF RunHistory, supervision, closure, events
<1> QED
  BY <1>1, <1>2 DEF RunHistory, RetryIsMarked, StopIsRemembered, supervision, closure, events,
     Elements

(* One case per action, as for the first invariant. *)
LEMMA WorkerHistoryNext ==
  WorkerInvariant /\ WorkerHistory /\ [WorkerNext]_workerVars => WorkerHistory'
<1> SUFFICES ASSUME WorkerInvariant, WorkerHistory, [WorkerNext]_workerVars, NEW q \in Run
             PROVE  RunHistory(q)'
  BY DEF WorkerHistory
<1>0. WorkerTypeOK /\ RunInvariant(q) /\ RunHistory(q)
  BY DEF WorkerInvariant, WorkerHistory
<1>1. ASSUME NEW r \in Run,
             StartRun(r) \/ FailPreSpawn(r) \/ Continue(r) \/ Failing(r)
               \/ HandleLine(r) \/ HandleStderr(r) \/ WorkerExit(r) \/ KillTimer(r)
               \/ CancelRun(r) \/ RunTimer(r)
      PROVE  RunHistory(q)'
  <2>0. RunInvariant(r)
    BY DEF WorkerInvariant
  <2>1. CASE StartRun(r)
    BY <1>0, <2>0, <2>1, StartRunHistory
  <2>2. CASE FailPreSpawn(r)
    BY <1>0, <2>0, <2>2, FailPreSpawnHistory
  <2>3. CASE Spawn(r)
    BY <1>0, <2>0, <2>3, SpawnHistory
  <2>4. CASE Attach(r)
    BY <1>0, <2>0, <2>4, AttachHistory
  <2>5. CASE FinishLine(r)
    BY <1>0, <2>0, <2>5, FinishLineHistory
  <2>6. CASE AppendEvent(r)
    BY <1>0, <2>0, <2>6, AppendEventHistory
  <2>7. CASE SettleFinal(r)
    BY <1>0, <2>0, <2>7, SettleFinalHistory
  <2>8. CASE SettleRetry(r)
    BY <1>0, <2>0, <2>8, SettleRetryHistory
  <2>9. CASE WriteMarker(r)
    BY <1>0, <2>0, <2>9, WriteMarkerHistory
  <2>10. CASE OnRetryFired(r)
    BY <1>0, <2>0, <2>10, OnRetryFiredHistory
  <2>11. CASE Finalize(r)
    BY <1>0, <2>0, <2>11, FinalizeHistory
  <2>12. CASE Resolve(r)
    BY <1>0, <2>0, <2>12, ResolveHistory
  <2>13. CASE Remerge(r)
    BY <1>0, <2>0, <2>13, RemergeHistory
  <2>14. CASE LoseEvent(r)
    BY <1>0, <2>0, <2>14, LoseEventHistory
  <2>15. CASE LoseLine(r)
    BY <1>0, <2>0, <2>15, LoseLineHistory
  <2>16. CASE FailAttach(r)
    BY <1>0, <2>0, <2>16, FailAttachHistory
  <2>17. CASE FailMarker(r)
    BY <1>0, <2>0, <2>17, FailMarkerHistory
  <2>18. CASE FailHook(r)
    BY <1>0, <2>0, <2>18, FailHookHistory
  <2>19. CASE FailFinalize(r)
    BY <1>0, <2>0, <2>19, FailFinalizeHistory
  <2>20. CASE HandleLine(r)
    BY <1>0, <2>0, <2>20, HandleLineHistory
  <2>21. CASE HandleStderr(r)
    BY <1>0, <2>0, <2>21, HandleStderrHistory
  <2>22. CASE WorkerExit(r)
    BY <1>0, <2>0, <2>22, WorkerExitHistory
  <2>23. CASE KillTimer(r)
    BY <1>0, <2>0, <2>23, KillTimerHistory
  <2>24. CASE CancelRun(r) \/ RunTimer(r)
    BY <1>0, <2>0, <2>24, StopActiveHistory DEF CancelRun, RunTimer, Stop
  <2> QED
    BY <1>1, <2>1, <2>2, <2>3, <2>4, <2>5, <2>6, <2>7, <2>8, <2>9, <2>10, <2>11, <2>12, <2>13, <2>14,
       <2>15, <2>16, <2>17, <2>18, <2>19, <2>20, <2>21, <2>22, <2>23, <2>24 DEF Continue, Failing
<1>2. CASE Shutdown
  BY <1>0, <1>2, ShutdownHistory
<1>3. CASE Exit
  BY <1>0, <1>3, ExitHistory
<1>4. CASE UNCHANGED workerVars
  <2>1. /\ UNCHANGED <<supervision, closure, events, faults>> /\ UNCHANGED stopped
    BY <1>4 DEF workerVars, service
  <2>2. HandledIsKept(q)'
    BY <1>0, <2>1, KeptIfSame DEF RunHistory, supervision, closure, events
  <2> QED
    BY <1>0, <2>1, <2>2 DEF RunHistory, RetryIsMarked, StopIsRemembered, supervision, closure,
       events, Elements
<1> QED
  BY <1>1, <1>2, <1>3, <1>4 DEF WorkerNext

(* The second invariant holds in every reachable state, too. *)
THEOREM WorkerHistoryInvariance == WorkerSpec => []WorkerHistory
BY WorkerHistoryInit, WorkerHistoryNext, WorkerInvariance, PTL DEF WorkerSpec

(* While no call of the store fails, every line that was handled of the     *)
(* last worker of a run is in events.jsonl when the run ends: the lines     *)
(* whose meta update is awaited, the appends under way and the event buffer *)
(* of the interceptor are all drained before finalizeRun.                   *)
THEOREM NoHandledEventIsLost == WorkerSpec => []NoEventLost
<1>1. WorkerInvariant /\ WorkerHistory => NoEventLost
  <2>1. ASSUME WorkerInvariant, WorkerHistory, faults = 0, NEW r \in Run, Ended(r), attempt[r] > 0
        PROVE  OfLast(r, Elements(disk[r]))
    <3>1. stage[r] \in Written
      BY <2>1 DEF WorkerInvariant, RunInvariant, EndedIsSettled, WorkerHistory, RunHistory,
         HandledIsKept, Written
    <3> QED
      BY <2>1, <3>1 DEF WorkerHistory, RunHistory, HandledIsKept
  <2> QED
    BY <2>1 DEF NoEventLost, OfLast
<1> QED
  BY <1>1, WorkerInvariance, WorkerHistoryInvariance, PTL

(* The record of an ended run tells its end truly: a cancel, a timeout or a *)
(* shutdown that reached a living worker is not followed by "completed",    *)
(* since the first override wins in the closure and finalizeRun reads it;   *)
(* and, while no call of the store fails, a retry that ended is not shown   *)
(* as a resumed session, since its marker is on disk before its worker is.  *)
THEOREM EndsAreTrue == WorkerSpec => []EndsAreToldTruly
<1>1. WorkerInvariant /\ WorkerHistory => AcceptedStopHolds
  BY DEF WorkerInvariant, WorkerTypeOK, WorkerHistory, RunHistory, StopIsRemembered,
     AcceptedStopHolds
<1>2. WorkerHistory => RetryIsNotShownAsResumed
  BY DEF WorkerHistory, RunHistory, RetryIsMarked, RetryIsNotShownAsResumed
<1> QED
  BY <1>1, <1>2, WorkerInvariance, WorkerHistoryInvariance, PTL DEF EndsAreToldTruly
=============================================================================
