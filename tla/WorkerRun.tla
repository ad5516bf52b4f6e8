----------------------------- MODULE WorkerRun -----------------------------
(***************************************************************************)
(* The supervision of worker processes: for each run the daemon spawns a   *)
(* CLI worker, handles the lines it writes, stops it on request, on a      *)
(* timeout or on a fatal error, and finalizes the run when the worker's    *)
(* "close" event arrives.  A run that resumes a session on another account *)
(* watches the first lines: when the CLI does not know the session, its    *)
(* worker is killed and a second one, the retry, takes its place.          *)
(*                                                                         *)
(* A step is what runs between two awaits of the daemon's event loop.      *)
(*                                                                         *)
(* Simplifications.                                                        *)
(*  - Every line carries one event; an event is <<attempt, line>>, line 0  *)
(*    being the "started" event.                                           *)
(*  - The exit of a worker and its "close" event are one step.             *)
(*  - Deadlines may pass at any time.                                      *)
(*  - Calls of the run store are one step (see RunStore and EventLog); a   *)
(*    call that fails is a fault.                                          *)
(***************************************************************************)
EXTENDS Naturals, Sequences, FiniteSets

CONSTANTS
  Run,         \* the runs that are started
  Resumable,   \* those that have an early-event interceptor
  EarlyExit,   \* may a worker exit while its pid is being recorded?
  MaxLine,     \* bound: lines that a worker writes
  MaxFault     \* bound: calls of the run store that fail

ASSUME WorkerRunAssumption ==
  /\ Resumable \subseteq Run
  /\ EarlyExit \in BOOLEAN
  /\ MaxLine \in Nat /\ MaxFault \in Nat

VARIABLES
  status,     \* meta.status; "none" before createRun
  stage,      \* where the run's asynchronous functions are
  attempt,    \* number of the last worker spawned
  alive,      \* the attempts whose worker process lives
  killer,     \* the attempts whose forced kill is scheduled
  override,   \* terminalOverride in each attempt's closure
  target,     \* the attempt whose closure activeCancel is
  engaged,    \* does the interceptor still watch?
  fired,      \* cancelledByInterceptor
  read,       \* lines handled of the attempt
  parsing,    \* lines whose meta update is awaited
  buffer,     \* eventBuffer
  pending,    \* events whose append is under way
  disk,       \* events.jsonl
  gotResult,  \* has the attempt's result event been seen?
  exitOk,     \* did the attempt's worker exit with code 0?
  broken,     \* persistenceFailed
  outcome,    \* the status finalizeRun was called to write
  context,    \* what terminal_context says of the rotation
  active,     \* activeRuns
  timer,      \* the runs that have a timer
  daemon,     \* "up", "stopping" or "exited"
  waited,     \* the runs shutdown waits for
  stopped,    \* history: the runs stopped while their worker lived
  faults

supervision == <<status, stage, attempt, outcome, context, active, timer>>
closure     == <<override, target, engaged, fired, gotResult, exitOk, broken>>
events      == <<read, parsing, buffer, pending, disk>>
processes   == <<alive, killer>>
service     == <<daemon, waited, stopped>>
workerVars  == <<supervision, closure, events, processes, service, faults>>

Attempt == {1, 2}
Stop == {"failed", "cancelled", "timed_out"}
Ended(r) == status[r] \in Stop \cup {"completed"}
LineKind == {"text", "result", "fatal", "session_not_found"}
Event == {0, 1, 2} \X Nat
Marker == <<0, 0>>      \* lifecycle/session_not_found_in_run_retry
Elements(s) == {s[i] : i \in 1..Len(s)}

Stage == {"none", "preparing", "spawned", "attached", "settling", "finalizing",
          "retrying", "marked", "respawning", "resolved", "rejected", "abandoned",
          "done", "merged"}

WorkerTypeOK ==
  /\ status \in [Run -> Stop \cup {"none", "running", "completed"}]
  /\ stage \in [Run -> Stage]
  /\ attempt \in [Run -> {0, 1, 2}]
  /\ alive \in [Run -> SUBSET Attempt]
  /\ killer \in [Run -> SUBSET Attempt]
  /\ override \in [Run -> [Attempt -> Stop \cup {"none"}]]
  /\ target \in [Run -> {0, 1, 2}]
  /\ engaged \in [Run -> BOOLEAN] /\ fired \in [Run -> BOOLEAN]
  /\ read \in [Run -> Nat]
  /\ parsing \in [Run -> SUBSET (Nat \X LineKind)]
  /\ buffer \in [Run -> Seq(Event)]
  /\ pending \in [Run -> SUBSET Event]
  /\ disk \in [Run -> Seq(Event)]
  /\ gotResult \in [Run -> BOOLEAN] /\ exitOk \in [Run -> BOOLEAN]
  /\ broken \in [Run -> BOOLEAN]
  /\ outcome \in [Run -> Stop \cup {"none", "completed"}]
  /\ context \in [Run -> {"none", "resumed", "fresh", "failure"}]
  /\ active \subseteq Run /\ timer \subseteq Run
  /\ daemon \in {"up", "stopping", "exited"}
  /\ waited \subseteq Run /\ stopped \subseteq Run
  /\ faults \in Nat

WorkerInit ==
  /\ status = [r \in Run |-> "none"]
  /\ stage = [r \in Run |-> "none"]
  /\ attempt = [r \in Run |-> 0]
  /\ alive = [r \in Run |-> {}]
  /\ killer = [r \in Run |-> {}]
  /\ override = [r \in Run |-> [n \in Attempt |-> "none"]]
  /\ target = [r \in Run |-> 0]
  /\ engaged = [r \in Run |-> FALSE] /\ fired = [r \in Run |-> FALSE]
  /\ read = [r \in Run |-> 0]
  /\ parsing = [r \in Run |-> {}]
  /\ buffer = [r \in Run |-> <<>>]
  /\ pending = [r \in Run |-> {}]
  /\ disk = [r \in Run |-> <<>>]
  /\ gotResult = [r \in Run |-> FALSE] /\ exitOk = [r \in Run |-> FALSE]
  /\ broken = [r \in Run |-> FALSE]
  /\ outcome = [r \in Run |-> "none"]
  /\ context = [r \in Run |-> "none"]
  /\ active = {} /\ timer = {}
  /\ daemon = "up"
  /\ waited = {} /\ stopped = {}
  /\ faults = 0

Up == daemon # "exited"
Move(r, from, to) == Up /\ stage[r] = from /\ stage' = [stage EXCEPT ![r] = to]
-----------------------------------------------------------------------------
(* Starting.  startRun and sendFollowup never look at shuttingDown. *)

StartRun(r) ==
  /\ Move(r, "none", "preparing")
  /\ status' = [status EXCEPT ![r] = "running"]
  /\ context' = [context EXCEPT ![r] = IF r \in Resumable THEN "resumed" ELSE "none"]
  /\ UNCHANGED <<attempt, outcome, active, timer, closure, events, processes, service, faults>>

FailPreSpawn(r) ==
  /\ Move(r, "preparing", "done")
  /\ status' = [status EXCEPT ![r] = "failed"]
  /\ UNCHANGED <<attempt, outcome, context, active, timer, closure, events, processes,
                 service, faults>>

(* spawn; the pid is then recorded before any listener is attached. *)
Spawn(r) ==
  /\ Move(r, "preparing", "spawned") \/ Move(r, "respawning", "spawned")
  /\ attempt' = [attempt EXCEPT ![r] = @ + 1]
  /\ alive' = [alive EXCEPT ![r] = @ \cup {attempt[r] + 1}]
  /\ UNCHANGED <<status, outcome, context, active, timer, closure, events, killer, service, faults>>

Closure(r) == attempt[r]

(* The listeners and activeCancel; after the first attempt startManagedRun  *)
(* goes on to register the run and to arm its timer.                        *)
Attach(r) ==
  LET n == attempt[r]
      watched == n = 1 /\ r \in Resumable
  IN
  /\ Move(r, "spawned", "attached")
  /\ target' = [target EXCEPT ![r] = Closure(r)]
  /\ engaged' = [engaged EXCEPT ![r] = watched]
  /\ fired' = [fired EXCEPT ![r] = FALSE]
  /\ gotResult' = [gotResult EXCEPT ![r] = FALSE]
  /\ exitOk' = [exitOk EXCEPT ![r] = FALSE]
  /\ broken' = [broken EXCEPT ![r] = FALSE]
  /\ read' = [read EXCEPT ![r] = 0]
  /\ buffer' = [buffer EXCEPT ![r] = IF watched THEN << <<n, 0>> >> ELSE <<>>]
  /\ pending' = [pending EXCEPT ![r] = IF watched THEN @ ELSE @ \cup {<<n, 0>>}]
  /\ active' = IF n = 1 THEN active \cup {r} ELSE active
  /\ timer' = IF n = 1 THEN timer \cup {r} ELSE timer
  /\ UNCHANGED <<status, attempt, outcome, context, override, parsing, disk, processes,
                 service, faults>>
-----------------------------------------------------------------------------
(* Stopping. *)

FirstStop(old, new) == IF old = "none" THEN new ELSE old
KillSchedulesNone(n) == {}
KillSchedules(n) == {n}

(* cancel in the closure of attempt n: SIGTERM, which a worker may ignore,  *)
(* and SIGKILL five seconds later.                                          *)
Cancel(r, n, s) ==
  /\ override' = [override EXCEPT ![r][n] = FirstStop(@, s)]
  /\ killer' = [killer EXCEPT ![r] = @ \cup KillSchedules(n)]

StopActive(r, s) ==
  /\ Up /\ r \in active
  /\ Cancel(r, target[r], s)
  /\ timer' = timer \ {r}
  /\ stopped' = IF alive[r] = {} THEN stopped ELSE stopped \cup {r}
  /\ UNCHANGED <<status, stage, attempt, outcome, context, active, target, engaged, fired,
                 gotResult, exitOk, broken, events, alive, daemon, waited, faults>>

(* The status that cancelRun looked at may be stale: only membership in     *)
(* activeRuns is read in the same step.                                     *)
CancelRun(r) == StopActive(r, "cancelled")
RunTimer(r) == r \in timer /\ StopActive(r, "timed_out")

Shutdown ==
  /\ daemon = "up"
  /\ daemon' = "stopping"
  /\ override' = [r \in Run |-> IF r \in active
                                THEN [override[r] EXCEPT ![target[r]] = FirstStop(@, "cancelled")]
                                ELSE override[r]]
  /\ killer' = [r \in Run |-> IF r \in active THEN killer[r] \cup KillSchedules(target[r]) ELSE killer[r]]
  /\ waited' = active
  /\ stopped' = stopped \cup {r \in active : alive[r] # {}}
  /\ UNCHANGED <<supervision, target, engaged, fired, gotResult, exitOk, broken, events,
                 alive, faults>>

Settled(r) == stage[r] \in {"resolved", "rejected", "done", "merged"}

Exit ==
  /\ daemon = "stopping"
  /\ \A r \in waited : Settled(r)
  /\ daemon' = "exited"
  /\ UNCHANGED <<supervision, closure, events, processes, waited, stopped, faults>>
-----------------------------------------------------------------------------
(* The lines of the worker. *)

Listening(r) ==
  Up /\ stage[r] = "attached" /\ alive[r] # {} /\ read[r] < MaxLine /\ ~fired[r]

(* handleJsonLine up to its await: the interceptor lets the line pass, or   *)
(* disengages because a threshold has passed, or kills the worker.          *)
HandleLine(r) ==
  \E k \in LineKind, within \in BOOLEAN :
    LET pass == [parsing EXCEPT ![r] = @ \cup {<<read[r] + 1, k>>}] IN
    /\ Listening(r)
    /\ read' = [read EXCEPT ![r] = @ + 1]
    /\ \/ /\ ~engaged[r] \/ (within /\ k # "session_not_found")
          /\ parsing' = pass
          /\ UNCHANGED buffer /\ UNCHANGED pending /\ UNCHANGED engaged
          /\ UNCHANGED fired /\ UNCHANGED killer
       \/ /\ engaged[r] /\ ~within
          /\ parsing' = pass
          /\ pending' = [pending EXCEPT ![r] = @ \cup Elements(buffer[r])]
          /\ buffer' = [buffer EXCEPT ![r] = <<>>]
          /\ engaged' = [engaged EXCEPT ![r] = FALSE]
          /\ UNCHANGED fired /\ UNCHANGED killer
       \/ /\ engaged[r] /\ within /\ k = "session_not_found"
          /\ fired' = [fired EXCEPT ![r] = TRUE]
          /\ buffer' = [buffer EXCEPT ![r] = <<>>]
          /\ killer' = [killer EXCEPT ![r] = @ \cup KillSchedules(attempt[r])]
          /\ UNCHANGED parsing /\ UNCHANGED pending /\ UNCHANGED engaged
    /\ UNCHANGED <<supervision, override, target, gotResult, exitOk, broken, disk, alive,
                   service, faults>>

(* appendEventBuffered *)
AppendBuffered(r, e) ==
  \/ /\ engaged[r] /\ ~fired[r]
     /\ buffer' = [buffer EXCEPT ![r] = Append(@, e)]
     /\ UNCHANGED pending
  \/ /\ ~engaged[r] \/ fired[r]
     /\ pending' = [pending EXCEPT ![r] = @ \cup {e}]
     /\ UNCHANGED buffer

(* recordObservedError, for an error that may be fatal. *)
RecordObservedError(r, isFatal) ==
  \/ isFatal /\ Cancel(r, attempt[r], "failed")
  \/ ~isFatal /\ UNCHANGED override /\ UNCHANGED killer

(* An error on stderr does not pass the interceptor. *)
HandleStderr(r) ==
  /\ Listening(r)
  /\ read' = [read EXCEPT ![r] = @ + 1]
  /\ \E isFatal \in BOOLEAN : RecordObservedError(r, isFatal)
  /\ AppendBuffered(r, <<attempt[r], read[r] + 1>>)
  /\ UNCHANGED <<supervision, target, engaged, fired, gotResult, exitOk, broken, parsing,
                 disk, alive, service, faults>>

DroppedNever(r) == FALSE
Dropped(r) == fired[r]

(* The rest of handleJsonLine, after the await. *)
FinishLine(r) ==
  \E p \in parsing[r] :
    /\ Up
    /\ parsing' = [parsing EXCEPT ![r] = @ \ {p}]
    /\ \/ /\ Dropped(r)
          /\ UNCHANGED gotResult /\ UNCHANGED override /\ UNCHANGED killer
          /\ UNCHANGED buffer /\ UNCHANGED pending
       \/ /\ ~Dropped(r)
          /\ gotResult' = [gotResult EXCEPT ![r] = @ \/ p[2] = "result"]
          /\ RecordObservedError(r, p[2] \in {"fatal", "session_not_found"})
          /\ AppendBuffered(r, <<attempt[r], p[1]>>)
    /\ UNCHANGED <<supervision, target, engaged, fired, exitOk, broken, read, disk, alive,
                   service, faults>>

(* appendEvent: whichever call gets the run lock next. *)
AppendEvent(r) ==
  /\ Up
  /\ \E e \in pending[r] :
       /\ disk' = [disk EXCEPT ![r] = Append(@, e)]
       /\ pending' = [pending EXCEPT ![r] = @ \ {e}]
  /\ UNCHANGED <<supervision, closure, read, parsing, buffer, processes, service, faults>>
-----------------------------------------------------------------------------
(* The end of a worker: its "close" event, when somebody listens. *)

Closed(r) == stage' = [stage EXCEPT ![r] = IF @ = "attached" /\ Up THEN "settling" ELSE @]

WorkerExit(r) ==
  \E n \in alive[r], ok \in BOOLEAN :
    /\ stage[r] = "spawned" /\ Up => EarlyExit
    /\ alive' = [alive EXCEPT ![r] = @ \ {n}]
    /\ killer' = [killer EXCEPT ![r] = @ \ {n}]
    /\ exitOk' = [exitOk EXCEPT ![r] = ok]
    /\ Closed(r)
    /\ UNCHANGED <<status, attempt, outcome, context, active, timer, override, target, engaged,
                   fired, gotResult, broken, events, service, faults>>

KillTimer(r) ==
  \E n \in alive[r] \cap killer[r] :
    /\ Up
    /\ alive' = [alive EXCEPT ![r] = @ \ {n}]
    /\ killer' = [killer EXCEPT ![r] = @ \ {n}]
    /\ exitOk' = [exitOk EXCEPT ![r] = FALSE]
    /\ Closed(r)
    /\ UNCHANGED <<status, attempt, outcome, context, active, timer, override, target, engaged,
                   fired, gotResult, broken, events, service, faults>>

(* finalizeRun's status, a failed persistence task leading to               *)
(* failFinalization instead.                                                *)
OutcomeOfResult(r) ==
  IF broken[r] THEN "failed"
  ELSE IF exitOk[r] /\ gotResult[r] THEN "completed"
  ELSE FirstStop(override[r][attempt[r]], "failed")

Outcome(r) ==
  IF broken[r] THEN "failed"
  ELSE FirstStop(override[r][attempt[r]],
                 IF exitOk[r] /\ gotResult[r] THEN "completed" ELSE "failed")

Drained(r) == parsing[r] = {} /\ pending[r] = {}

FiredOrClosed(r) == stage[r] = "settling" \/ (stage[r] = "attached" /\ fired[r])
StoppedOrClosed(r) ==
  stage[r] = "settling" \/ (stage[r] = "attached" /\ override[r][attempt[r]] # "none")
CloseSeen(r) == stage[r] = "settling"

Unflushed(r) == <<>>
FlushedAtClose(r) == buffer[r]

SettleFinal(r) ==
  /\ Up /\ CloseSeen(r) /\ Drained(r) /\ ~fired[r]
  /\ stage' = [stage EXCEPT ![r] = "finalizing"]
  /\ disk' = [disk EXCEPT ![r] = @ \o FlushedAtClose(r)]
  /\ buffer' = [buffer EXCEPT ![r] = <<>>]
  /\ engaged' = [engaged EXCEPT ![r] = FALSE]
  /\ outcome' = [outcome EXCEPT ![r] = Outcome(r)]
  /\ UNCHANGED <<status, attempt, context, active, timer, override, target, fired, gotResult,
                 exitOk, broken, read, parsing, pending, processes, service, faults>>

SettleRetry(r) ==
  /\ Up /\ CloseSeen(r) /\ Drained(r) /\ fired[r]
  /\ stage' = [stage EXCEPT ![r] = "retrying"]
  /\ UNCHANGED <<status, attempt, outcome, context, active, timer, closure, events, processes,
                 service, faults>>

WriteMarker(r) ==
  /\ Move(r, "retrying", "marked")
  /\ disk' = [disk EXCEPT ![r] = Append(@, Marker)]
  /\ UNCHANGED <<status, attempt, outcome, context, active, timer, closure, read, parsing,
                 buffer, pending, processes, service, faults>>

ContextOfRetry(r) == "fresh"

OnRetryFired(r) ==
  /\ Move(r, "marked", "respawning")
  /\ context' = [context EXCEPT ![r] = ContextOfRetry(r)]
  /\ UNCHANGED <<status, attempt, outcome, active, timer, closure, events, processes, service,
                 faults>>

(* markTerminal; the context of a timeout or a failure replaces the one of  *)
(* the rotation.                                                            *)
Finalize(r) ==
  /\ Move(r, "finalizing", "resolved")
  /\ status' = [status EXCEPT ![r] = outcome[r]]
  /\ \/ outcome[r] \in {"completed", "cancelled", "failed"} /\ UNCHANGED context
     \/ outcome[r] \in {"timed_out", "failed"} /\ context' = [context EXCEPT ![r] = "failure"]
  /\ UNCHANGED <<attempt, outcome, active, timer, closure, events, processes, service, faults>>

Resolve(r) ==
  /\ Move(r, "resolved", "done")
  /\ active' = active \ {r}
  /\ timer' = timer \ {r}
  /\ UNCHANGED <<status, attempt, outcome, context, closure, events, processes, service, faults>>

(* The rotation's marker is merged into terminal_context again. *)
Remerge(r) ==
  /\ r \in Resumable /\ attempt[r] > 0
  /\ Move(r, "done", "merged")
  /\ context' = [context EXCEPT ![r] = IF Marker \in Elements(disk[r]) THEN "fresh" ELSE "resumed"]
  /\ UNCHANGED <<status, attempt, outcome, active, timer, closure, events, processes, service,
                 faults>>
-----------------------------------------------------------------------------
(* Calls of the run store that fail. *)

Fault == Up /\ faults < MaxFault /\ faults' = faults + 1

(* A tracked task's failure is remembered; that of an append which          *)
(* handleJsonLine awaits is swallowed.                                      *)
LoseEvent(r) ==
  /\ Fault
  /\ \E e \in pending[r], tracked \in BOOLEAN :
       /\ pending' = [pending EXCEPT ![r] = @ \ {e}]
       /\ broken' = [broken EXCEPT ![r] = @ \/ tracked]
  /\ UNCHANGED <<supervision, override, target, engaged, fired, gotResult, exitOk, read,
                 parsing, buffer, disk, processes, service>>

(* The meta update that handleJsonLine awaits fails: the line is lost. *)
LoseLine(r) ==
  /\ Fault
  /\ \E p \in parsing[r] : parsing' = [parsing EXCEPT ![r] = @ \ {p}]
  /\ UNCHANGED <<supervision, closure, read, buffer, pending, disk, processes, service>>

(* Recording the pid fails: the start fails, or the retry's promise does. *)
FailAttach(r) ==
  /\ Fault
  /\ \/ /\ attempt[r] = 1 /\ Move(r, "spawned", "abandoned")
        /\ status' = [status EXCEPT ![r] = "failed"]
     \/ attempt[r] = 2 /\ Move(r, "spawned", "rejected") /\ UNCHANGED status
  /\ UNCHANGED <<attempt, outcome, context, active, timer, closure, events, processes, service>>

FailMarker(r) ==
  /\ Fault /\ Move(r, "retrying", "rejected")
  /\ UNCHANGED <<status, attempt, outcome, context, active, timer, closure, events, processes,
                 service>>

FailHook(r) ==
  /\ Fault /\ Move(r, "marked", "respawning")
  /\ UNCHANGED <<status, attempt, outcome, context, active, timer, closure, events, processes,
                 service>>

(* finalizeRun fails; so may failFinalization, and the run stays running. *)
FailFinalize(r) ==
  /\ Fault /\ Move(r, "finalizing", "resolved")
  /\ \/ status' = [status EXCEPT ![r] = "failed"]
     \/ UNCHANGED status
  /\ UNCHANGED <<attempt, outcome, context, active, timer, closure, events, processes, service>>
-----------------------------------------------------------------------------
Continue(r) ==
  \/ Spawn(r) \/ Attach(r) \/ FinishLine(r) \/ AppendEvent(r)
  \/ SettleFinal(r) \/ SettleRetry(r) \/ WriteMarker(r) \/ OnRetryFired(r)
  \/ Finalize(r) \/ Resolve(r) \/ Remerge(r)

Failing(r) ==
  \/ LoseEvent(r) \/ LoseLine(r) \/ FailAttach(r) \/ FailMarker(r) \/ FailHook(r)
  \/ FailFinalize(r)

WorkerNext ==
  \/ \E r \in Run :
       \/ StartRun(r) \/ FailPreSpawn(r) \/ Continue(r) \/ Failing(r)
       \/ HandleLine(r) \/ HandleStderr(r) \/ WorkerExit(r) \/ KillTimer(r)
       \/ CancelRun(r) \/ RunTimer(r)
  \/ Shutdown \/ Exit

WorkerSpec == WorkerInit /\ [][WorkerNext]_workerVars

(* The event loop goes on, and timers expire: a worker that writes no more  *)
(* lines is quiet, and a forced kill needs no cooperation.  Each subscript  *)
(* has a variable that every step of its action changes.                    *)
FairWorkerSpec ==
  /\ WorkerSpec
  /\ \A r \in Run : WF_<<stage, parsing, pending>>(Continue(r)) /\ WF_alive(KillTimer(r))
                    /\ WF_timer(RunTimer(r))
  /\ WF_daemon(Exit)
-----------------------------------------------------------------------------
(* A run never has two workers at the same time: the retry is spawned after *)
(* the close of the worker it replaces.                                     *)
OneWorkerAtATime == \A r \in Run : Cardinality(alive[r]) <= 1

(* No event of a worker that the interceptor killed is in events.jsonl or   *)
(* on its way there.                                                        *)
KilledAttemptLeavesNoEvents ==
  \A r \in Run : fired[r] \/ attempt[r] = 2 =>
    \A e \in Elements(disk[r]) \cup pending[r] : e[1] # 1

(* While no call of the store fails: when a run ends, the started event and *)
(* the event of every line that was handled of its last worker are in       *)
(* events.jsonl, buffered ones included.                                    *)
NoEventLost ==
  faults = 0 =>
    \A r \in Run : Ended(r) /\ attempt[r] > 0 =>
      \A i \in 0..read[r] : <<attempt[r], i>> \in Elements(disk[r])

(* A run that ended has no worker left, whatever calls fail and however its *)
(* stops, its close and its retry meet; except that of a start which failed *)
(* between the spawn and the listeners.                                     *)
EndedRunHasNoWorker ==
  \A r \in Run : Ended(r) /\ stage[r] # "abandoned" => alive[r] = {}

(* While no call of the store fails: once a retry has ended no reader of    *)
(* meta.json is told that the session was resumed.                          *)
RetryIsNotShownAsResumed ==
  faults = 0 =>
    \A r \in Run : Ended(r) /\ attempt[r] = 2 => context[r] # "resumed"

(* A stop that was accepted while the worker lived is not followed by a     *)
(* completed run, whatever the worker wrote before or since.  Nothing is    *)
(* said of a run whose worker the interceptor replaced, before the stop or  *)
(* since: a stop of the first worker does not reach the second.             *)
AcceptedStopHolds ==
  \A r \in stopped : Ended(r) /\ attempt[r] = 1 => status[r] # "completed"

(* What the record of an ended run says of its end is what happened. *)
EndsAreToldTruly == AcceptedStopHolds /\ RetryIsNotShownAsResumed

(* What the code does not see: a worker that exited before its listeners    *)
(* were attached, and a retry whose timer went with a stop of the worker it *)
(* replaces.                                                                *)
Unwatched(r) ==
  \/ stage[r] = "attached" /\ alive[r] = {}
  \/ attempt[r] = 2 /\ r \notin timer /\ override[r][2] = "none"

(* While no call of the store fails, a run does not stay running: its       *)
(* worker ends, or the timer and the forced kill end it, unless the daemon  *)
(* exits first or nobody watches the worker any more.                       *)
EveryRunEnds ==
  \A r \in Run : status[r] = "running" ~> Ended(r) \/ daemon = "exited" \/ Unwatched(r) \/ faults > 0

(* stop --force comes to an end, under the same conditions. *)
StopEnds ==
  daemon = "stopping" ~> daemon = "exited" \/ faults > 0 \/ \E r \in Run : Unwatched(r)

(* Runs end, and so does a daemon that was told to stop. *)
SupervisionEnds == EveryRunEnds /\ StopEnds

(* stop --force comes to an end, as the README says (src/README.md 545). *)
ForcedStopExits == daemon = "stopping" ~> daemon = "exited"
=============================================================================
