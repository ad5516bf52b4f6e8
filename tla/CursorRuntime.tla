--------------------------- MODULE CursorRuntime ---------------------------
(***************************************************************************)
(* Runs of the Cursor SDK: there is no worker process but an agent object, *)
(* a stream of messages, a promise of the result, and a cancel() that the  *)
(* SDK may ignore.  One coroutine reads the stream, another waits for the  *)
(* result and finalizes, and the daemon's timer and cancel_run race both.  *)
(* CursorResult has the functions the record is computed with.             *)
(*                                                                         *)
(* Simplifications: resume differs from create only by the SDK call, so    *)
(* one action stands for both; the two writes that open a run are one      *)
(* step, and so are the writes of one message; a failed start is recorded  *)
(* in the step that fails; the SDK (code outside src/) may end its stream, *)
(* its result and a cancel in any order or never.  The agent works on the  *)
(* files while its stream is read: only the trees of the snapshot and of   *)
(* the end are ever looked at.                                             *)
(***************************************************************************)
EXTENDS CursorResult, FiniteSets

CONSTANTS
  Run,
  Heard,         \* bound: the messages a stream may deliver
  Raised,        \* bound: the errors the SDK may raise
  MaxMessage,    \* bound: messages a stream delivers
  MaxEdit,       \* bound: changes of the files and commits
  MaxTrouble     \* bound: writes and reads of the run store, and calls of git, that fail

ASSUME CursorAssumption ==
  /\ IsFiniteSet(Run) /\ Heard \subseteq Message /\ Raised \subseteq SdkError
  /\ MaxMessage \in Nat /\ MaxEdit \in Nat /\ MaxTrouble \in Nat

VARIABLES
  sdk,        \* the adapter's cached answer to available()
  pc,         \* where drainAndFinalize (or, before it, spawn) of each run is
  agent,
  stream,     \* the SDK's stream: open, ended, or failed
  drain,      \* the coroutine that reads it
  messages,   \* messages processed
  named,      \* filesFromEvents
  outcome,    \* what the SDK's wait() answers, "pending" before it does
  result,     \* runResult
  cancelBy,   \* cancelStatus: why the run was first cancelled
  patience,   \* the cancelDrainMs timer of the present phase has run out
  errs,       \* observedErrors
  managed,    \* in activeRuns
  timer,      \* the run has a timer
  fresh,      \* activity since the timer was last armed
  verdict,    \* what finalizeCursorRun settled on
  status,     \* meta.json
  late,       \* history: messages logged after the run was terminal
  head, work, \* the last commit and the directory
  snapshot,   \* git_snapshot of each run's record
  edits, troubles

ends == <<agent, outcome, result, verdict>>
reading == <<stream, drain, messages, named, errs, late>>
control == <<cancelBy, patience, timer, fresh>>
files == <<head, work, snapshot, edits>>
cursorVars == <<sdk, pc, ends, reading, control, managed, status, files, troubles>>

CancelStatus == {"cancelled", "timed_out"}
SdkResult == {"finished", "error", "cancelled", "running"}
Final == {"completed", "failed"} \cup CancelStatus
NotTaken == [head |-> << >>, dirty |-> {}, fingerprints |-> << >>]
Undecided == [status |-> "running", worker |-> "none", errors |-> << >>, latest |-> "none",
              files |-> {}, git |-> FALSE]
Racing == {"race", "grace", "wait", "waitGrace"}

CursorTypeOK ==
  /\ sdk \in {"unknown", "ok", "missing"}
  /\ pc \in [Run -> {"new", "idle", "probe", "key", "create", "send", "begin", "dispose",
                     "load", "write", "done", "broken"} \cup Racing]
  /\ agent \in [Run -> {"none", "open", "closed"}]
  /\ stream \in [Run -> {"open", "ended", "failed"}]
  /\ drain \in [Run -> {"off", "reading", "over", "broken"}]
  /\ messages \in [Run -> 0..MaxMessage] /\ late \in [Run -> 0..MaxMessage]
  /\ named \in [Run -> SUBSET File]
  /\ outcome \in [Run -> SdkResult \cup {"pending", "rejected"}]
  /\ result \in [Run -> SdkResult \cup {"null"}]
  /\ cancelBy \in [Run -> CancelStatus \cup {"none"}]
  /\ patience \in [Run -> BOOLEAN]
  /\ errs \in [Run -> Seq(RunError)]
  /\ managed \in [Run -> BOOLEAN] /\ timer \in [Run -> BOOLEAN] /\ fresh \in [Run -> BOOLEAN]
  /\ \A r \in Run : /\ verdict[r].status \in Final \cup {"running"}
                     /\ verdict[r].errors \in Seq(RunError) /\ verdict[r].files \subseteq File
  /\ status \in [Run -> Final \cup {"running"}]
  /\ head \in Tree /\ work \in Tree
  /\ edits \in 0..MaxEdit /\ troubles \in 0..MaxTrouble

\* A daemon that has run cursor workers before may have an answer in the cache.
Init ==
  /\ sdk \in {"unknown", "ok", "missing"}
  /\ pc = [r \in Run |-> "new"] /\ agent = [r \in Run |-> "none"]
  /\ stream = [r \in Run |-> "open"] /\ drain = [r \in Run |-> "off"]
  /\ messages = [r \in Run |-> 0] /\ late = [r \in Run |-> 0] /\ named = [r \in Run |-> {}]
  /\ outcome = [r \in Run |-> "pending"] /\ result = [r \in Run |-> "null"]
  /\ cancelBy = [r \in Run |-> "none"] /\ patience = [r \in Run |-> FALSE]
  /\ errs = [r \in Run |-> << >>] /\ managed = [r \in Run |-> FALSE]
  /\ timer = [r \in Run |-> FALSE] /\ fresh = [r \in Run |-> FALSE]
  /\ verdict = [r \in Run |-> Undecided] /\ status = [r \in Run |-> "running"]
  /\ head = [f \in File |-> "a"] /\ work \in Tree /\ snapshot = [r \in Run |-> NotTaken]
  /\ edits = 0 /\ troubles = 0

Goes(r, from, to) == pc[r] = from /\ pc' = [pc EXCEPT ![r] = to]
Fails == troubles < MaxTrouble /\ troubles' = troubles + 1
Errs(r, e) == errs' = [errs EXCEPT ![r] = Append(@, e)]
Cancelled(r) == cancelBy[r] # "none"

-----------------------------------------------------------------------------
(* Before there is a run of the SDK. *)

\* captureAndPersistGitSnapshot, for which git or the store may fail.
TakeSnapshot(r) ==
  /\ Goes(r, "new", "idle")
  /\ \/ snapshot' = [snapshot EXCEPT ![r] = CaptureGitSnapshot(head, work)] /\ UNCHANGED troubles
     \/ Fails /\ UNCHANGED snapshot
  /\ UNCHANGED <<sdk, ends, reading, control, managed, status, head, work, edits>>

\* The error of a start carries its category to latest_error.
FailPreSpawn(r, from, e, category) ==
  /\ Goes(r, from, "done")
  /\ status' = [status EXCEPT ![r] = "failed"]
  /\ verdict' = [verdict EXCEPT ![r] =
       [Undecided EXCEPT !.status = "failed", !.worker = "failed",
                         !.errors = <<From("pre_spawn", e)>>, !.latest = category]]

Spawning == <<outcome, result, reading, cancelBy, patience, files, troubles>>
NoModule == [class |-> "Error", status |-> 0, words |-> "plain"]
NoKey == [class |-> "Error", status |-> 0, words |-> "auth"]

\* available(): an answer once given, a failed import included, is kept.
Probe(r) ==
  /\ \/ /\ sdk # "missing" /\ Goes(r, "idle", IF sdk = "ok" THEN "key" ELSE "probe")
        /\ UNCHANGED <<status, verdict>>
     \/ sdk = "missing" /\ FailPreSpawn(r, "idle", NoModule, "worker_binary_missing")
  /\ UNCHANGED <<sdk, agent, managed, timer, fresh, Spawning>>

Imported(r) ==
  /\ \/ Goes(r, "probe", "key") /\ sdk' = "ok" /\ UNCHANGED <<status, verdict>>
     \/ FailPreSpawn(r, "probe", NoModule, "worker_binary_missing") /\ sdk' = "missing"
  /\ UNCHANGED <<agent, managed, timer, fresh, Spawning>>

CheckKey(r) ==
  /\ \/ Goes(r, "key", "create") /\ UNCHANGED <<status, verdict>>
     \/ FailPreSpawn(r, "key", NoKey, "auth")
  /\ UNCHANGED <<sdk, agent, managed, timer, fresh, Spawning>>

\* Agent.create, or Agent.resume with the session of the parent run.
CreateAgent(r) ==
  /\ \/ Goes(r, "create", "send") /\ agent' = [agent EXCEPT ![r] = "open"] /\ UNCHANGED <<status, verdict>>
     \/ \E e \in Raised : FailPreSpawn(r, "create", e, Category(e)) /\ UNCHANGED agent
  /\ UNCHANGED <<sdk, managed, timer, fresh, Spawning>>

SendFailed(r) ==
  \E e \in Raised : FailPreSpawn(r, "send", e, Category(e)) /\ agent' = [agent EXCEPT ![r] = "closed"]

\* startManagedRun makes the handle an active run and arms its timer.
Send(r) ==
  /\ \/ /\ Goes(r, "send", "begin")
        /\ managed' = [managed EXCEPT ![r] = TRUE] /\ timer' = [timer EXCEPT ![r] = TRUE]
        /\ fresh' = [fresh EXCEPT ![r] = TRUE]
        /\ UNCHANGED <<agent, status, verdict>>
     \/ SendFailed(r) /\ UNCHANGED <<managed, timer, fresh>>
  /\ UNCHANGED <<sdk, Spawning>>

-----------------------------------------------------------------------------
(* The coroutine that reads the stream.  It is never cancelled: when       *)
(* drainAndFinalize has gone on without it, it still logs what arrives.    *)

Begin(r) ==
  /\ Goes(r, "begin", "race")
  /\ drain' = [drain EXCEPT ![r] = "reading"]
  /\ UNCHANGED <<sdk, ends, stream, messages, named, errs, late, control, managed, status, files, troubles>>

\* A write that fails here is outside the try: the completion rejects, and
\* nothing disposes the agent or takes the run out of activeRuns.
BeginFails(r) ==
  /\ Goes(r, "begin", "broken") /\ Fails
  /\ UNCHANGED <<sdk, ends, reading, control, managed, status, files>>

ProcessMessage(r) ==
  /\ drain[r] = "reading" /\ stream[r] = "open" /\ messages[r] < MaxMessage
  /\ messages' = [messages EXCEPT ![r] = @ + 1]
  /\ \E m \in Heard : /\ named' = [named EXCEPT ![r] = @ \cup FilesOf(m)]
                      /\ errs' = [errs EXCEPT ![r] = @ \o ErrorsOf(m)]
  /\ late' = [late EXCEPT ![r] = IF status[r] = "running" THEN @ ELSE @ + 1]
  /\ fresh' = [fresh EXCEPT ![r] = TRUE]
  /\ UNCHANGED <<sdk, pc, ends, stream, drain, cancelBy, patience, timer, managed, status, files, troubles>>

\* A write that fails ends the reading as an error of the stream.
ProcessingFails(r) ==
  /\ drain[r] = "reading" /\ stream[r] = "open" /\ messages[r] < MaxMessage
  /\ Fails
  /\ drain' = [drain EXCEPT ![r] = "over"]
  /\ Errs(r, Said("stream", "plain"))
  /\ fresh' = [fresh EXCEPT ![r] = TRUE]
  /\ UNCHANGED <<sdk, pc, ends, stream, messages, named, late, cancelBy, patience, timer, managed, status, files>>

\* Logging an error of the stream may fail as well, and then the drain rejects.
DrainEnds(r) ==
  /\ drain[r] = "reading"
  /\ \/ stream[r] = "ended" /\ drain' = [drain EXCEPT ![r] = "over"] /\ UNCHANGED <<errs, troubles>>
     \/ /\ stream[r] = "failed"
        /\ \E e \in Raised : Errs(r, From("stream", e))
        /\ \/ drain' = [drain EXCEPT ![r] = "over"] /\ UNCHANGED troubles
           \/ drain' = [drain EXCEPT ![r] = "broken"] /\ Fails
  /\ UNCHANGED <<sdk, pc, ends, stream, messages, named, late, control, managed, status, files>>

-----------------------------------------------------------------------------
(* drainAndFinalize *)

StreamNotAwaited(r) == TRUE
StreamDone(r) == drain[r] = "over"

\* What the try block throws becomes an error of the run, and nothing is waited for.
DrainThrows(r, from) ==
  /\ drain[r] = "broken"
  /\ Goes(r, from, "dispose")
  /\ Errs(r, Said("stream", "plain"))

\* Promise.race([drainPromise, cancelRequested])
DrainRace(r) ==
  /\ \/ Cancelled(r) /\ Goes(r, "race", "grace") /\ patience' = [patience EXCEPT ![r] = FALSE] /\ UNCHANGED errs
     \/ ~Cancelled(r) /\ StreamDone(r) /\ Goes(r, "race", "wait") /\ UNCHANGED <<patience, errs>>
     \/ DrainThrows(r, "race") /\ UNCHANGED patience
  /\ UNCHANGED <<sdk, ends, stream, drain, messages, named, late, cancelBy, timer, fresh, managed, status,
                 files, troubles>>

\* A setTimeout of cancelDrainMs, which the drain and then the wait race.
WaitsForAnAnswer(r) == pc[r] = "grace"
LosesPatience(r) == pc[r] \in {"grace", "waitGrace"}

PatienceRunsOut(r) ==
  /\ LosesPatience(r) /\ ~patience[r]
  /\ patience' = [patience EXCEPT ![r] = TRUE]
  /\ UNCHANGED <<sdk, pc, ends, reading, cancelBy, timer, fresh, managed, status, files, troubles>>

DrainGrace(r) ==
  /\ \/ (StreamDone(r) \/ patience[r]) /\ Goes(r, "grace", "wait") /\ UNCHANGED errs
     \/ DrainThrows(r, "grace")
  /\ UNCHANGED <<sdk, ends, stream, drain, messages, named, late, control, managed, status, files, troubles>>

\* wait() races the cancel; once it has rejected, the error is the result.
Answered(r) ==
  /\ outcome[r] # "pending"
  /\ \/ outcome[r] = "rejected" /\ (\E e \in Raised : Errs(r, From("wait", e))) /\ UNCHANGED result
     \/ outcome[r] # "rejected" /\ result' = [result EXCEPT ![r] = outcome[r]] /\ UNCHANGED errs

WaitRace(r) ==
  /\ \/ Answered(r) /\ Goes(r, "wait", "dispose") /\ UNCHANGED patience
     \/ /\ Cancelled(r) /\ outcome[r] = "pending" /\ Goes(r, "wait", "waitGrace")
        /\ patience' = [patience EXCEPT ![r] = FALSE] /\ UNCHANGED <<result, errs>>
  /\ UNCHANGED <<sdk, agent, outcome, verdict, stream, drain, messages, named, late, cancelBy, timer, fresh,
                 managed, status, files, troubles>>

\* When the patience ends first, the status the SDK shows at that moment counts.
WaitGrace(r) ==
  /\ \/ Answered(r)
     \/ /\ patience[r] /\ outcome[r] = "pending"
        /\ \E s \in SdkResult : result' = [result EXCEPT ![r] = s]
        /\ UNCHANGED errs
  /\ Goes(r, "waitGrace", "dispose")
  /\ UNCHANGED <<sdk, agent, outcome, verdict, stream, drain, messages, named, late, control, managed, status,
                 files, troubles>>

Dispose(r) ==
  /\ Goes(r, "dispose", "load")
  /\ agent' = [agent EXCEPT ![r] = "closed"]
  /\ UNCHANGED <<sdk, outcome, result, verdict, reading, control, managed, status, files, troubles>>

-----------------------------------------------------------------------------
(* finalizeCursorRun: the run's record and the changed files are read, and *)
(* what is known at that moment settles the outcome.                       *)

StatusOfResult(r) ==
  CASE result[r] = "finished" -> "completed"
    [] result[r] = "cancelled" -> "cancelled"
    [] OTHER -> "failed"

FinalStatus(r) == IF Cancelled(r) THEN cancelBy[r] ELSE StatusOfResult(r)
Override(r) == IF FinalStatus(r) \in CancelStatus THEN FinalStatus(r) ELSE "none"

stopReasonFor == [finished |-> "complete", cancelled |-> "cancelled", error |-> "error", running |-> "running",
                  null |-> "none"]

ExitCode(r) == IF FinalStatus(r) = "completed" THEN 0 ELSE 1
FinalOutcome(r) == Derived(Override(r), ExitCode(r), result[r] # "null", stopReasonFor[result[r]])

\* buildFinalizeContext and finalizeFromObserved: a failure that nobody gave an
\* error for gets one.
FinalErrors(r) ==
  IF Cancelled(r) THEN <<Said("override", "plain")>>
  ELSE IF FinalStatus(r) # "failed" THEN errs[r]
  ELSE IF result[r] = "null" THEN Append(errs[r], Said("no_result", "plain"))
  ELSE IF errs[r] = << >> THEN <<Said("missing", "plain")>> ELSE errs[r]

LatestError(r) ==
  IF Cancelled(r) THEN "override"
  ELSE IF FinalStatus(r) = "failed" /\ FinalErrors(r) # << >> THEN Classified(Head(FinalErrors(r))) ELSE "none"

FilesFromGit(r, diff, st) ==
  IF snapshot[r] = NotTaken THEN {} ELSE ChangedFilesSinceSnapshot(snapshot[r], head, work, diff, st)

Settle(r) ==
  /\ Goes(r, "load", "write")
  /\ \E diff, st \in BOOLEAN :
       /\ IF diff /\ st THEN UNCHANGED troubles ELSE Fails
       /\ verdict' = [verdict EXCEPT ![r] =
            [status |-> FinalOutcome(r).run, worker |-> FinalOutcome(r).worker,
             errors |-> FinalErrors(r), latest |-> LatestError(r),
             files |-> named[r] \cup FilesFromGit(r, diff, st), git |-> diff /\ st]]
  /\ UNCHANGED <<sdk, agent, outcome, result, reading, control, managed, status, files>>

\* markTerminal, and the completion's handlers: the timer is cleared and the
\* run is no longer active.
Finish(r) ==
  /\ Goes(r, "write", "done")
  /\ status' = [status EXCEPT ![r] = verdict[r].status]
  /\ managed' = [managed EXCEPT ![r] = FALSE] /\ timer' = [timer EXCEPT ![r] = FALSE]
  /\ UNCHANGED <<sdk, ends, reading, cancelBy, patience, fresh, files, troubles>>

FinalizeFails(r) ==
  /\ Goes(r, "load", "broken") \/ Goes(r, "write", "broken")
  /\ Fails
  /\ UNCHANGED <<sdk, ends, reading, control, managed, status, files>>

-----------------------------------------------------------------------------
(* The handle's cancel, and those who call it. *)

\* Only the first cancel counts.
Cancel(r, s) == cancelBy' = [cancelBy EXCEPT ![r] = IF Cancelled(r) THEN @ ELSE s]

CancelRun(r) ==
  /\ managed[r] /\ status[r] = "running"
  /\ timer' = [timer EXCEPT ![r] = FALSE]
  /\ Cancel(r, "cancelled")
  /\ UNCHANGED <<sdk, pc, ends, reading, patience, fresh, managed, status, files, troubles>>

\* The timer wakes at the idle deadline of the activity it knew of.
TimerWakes(r) ==
  /\ timer[r]
  /\ \/ fresh[r] /\ fresh' = [fresh EXCEPT ![r] = FALSE] /\ UNCHANGED <<timer, cancelBy>>
     \/ ~fresh[r] /\ timer' = [timer EXCEPT ![r] = FALSE] /\ Cancel(r, "timed_out") /\ UNCHANGED fresh
  /\ UNCHANGED <<sdk, pc, ends, reading, patience, managed, status, files, troubles>>

ExecutionTimeout(r) ==
  /\ timer[r]
  /\ timer' = [timer EXCEPT ![r] = FALSE] /\ Cancel(r, "timed_out")
  /\ UNCHANGED <<sdk, pc, ends, reading, patience, fresh, managed, status, files, troubles>>

-----------------------------------------------------------------------------
(* The SDK and its agent *)

Sent(r) == managed[r] \/ (pc[r] = "done" /\ drain[r] # "off")

SdkStreamEnds(r) ==
  /\ Sent(r) /\ stream[r] = "open"
  /\ \E s \in {"ended", "failed"} : stream' = [stream EXCEPT ![r] = s]
  /\ UNCHANGED <<sdk, pc, ends, drain, messages, named, errs, late, control, managed, status, files, troubles>>

\* Nobody asks once the run is over.
SdkAnswers(r) ==
  /\ managed[r] /\ outcome[r] = "pending"
  /\ \E o \in {"finished", "error", "cancelled", "rejected"} : outcome' = [outcome EXCEPT ![r] = o]
  /\ UNCHANGED <<sdk, pc, agent, result, verdict, reading, control, managed, status, files, troubles>>

\* The agent leaves a file with some content, and may commit it.
AgentWorks(r) ==
  /\ pc[r] = "race" /\ edits < MaxEdit
  /\ edits' = edits + 1
  /\ \E f \in File, c \in Content :
       /\ work' = [work EXCEPT ![f] = c]
       /\ head' = head \/ head' = [head EXCEPT ![f] = c]
  /\ UNCHANGED <<sdk, pc, ends, reading, control, managed, status, snapshot, troubles>>

-----------------------------------------------------------------------------
Program(r) ==
  \/ TakeSnapshot(r) \/ Probe(r) \/ Imported(r) \/ CheckKey(r) \/ CreateAgent(r) \/ Send(r)
  \/ Begin(r) \/ DrainEnds(r) \/ DrainRace(r) \/ PatienceRunsOut(r) \/ DrainGrace(r)
  \/ WaitRace(r) \/ WaitGrace(r) \/ Dispose(r) \/ Settle(r) \/ Finish(r)
Failure(r) == BeginFails(r) \/ ProcessingFails(r) \/ FinalizeFails(r)
Sdk(r) == ProcessMessage(r) \/ SdkStreamEnds(r) \/ SdkAnswers(r) \/ AgentWorks(r)

Next == \E r \in Run :
  Program(r) \/ Failure(r) \/ Sdk(r) \/ TimerWakes(r) \/ CancelRun(r) \/ ExecutionTimeout(r)

CursorSpec == Init /\ [][Next]_cursorVars

\* The daemon's code and its timers make progress; the SDK need not answer, and
\* nobody need cancel.  Every step of the code moves one of three variables.
CursorFairness ==
  \A r \in Run : WF_<<pc, drain, patience>>(Program(r)) /\ WF_<<timer, fresh>>(TimerWakes(r))
CursorFairSpec == CursorSpec /\ CursorFairness

-----------------------------------------------------------------------------
(* Properties *)

\* Whatever the SDK says or does not say, a run that failed or timed out has an
\* error to show (buildFinalizeContext, runtime.ts 425-446, and
\* finalizeFromObserved, common.ts 68-99).
FailedRunsSayWhy ==
  \A r \in Run : status[r] \in {"failed", "timed_out"} => verdict[r].errors # << >>

\* The first cancel that reaches a run whose outcome is not settled decides how it
\* ends, whoever cancels after it and whatever the SDK still answers
\* (runtime.ts 263-269 and 366-368).
FirstCancelDecides ==
  [][\A r \in Run : Cancelled(r) /\ verdict[r] = Undecided =>
       /\ cancelBy'[r] = cancelBy[r]
       /\ verdict'[r].status \in {"running", cancelBy[r]}]_cursorVars

\* No run is terminal while its agent is still open, however its start, its
\* stream or its result failed (disposeAgentSafely, runtime.ts 198 and 328).
TerminalRunsReleaseAgents ==
  \A r \in Run : status[r] # "running" => agent[r] # "open"

\* Only a run that was cancelled may have messages logged after its terminal
\* event: otherwise the whole stream is read first (runtime.ts 293-313).
WholeStreamIsLogged == \A r \in Run : late[r] > 0 => Cancelled(r)

\* A run that has started ends even when the SDK never ends its stream, never
\* answers wait() and ignores cancel: the idle timer and the two drain timers
\* see to it, unless the run store failed it (armRunTimer, drainAndFinalize).
StartedRunsEnd ==
  \A r \in Run : managed[r] ~> (status[r] # "running" \/ pc[r] = "broken")

\* The status derived a second time, from exit code and result event, is the one
\* the SDK's answer is mapped to, or the one of the cancel, and the result says
\* completed of the worker exactly when the run completed (runtime.ts 362-386;
\* finalizeFromObserved, common.ts).
ResultAgreesWithRun ==
  \A r \in Run : verdict[r] # Undecided =>
    /\ (verdict[r].worker = "completed") <=> (verdict[r].status = "completed")
    /\ \/ verdict[r].status = StatusOfResult(r)
       \/ Cancelled(r) /\ verdict[r].status = cancelBy[r]

\* A rate limit that the SDK reports by its HTTP status is still retryable as the
\* run's latest_error, though it was classified a second time, without its class,
\* unless its text speaks of authentication, which the second time is looked at
\* first (normalizeCursorSdkError, cursorErrorDetails, classifyErrorCategory).
RateLimitsStayRetryable ==
  \A r \in Run : verdict[r].errors # << >> /\ verdict[r].status = "failed" =>
    LET e == Head(verdict[r].errors) IN
    e.status = 429 /\ e.words # "auth" /\ Retryable(Category(e)) => Retryable(verdict[r].latest)

\* The result names every file whose content at the end is not what it was at the
\* start, whether it was clean or dirty then, and edited, reverted, removed or
\* committed since, and every file the agent said it edited, unless git failed
\* (changedFilesSinceSnapshot, gitSnapshot.ts 75-119).
ChangedFilesAreNamed ==
  [][\A r \in Run : verdict[r] = Undecided /\ verdict'[r].git =>
       /\ named[r] \subseteq verdict'[r].files
       /\ snapshot[r] # NotTaken =>
            {f \in File : AtStart(snapshot[r], f) # work[f]} \subseteq verdict'[r].files]_cursorVars

\* What is recorded of a run that ended is complete and agrees with itself, and
\* nothing of it is left running.
EndsAreWhole ==
  /\ CursorTypeOK
  /\ FailedRunsSayWhy /\ RateLimitsStayRetryable /\ ResultAgreesWithRun
  /\ WholeStreamIsLogged /\ TerminalRunsReleaseAgents

\* A run ends, and as the first who cancelled it wanted.
RunsEndAsAsked == StartedRunsEnd /\ FirstCancelDecides
=============================================================================
