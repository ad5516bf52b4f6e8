---------------------------- MODULE StatusEngine ----------------------------
(***************************************************************************)
(* The aggregate status of one orchestrator: the registry of supervisors,  *)
(* the engine that recomputes the status and shows it to the user's hooks, *)
(* the launcher that registers a supervisor and the signal command that    *)
(* reports its lifecycle events, also to a daemon that was restarted.      *)
(*                                                                         *)
(* Simplifications: one orchestrator id; a timer armed for an event that a *)
(* newer one followed may fire at any time; the program that a hook runs   *)
(* is left out, a payload is shown when the engine emits it.               *)
(***************************************************************************)
EXTENDS Naturals, FiniteSets

CONSTANTS
  Run,           \* runs stamped with the orchestrator's id
  Cli,           \* signal commands, one process per lifecycle event
  Event,         \* bound: the lifecycle events the supervisor reports
  Job,           \* bound: recomputes in progress at once
  MaxEntry,      \* bound: registrations, each of them a new state object
  MaxSlot,       \* bound: slots the engine makes
  MaxTrouble     \* bound: daemon restarts, and calls that fail

ASSUME StatusAssumption ==
  /\ IsFiniteSet(Run)
  /\ Event \subseteq {"turn_started", "turn_stopped", "waiting_for_user",
                      "session_active", "session_ended"}
  /\ MaxEntry \in Nat \ {0} /\ MaxSlot \in Nat \ {0} /\ MaxTrouble \in Nat

VARIABLES
  entries,    \* OrchestratorState objects ever made
  entry,      \* the one the registry holds, 0 for none
  made,       \* how many were made
  slots,      \* emission slots ever made
  slot,       \* the one the engine holds, 0 for none
  slotsMade,
  job,        \* runRecompute calls in progress
  run,        \* on disk, "created" and "ending" before the lifecycle event
  fatal,      \* the run's fatal_error notification
  shown,      \* the last payload handed to the hooks
  sidecar,
  launcher,
  cli,
  troubles,
  missed,     \* history: an input changed and no recompute of the engine's
              \* slot has begun since
  stray,      \* history: a recompute of a slot that was forgotten has shown
              \* its payload
  unclean     \* history: the launcher was killed, or failed to undo what it
              \* did, or a signal registered the supervisor once more after it

registry == <<entries, entry, made>>
engine == <<slots, slot, slotsMade>>
store == <<run, fatal>>
history == <<missed, stray>>
statusVars == <<registry, engine, job, store, shown, sidecar, launcher, unclean, cli, troubles,
                history>>

State == {"attention", "in_progress", "waiting_for_user", "idle", "stale"}
Key == [state : State, running : 0..Cardinality(Run), failed : 0..Cardinality(Run)]
NoKey == [state |-> "none", running |-> 0, failed |-> 0]
Fresh == [waiting |-> FALSE, turn |-> FALSE, ended |-> FALSE, last |-> "never"]
NewSlot == [pending |-> FALSE, stale |-> "off", key |-> NoKey]
NoJob == [at |-> "idle", slot |-> 0, entry |-> 0, running |-> 0, runs |-> {}]

StatusTypeOK ==
  /\ entries \in [1..MaxEntry -> [waiting : BOOLEAN, turn : BOOLEAN, ended : BOOLEAN,
                                  last : {"never", "fresh", "old"}]]
  /\ entry \in 0..made /\ made \in 0..MaxEntry
  /\ slots \in [1..MaxSlot -> [pending : BOOLEAN, stale : {"off", "armed", "due"},
                               key : Key \cup {NoKey}]]
  /\ slot \in 0..slotsMade /\ slotsMade \in 0..MaxSlot
  /\ job \in [Job -> [at : {"runs", "notifications"}, slot : 1..MaxSlot,
                      entry : 1..MaxEntry, running : 0..Cardinality(Run),
                      runs : SUBSET Run] \cup {NoJob}]
  /\ run \in [Run -> {"none", "created", "running", "ending", "ended", "pruned"}]
  /\ fatal \in [Run -> {"none", "unacked", "acked"}]
  /\ shown \in Key \cup {NoKey}
  /\ sidecar \in BOOLEAN /\ missed \in BOOLEAN /\ stray \in BOOLEAN /\ unclean \in BOOLEAN
  /\ launcher \in {"start", "register", "supervise", "killed", "remove", "gone"}
  /\ cli \in [Cli -> [at : {"idle", "signal", "read_sidecar", "register", "retry",
                            "applied", "lost"}, event : Event \cup {"none"}]]
  /\ troubles \in Nat

StatusInit ==
  /\ entries = [v \in 1..MaxEntry |-> Fresh] /\ entry = 0 /\ made = 0
  /\ slots = [k \in 1..MaxSlot |-> NewSlot] /\ slot = 0 /\ slotsMade = 0
  /\ job = [j \in Job |-> NoJob]
  /\ run = [r \in Run |-> "none"] /\ fatal = [r \in Run |-> "none"]
  /\ shown = NoKey
  /\ sidecar = FALSE /\ launcher = "start"
  /\ cli = [c \in Cli |-> [at |-> "idle", event |-> "none"]]
  /\ troubles = 0 /\ missed = FALSE /\ stray = FALSE /\ unclean = FALSE
-----------------------------------------------------------------------------
(* collectOwnedRunSnapshot: two reads, of the runs and of the fatal errors *)
(* of those that the first has found.                                      *)
Listed == {r \in Run : run[r] \notin {"none", "pruned"}}
Running == Cardinality({r \in Listed : run[r] \in {"created", "running"}})
FailedOf(runs) == Cardinality({r \in runs : fatal[r] = "unacked"})
Failed == FailedOf(Listed)

(* computeOrchestratorStatusSnapshot: the live state, then the override. *)
LiveState(e, running, failed) ==
  CASE failed > 0 -> "attention"
    [] failed = 0 /\ running > 0 -> "in_progress"
    [] failed = 0 /\ running = 0 /\ e.waiting -> "waiting_for_user"
    [] failed = 0 /\ running = 0 /\ ~e.waiting /\ e.turn -> "in_progress"
    [] OTHER -> "idle"

StateShown(e, running, failed) ==
  IF e.ended \/ (running + failed = 0 /\ e.last = "old")
  THEN "stale" ELSE LiveState(e, running, failed)

StatusOf(e, running, failed) ==
  [state |-> StateShown(e, running, failed), running |-> running, failed |-> failed]

(* scheduleRecompute, as the lifecycle listener, ack and the dispatcher    *)
(* call it; a timer that is already pending stands for the new event too.  *)
Schedule(slotsThen) ==
  IF slot = 0
  THEN /\ slotsMade < MaxSlot
       /\ slotsMade' = slotsMade + 1 /\ slot' = slotsMade + 1
       /\ slots' = [slotsThen EXCEPT ![slotsMade + 1] = [NewSlot EXCEPT !.pending = TRUE]]
  ELSE slots' = [slotsThen EXCEPT ![slot].pending = TRUE] /\ UNCHANGED <<slot, slotsMade>>
ScheduleRecompute == Schedule(slots)

(* forget *)
Forget ==
  /\ slot' = 0
  /\ slots' = [k \in 1..MaxSlot |->
       CASE k # slot -> slots[k]
         [] k = slot /\ (\E j \in Job : job[j].slot = k) -> [NewSlot EXCEPT !.key = slots[k].key]
         [] OTHER -> NewSlot]
  /\ UNCHANGED slotsMade

(* runRecompute up to its await: nothing to do for an unregistered id. *)
Begins(k) ==
  IF entry = 0 THEN UNCHANGED <<job, history>>
  ELSE /\ \E j \in Job : job[j] = NoJob
       /\ job' = [job EXCEPT ![CHOOSE j \in Job : job[j] = NoJob] =
            [at |-> "runs", slot |-> k, entry |-> entry, running |-> 0, runs |-> {}]]
       /\ missed' = ((\E i \in Job : job[i] # NoJob) \/ (k # slot /\ missed))

DebounceFires(k) ==
  /\ slots[k].pending
  /\ slots' = [slots EXCEPT ![k].pending = FALSE]
  /\ Begins(k)
  /\ UNCHANGED <<registry, slot, slotsMade, store, shown, sidecar, launcher, unclean, cli,
                 troubles, stray>>

StaleFires(k) ==
  /\ slots[k].stale = "due"
  /\ slots' = [slots EXCEPT ![k].stale = "off"]
  /\ Begins(k)
  /\ UNCHANGED <<registry, slot, slotsMade, store, shown, sidecar, launcher, unclean, cli,
                 troubles, stray>>

(* resetStaleTimer: armed for the last event, unless the status is stale   *)
(* already or owned runs keep it from being so.                            *)
ArmedAlways(e, running, failed) ==
  IF e.last = "never" THEN "off" ELSE IF e.last = "old" THEN "due" ELSE "armed"
ArmedNever(e, running, failed) == "off"
Armed(e, running, failed) ==
  IF e.last = "never" \/ running + failed > 0 \/ StateShown(e, running, failed) = "stale"
  THEN "off"
  ELSE IF e.last = "old" THEN "due" ELSE "armed"

Finishes(j, running, failed) ==
  LET k == job[j].slot
      e == entries[job[j].entry]
      key == StatusOf(e, running, failed)
  IN  /\ slots' = [slots EXCEPT ![k].stale = Armed(e, running, failed), ![k].key = key]
      /\ shown' = IF key = slots[k].key THEN shown ELSE key
      /\ job' = [job EXCEPT ![j] = NoJob]
      /\ stray' = (stray \/ (k # slot /\ key # slots[k].key))

JobReadsRuns(j) ==
  /\ job[j].at = "runs"
  /\ IF Listed = {} THEN Finishes(j, 0, 0)
     ELSE /\ job' = [job EXCEPT ![j].at = "notifications", ![j].running = Running,
                                ![j].runs = Listed]
          /\ UNCHANGED <<slots, shown, stray>>
  /\ UNCHANGED <<registry, slot, slotsMade, store, sidecar, launcher, unclean, cli, troubles,
                 missed>>

JobReadsNotifications(j) ==
  /\ job[j].at = "notifications"
  /\ Finishes(j, job[j].running, FailedOf(job[j].runs))
  /\ UNCHANGED <<registry, slot, slotsMade, store, sidecar, launcher, unclean, cli, troubles,
                 missed>>

Trouble == troubles < MaxTrouble /\ troubles' = troubles + 1

JobFails(j) ==
  /\ job[j] # NoJob
  /\ Trouble
  /\ job' = [job EXCEPT ![j] = NoJob]
  /\ missed' = TRUE
  /\ UNCHANGED <<registry, engine, store, shown, sidecar, launcher, unclean, cli, stray>>

(* STALE_AFTER_SECONDS have passed since the last supervisor event. *)
TimePasses ==
  /\ \E v \in 1..MaxEntry : entries[v].last = "fresh"
  /\ entries' = [v \in 1..MaxEntry |->
       [entries[v] EXCEPT !.last = IF @ = "fresh" THEN "old" ELSE @]]
  /\ slots' = [k \in 1..MaxSlot |->
       [slots[k] EXCEPT !.stale = IF @ = "armed" THEN "due" ELSE @]]
  /\ UNCHANGED <<entry, made, slot, slotsMade, job, store, shown, sidecar, launcher, unclean, cli,
                 troubles, history>>
-----------------------------------------------------------------------------
(* The runs: the status is on disk before the lifecycle event.  A fatal    *)
(* error of a running worker and a prune raise none.                       *)
RunAppears(r) ==
  /\ run[r] = "none"
  /\ run' = [run EXCEPT ![r] = "created"]
  /\ UNCHANGED <<registry, engine, job, fatal, shown, sidecar, launcher, unclean, cli,
                 troubles, history>>

RunStarted(r) ==
  /\ run[r] = "created"
  /\ run' = [run EXCEPT ![r] = "running"]
  /\ ScheduleRecompute
  /\ UNCHANGED <<registry, job, fatal, shown, sidecar, launcher, unclean, cli, troubles, history>>

FatalNotified(r) ==
  /\ run[r] = "running" /\ fatal[r] = "none"
  /\ fatal' = [fatal EXCEPT ![r] = "unacked"]
  /\ missed' = TRUE
  /\ UNCHANGED <<registry, engine, job, run, shown, sidecar, launcher, unclean, cli, troubles,
                 stray>>

RunEnds(r) ==
  /\ run[r] \in {"created", "running"}
  /\ run' = [run EXCEPT ![r] = "ending"]
  /\ fatal' \in {fatal} \cup
       IF fatal[r] = "none" THEN {[fatal EXCEPT ![r] = "unacked"]} ELSE {}
  /\ UNCHANGED <<registry, engine, job, shown, sidecar, launcher, unclean, cli, troubles, history>>

TerminalAnnounced(r) ==
  /\ run[r] = "ending"
  /\ run' = [run EXCEPT ![r] = "ended"]
  /\ ScheduleRecompute
  /\ UNCHANGED <<registry, job, fatal, shown, sidecar, launcher, unclean, cli, troubles, history>>

(* ackRunNotification wakes the engine for every registered orchestrator. *)
WakeRegistered == IF entry = 0 THEN UNCHANGED engine ELSE ScheduleRecompute
AckRunNotification(r) ==
  /\ fatal[r] = "unacked" /\ run[r] # "pruned"
  /\ fatal' = [fatal EXCEPT ![r] = "acked"]
  /\ WakeRegistered
  /\ UNCHANGED <<registry, job, run, shown, sidecar, launcher, unclean, cli, troubles, history>>

PruneRuns(r) ==
  /\ run[r] = "ended"
  /\ run' = [run EXCEPT ![r] = "pruned"]
  /\ fatal' = [fatal EXCEPT ![r] = "none"]
  /\ missed' = (missed \/ fatal[r] = "unacked")
  /\ UNCHANGED <<registry, engine, job, shown, sidecar, launcher, unclean, cli, troubles, stray>>
-----------------------------------------------------------------------------
(* A state object that neither the registry nor a recompute holds is gone. *)
Tidied(v) == [w \in 1..MaxEntry |->
  IF w = v \/ \E j \in Job : job[j].entry = w THEN entries[w] ELSE Fresh]

(* OrchestratorRegistry.register, and the recompute the dispatcher asks    *)
(* for: a second registration keeps the flags of the turn.                 *)
Register ==
  /\ made < MaxEntry
  /\ made' = made + 1 /\ entry' = made + 1
  /\ entries' = [Tidied(made + 1) EXCEPT ![made + 1] =
       IF entry = 0 THEN Fresh
       ELSE [Fresh EXCEPT !.waiting = entries[entry].waiting, !.turn = entries[entry].turn]]
  /\ ScheduleRecompute

(* applyEvent; a stale timer armed before is now for an event of the past. *)
Applied(e, event) ==
  [e EXCEPT !.last = "fresh",
            !.turn = CASE event = "turn_started" -> TRUE
                       [] event \in {"turn_stopped", "session_ended"} -> FALSE
                       [] OTHER -> @,
            !.waiting = CASE event = "waiting_for_user" -> TRUE
                          [] event \in {"turn_started", "turn_stopped"} -> FALSE
                          [] OTHER -> @,
            !.ended = CASE event = "session_ended" -> TRUE
                        [] event = "session_active" -> FALSE
                        [] OTHER -> @]

Overtaken == [k \in 1..MaxSlot |->
  [slots[k] EXCEPT !.stale = IF @ = "armed" THEN "due" ELSE @]]

(* The dispatcher asks for a recompute whether or not the id is known. *)
SignalSupervisorEvent(event) ==
  /\ entries' = IF entry = 0 THEN entries
                ELSE [entries EXCEPT ![entry] = Applied(@, event)]
  /\ Schedule(IF entry = 0 THEN slots ELSE Overtaken)
  /\ UNCHANGED <<entry, made>>

(* The launcher: sidecar, registration, claude, and both undone.  Each of  *)
(* the four may fail and is then only logged: the launcher goes on.  A     *)
(* request that timed out was applied at once or is dropped.               *)
WriteSidecar ==
  /\ launcher = "start"
  /\ launcher' = "register"
  /\ \/ sidecar' = TRUE /\ UNCHANGED troubles
     \/ UNCHANGED sidecar /\ Trouble
  /\ UNCHANGED <<registry, engine, job, store, shown, unclean, cli, history>>

RegisterOrchestrator ==
  /\ launcher = "register"
  /\ launcher' = "supervise"
  /\ \/ Register /\ UNCHANGED troubles
     \/ UNCHANGED <<registry, engine>> /\ Trouble
  /\ UNCHANGED <<job, store, shown, sidecar, unclean, cli, history>>

Unregister ==
  /\ entry' = 0
  /\ entries' = Tidied(0)
  /\ Forget
  /\ UNCHANGED made

UnregisterOrchestrator ==
  /\ launcher = "supervise"
  /\ launcher' = "remove"
  /\ \/ Unregister /\ UNCHANGED <<unclean, troubles>>
     \/ UNCHANGED <<registry, engine>> /\ unclean' = TRUE /\ Trouble
  /\ UNCHANGED <<job, store, shown, sidecar, cli, history>>

RemoveOrchestratorSidecar ==
  /\ launcher = "remove"
  /\ launcher' = "gone"
  /\ \/ sidecar' = FALSE /\ UNCHANGED <<unclean, troubles>>
     \/ UNCHANGED sidecar /\ unclean' = TRUE /\ Trouble
  /\ UNCHANGED <<registry, engine, job, store, shown, cli, history>>

(* Nothing is undone; Claude, and with it the hooks, may live on. *)
LauncherKilled ==
  /\ launcher \in {"register", "supervise", "remove"}
  /\ launcher' = IF launcher = "supervise" THEN "killed" ELSE "gone"
  /\ unclean' = TRUE
  /\ Trouble
  /\ UNCHANGED <<registry, engine, job, store, shown, sidecar, cli, history>>

(* A daemon restart: the registry and the engine start empty. *)
DaemonRestarts ==
  /\ Trouble
  /\ entry' = 0 /\ slot' = 0 /\ made' = 0 /\ slotsMade' = 0
  /\ slots' = [k \in 1..MaxSlot |-> NewSlot] /\ entries' = [v \in 1..MaxEntry |-> Fresh]
  /\ job' = [j \in Job |-> NoJob]
  /\ run' = [r \in Run |-> CASE run[r] \in {"created", "running", "ending"} -> "ended"
                             [] OTHER -> run[r]]
  /\ UNCHANGED <<fatal, shown, sidecar, launcher, unclean, cli, history>>
-----------------------------------------------------------------------------
(* runSignal: an unknown id is registered from the sidecar, and the event  *)
(* sent once more; whatever comes of it, the command exits with 0 and the  *)
(* event of a call that failed is not reported again.                      *)
CliMoves(c, at) ==
  cli' = [cli EXCEPT ![c] =
    [at |-> at, event |-> IF at \in {"applied", "lost"} THEN "none" ELSE @.event]]

SignalStarts(c) ==
  /\ launcher \in {"supervise", "killed"} /\ cli[c].at = "idle"
  /\ \E event \in Event : cli' = [cli EXCEPT ![c] = [at |-> "signal", event |-> event]]
  /\ UNCHANGED <<registry, engine, job, store, shown, sidecar, launcher, unclean, troubles,
                 history>>

GivesUp == "lost"
OnUnknown == "read_sidecar"
SignalSent(c) ==
  /\ cli[c].at = "signal"
  /\ SignalSupervisorEvent(cli[c].event)
  /\ CliMoves(c, IF entry = 0 THEN OnUnknown ELSE "applied")
  /\ UNCHANGED <<job, store, shown, sidecar, launcher, unclean, troubles, history>>

ReadOrchestratorSidecar(c) ==
  /\ cli[c].at = "read_sidecar"
  /\ CliMoves(c, IF sidecar THEN "register" ELSE "lost")
  /\ UNCHANGED <<registry, engine, job, store, shown, sidecar, launcher, unclean, troubles,
                 history>>

ReregisterFromSidecar(c) ==
  /\ cli[c].at = "register"
  /\ Register
  /\ CliMoves(c, "retry")
  /\ unclean' = (unclean \/ launcher \in {"remove", "gone"})
  /\ UNCHANGED <<job, store, shown, sidecar, launcher, troubles, history>>

SignalRetried(c) ==
  /\ cli[c].at = "retry"
  /\ SignalSupervisorEvent(cli[c].event)
  /\ CliMoves(c, IF entry = 0 THEN "lost" ELSE "applied")
  /\ UNCHANGED <<job, store, shown, sidecar, launcher, unclean, troubles, history>>

(* The sidecar cannot be read; the daemon cannot be reached, or not in     *)
(* time, though the registration may have reached it.                      *)
SignalFails(c) ==
  /\ cli[c].at \in {"signal", "read_sidecar", "register", "retry"}
  /\ Trouble
  /\ CliMoves(c, "lost")
  /\ \/ UNCHANGED <<registry, engine, unclean>>
     \/ /\ cli[c].at = "register" /\ Register
        /\ unclean' = (unclean \/ launcher \in {"remove", "gone"})
  /\ UNCHANGED <<job, store, shown, sidecar, launcher, history>>

JobStep(j) == JobReadsRuns(j) \/ JobReadsNotifications(j)
TimerFires(k) == DebounceFires(k) \/ StaleFires(k)
CliStep(c) == SignalSent(c) \/ ReadOrchestratorSidecar(c) \/ ReregisterFromSidecar(c)
                \/ SignalRetried(c)
LauncherStep == WriteSidecar \/ RegisterOrchestrator \/ UnregisterOrchestrator
                  \/ RemoveOrchestratorSidecar \/ LauncherKilled
RunStep(r) == RunAppears(r) \/ RunStarted(r) \/ FatalNotified(r) \/ RunEnds(r)
                \/ TerminalAnnounced(r) \/ AckRunNotification(r) \/ PruneRuns(r)

StatusNext ==
  \/ \E j \in Job : JobStep(j) \/ JobFails(j)
  \/ \E k \in 1..MaxSlot : TimerFires(k)
  \/ \E r \in Run : RunStep(r)
  \/ \E c \in Cli : SignalStarts(c) \/ CliStep(c) \/ SignalFails(c)
  \/ LauncherStep \/ DaemonRestarts \/ TimePasses

StatusSpec == StatusInit /\ [][StatusNext]_statusVars

(* The reads of the recomputes return, of one after the other. *)
StatusFairSpec == StatusSpec /\ WF_job(\E j \in Job : JobStep(j))
-----------------------------------------------------------------------------
(* When nothing is under way, the user has been shown the status of now:   *)
(* no event is lost in the debounce, the staleness of a silent supervisor  *)
(* included.  Excused are the changes that raise no lifecycle event, until *)
(* the next recompute, two recomputes that overlapped, and one that was in *)
(* progress when its slot was forgotten.                                   *)
Settled ==
  /\ entry # 0 /\ slot # 0
  /\ ~slots[slot].pending /\ slots[slot].stale # "due"
  /\ \A j \in Job : job[j] = NoJob
  /\ \A r \in Run : run[r] \notin {"created", "ending"}
SettledStatusIsRight ==
  Settled /\ ~missed /\ ~stray => shown = StatusOf(entries[entry], Running, Failed)

StatusIsRight == StatusTypeOK /\ SettledStatusIsRight

(* A supervisor that has ended is registered, or has a sidecar to be       *)
(* registered from, only if its launcher was killed or failed to undo one  *)
(* of the two, or if a signal that had read the sidecar before registered  *)
(* it again.  Once neither is left, no signal brings it back, however late *)
(* it comes.                                                               *)
GhostIsExplained == launcher = "gone" /\ (entry # 0 \/ sidecar) => unclean
GoneForGood ==
  launcher = "gone" /\ entry = 0 /\ ~sidecar /\ \A c \in Cli : cli[c].at # "register"
NoGhostOrchestrator == []GhostIsExplained /\ [][GoneForGood => GoneForGood']_statusVars

(* A lifecycle event of a supervisor that goes on, its launcher killed or  *)
(* not, is lost only if one of the signal's own calls fails, or to two     *)
(* troubles before: for a daemon that was restarted, for a registration    *)
(* that failed or a sidecar that could not be written alone, the signal    *)
(* makes up.                                                               *)
EventsSurviveRestart ==
  [][\A c \in Cli : cli'[c].at = "lost" /\ cli[c].at # "lost"
       => launcher \in {"remove", "gone"} \/ troubles' > troubles \/ troubles > 1]_statusVars

(* The daemon knows of the sessions that are there, and of no others but   *)
(* those excused.                                                          *)
SessionsAreFollowed == NoGhostOrchestrator /\ EventsSurviveRestart

(* The engine comes to rest when its inputs do: a timer that cannot change *)
(* the status is not armed again and again.                                *)
EngineComesToRest == <>[](\A j \in Job : job[j] = NoJob)
=============================================================================
