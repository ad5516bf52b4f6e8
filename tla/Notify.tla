------------------------------- MODULE Notify -------------------------------
(***************************************************************************)
(* Who is told that a run has ended or has hit a fatal error: the journal  *)
(* of notifications, the monitor commands that block on wait_for_any_run,  *)
(* and the frontend's poller that pushes new notifications to its client.  *)
(*                                                                         *)
(* Simplifications: the journal's lock is taken as held (module RunStore   *)
(* has it step by step); the acks and the journal are read together; ids   *)
(* are numbers, and the journal's lines, which are in their order, a set;  *)
(* one frontend.                                                           *)
(***************************************************************************)
EXTENDS Naturals, FiniteSets

CONSTANTS
  Run,
  Monitor,       \* monitor commands
  RunOf,         \* the run each of them is about
  Tick,          \* bound: ticks of the poller in progress at once
  Limit,         \* notifications in one answer
  Ending,        \* bound: how the runs end, other than orphaned by a crash
  MaxStart,      \* bound: times each monitor command is started
  MaxAck,        \* bound: notifications acknowledged at once
  MaxFault       \* bound: crashes, and requests that fail

ASSUME NotifyAssumption ==
  /\ IsFiniteSet(Run)
  /\ Ending \subseteq {"completed", "failed", "cancelled", "timed_out"}
  /\ RunOf \in [Monitor -> Run]
  /\ Limit \in Nat \ {0} /\ MaxStart \in Nat /\ MaxAck \in Nat /\ MaxFault \in Nat

VARIABLES
  status,     \* meta.json of each run
  stage,      \* how far its end has been announced
  fatal,      \* whether it has a fatal_error notification
  journal,    \* notifications.jsonl
  nextId,
  acked,      \* notifications-acks.jsonl
  up,         \* whether the daemon listens
  monitor,    \* where each monitor command is
  cursor,     \* after which notification it waits, 0 for none
  starts,
  tick,       \* the poller's ticks
  running,    \* the poller's flag
  lastSeen,   \* the poller's cursor
  heard,      \* history: what a monitor has printed
  pushed,     \* history: how often the push of a notification was tried
  faults

store == <<status, stage, fatal, journal, nextId, acked, up>>
monitors == <<monitor, cursor, starts, heard>>
poller == <<tick, running, lastSeen, pushed>>
notifyVars == <<store, monitors, poller, faults>>

Outcome == Ending \cup {"orphaned"}
Id == 1..(2 * Cardinality(Run))
Note == [id : Id, run : Run, kind : {"terminal", "fatal_error"}, status : Outcome \cup {"running"}]
IdleTick == [at |-> "idle", page |-> {}]
Waiting == {"exists", "wait"}
ExitCodes == {"TERMINAL_COMPLETED", "TERMINAL_FAILED", "TERMINAL_CANCELLED",
              "TERMINAL_TIMED_OUT", "UNKNOWN_RUN", "DAEMON_UNAVAILABLE", "FATAL_ERROR"}

NotifyTypeOK ==
  /\ status \in [Run -> Outcome \cup {"running"}]
  /\ stage \in [Run -> {"open", "grave", "meta", "late", "announced", "pruned"}]
  /\ fatal \in [Run -> BOOLEAN]
  /\ journal \subseteq Note /\ nextId \in 1..(2 * Cardinality(Run) + 1)
  /\ acked \subseteq Id /\ up \in BOOLEAN
  /\ monitor \in [Monitor -> {"idle"} \cup Waiting \cup ExitCodes]
  /\ cursor \in [Monitor -> {0} \cup Id]
  /\ starts \in [Monitor -> 0..MaxStart]
  /\ \A t \in Tick : tick[t].at \in {"idle", "request", "push"} /\ tick[t].page \subseteq Note
  /\ running \in BOOLEAN /\ lastSeen \in {0} \cup Id
  /\ heard \in [Monitor -> SUBSET Id] /\ pushed \in [Id -> Nat]
  /\ faults \in Nat

NotifyInit ==
  /\ status = [r \in Run |-> "running"] /\ stage = [r \in Run |-> "open"]
  /\ fatal = [r \in Run |-> FALSE]
  /\ journal = {} /\ nextId = 1 /\ acked = {} /\ up = TRUE
  /\ monitor = [m \in Monitor |-> "idle"] /\ cursor = [m \in Monitor |-> 0]
  /\ starts = [m \in Monitor |-> 0] /\ heard = [m \in Monitor |-> {}]
  /\ tick = [t \in Tick |-> IdleTick] /\ running = FALSE /\ lastSeen = 0
  /\ pushed = [n \in Id |-> 0]
  /\ faults = 0

Fault == faults < MaxFault /\ faults' = faults + 1
-----------------------------------------------------------------------------
(* The store: meta.json first, then the notifications of the end. *)
Appended(r, kind) == [id |-> nextId, run |-> r, kind |-> kind, status |-> status[r]]
AppendNotification(r, kind) ==
  /\ journal' = journal \cup {Appended(r, kind)}
  /\ nextId' = nextId + 1

(* appendFatalErrorNotificationIfNew: the sentinel file. *)
FatalIsNew(r) == ~fatal[r]

FatalError(r) ==
  /\ up /\ stage[r] = "open" /\ FatalIsNew(r)
  /\ fatal' = [fatal EXCEPT ![r] = TRUE]
  /\ AppendNotification(r, "fatal_error")
  /\ UNCHANGED <<status, stage, acked, up, monitors, poller, faults>>

(* A run that did not succeed may leave a fatal latest_error. *)
Grave(r, outcome) == outcome \in {"failed", "timed_out"} /\ FatalIsNew(r)

WriteMeta(r, outcome) ==
  /\ up /\ stage[r] = "open"
  /\ status' = [status EXCEPT ![r] = outcome]
  /\ \E s \in {"meta"} \cup (IF Grave(r, outcome) THEN {"grave"} ELSE {}) :
       stage' = [stage EXCEPT ![r] = s]
  /\ UNCHANGED <<fatal, journal, nextId, acked, up, monitors, poller, faults>>

(* markTerminal publishes the fatal error first; a start that finds neither *)
(* (reconcileTerminalNotifications) the end first, run after run.           *)
AnnounceFatal(r) ==
  /\ stage[r] = IF up THEN "grave" ELSE "late"
  /\ stage' = [stage EXCEPT ![r] = IF up THEN "meta" ELSE "announced"]
  /\ fatal' = [fatal EXCEPT ![r] = TRUE]
  /\ AppendNotification(r, "fatal_error")
  /\ UNCHANGED <<status, acked, up, monitors, poller, faults>>

AnnounceTerminal(r) ==
  /\ stage[r] = "meta" \/ (stage[r] = "grave" /\ ~up)
  /\ \A q \in Run : stage[q] # "late"
  /\ stage' = [stage EXCEPT ![r] = IF @ = "grave" THEN "late" ELSE "announced"]
  /\ AppendNotification(r, "terminal")
  /\ UNCHANGED <<status, fatal, acked, up, monitors, poller, faults>>

PruneRun(r) ==
  /\ up /\ stage[r] = "announced"
  /\ stage' = [stage EXCEPT ![r] = "pruned"]
  /\ journal' = {n \in journal : n.run # r}
  /\ acked' = acked \ {n.id : n \in {k \in journal : k.run = r}}
  /\ UNCHANGED <<status, fatal, nextId, up, monitors, poller, faults>>

AckRunNotification(n) ==
  /\ up /\ Cardinality(acked) < MaxAck
  /\ n.id \notin acked
  /\ acked' = acked \cup {n.id}
  /\ UNCHANGED <<status, stage, fatal, journal, nextId, up, monitors, poller, faults>>

(* listNotifications *)
Matches(n, runs, since) == n.id > since /\ n.run \in runs
First(page) == CHOOSE n \in page : \A k \in page : n.id <= k.id
FirstOf(s) == {n \in s : Cardinality({k \in s : k.id < n.id}) < Limit}
FatalOnly == {"fatal_error"}
DefaultKinds == {"terminal", "fatal_error"}
Listed(runs, since) ==
  FirstOf({n \in journal : Matches(n, runs, since) /\ n.kind \in DefaultKinds})
Unacked(since) == FirstOf({n \in journal : Matches(n, Run, since) /\ n.id \notin acked})

(* The daemon is killed, and open requests fail.  When it starts again, it  *)
(* publishes what is missing of the runs that had ended, then orphans the   *)
(* runs it finds running, one after the other, and then it listens.         *)
Unannounced(r) == stage[r] \in {"grave", "meta", "late"}

DaemonCrashes ==
  /\ Fault
  /\ up' = FALSE
  /\ monitor' = [m \in Monitor |-> IF monitor[m] \in Waiting THEN "DAEMON_UNAVAILABLE" ELSE monitor[m]]
  /\ tick' = [t \in Tick |-> IF tick[t].at = "request" THEN IdleTick ELSE tick[t]]
  /\ running' = \E t \in Tick : tick[t].at = "push"
  /\ UNCHANGED <<status, stage, fatal, journal, nextId, acked, cursor, starts, heard, lastSeen, pushed>>

OrphanRun(r) ==
  /\ ~up /\ stage[r] = "open" /\ \A q \in Run : ~Unannounced(q)
  /\ status' = [status EXCEPT ![r] = "orphaned"]
  /\ stage' = [stage EXCEPT ![r] = "meta"]
  /\ UNCHANGED <<fatal, journal, nextId, acked, up, monitors, poller, faults>>

DaemonListens ==
  /\ ~up /\ \A q \in Run : stage[q] \in {"announced", "pruned"}
  /\ up' = TRUE
  /\ UNCHANGED <<status, stage, fatal, journal, nextId, acked, monitors, poller, faults>>
-----------------------------------------------------------------------------
(* monitor: get_run_status, then wait_for_any_run again and again, each    *)
(* time for as long as the request lasts.  It is started with --since and  *)
(* the id of what it printed last.                                         *)
ExitCode(n) ==
  CASE n.kind = "fatal_error" -> "FATAL_ERROR"
    [] n.kind = "terminal" /\ n.status = "completed" -> "TERMINAL_COMPLETED"
    [] n.kind = "terminal" /\ n.status = "cancelled" -> "TERMINAL_CANCELLED"
    [] n.kind = "terminal" /\ n.status = "timed_out" -> "TERMINAL_TIMED_OUT"
    [] OTHER -> "TERMINAL_FAILED"

StartMonitor(m) ==
  /\ monitor[m] \notin Waiting /\ starts[m] < MaxStart
  /\ monitor' = [monitor EXCEPT ![m] = "exists"]
  /\ starts' = [starts EXCEPT ![m] = @ + 1]
  /\ UNCHANGED <<store, cursor, heard, poller, faults>>

EnsureRunExists(m) ==
  /\ monitor[m] = "exists"
  /\ monitor' = [monitor EXCEPT ![m] = IF ~up THEN "DAEMON_UNAVAILABLE"
                                         ELSE IF stage[RunOf[m]] = "pruned" THEN "UNKNOWN_RUN" ELSE "wait"]
  /\ UNCHANGED <<store, cursor, starts, heard, poller, faults>>

CursorAtPageEnd(page) == (CHOOSE n \in page : \A k \in page : k.id <= n.id).id
CursorAfter(page) == First(page).id
WaitForAnyRun(m) ==
  LET page == Listed({RunOf[m]}, cursor[m])
  IN  /\ monitor[m] = "wait" /\ page # {}
      /\ monitor' = [monitor EXCEPT ![m] = ExitCode(First(page))]
      /\ cursor' = [cursor EXCEPT ![m] = CursorAfter(page)]
      /\ heard' = [heard EXCEPT ![m] = @ \cup {First(page).id}]
      /\ UNCHANGED <<store, starts, poller, faults>>

MonitorStep(m) == EnsureRunExists(m) \/ WaitForAnyRun(m)
-----------------------------------------------------------------------------
(* createNotificationPushTick: the interval fires whether or not the last  *)
(* tick is done; the flag keeps ticks apart.                               *)
Busy == running
IntervalFires ==
  /\ ~Busy
  /\ \E t \in Tick : tick[t] = IdleTick
  /\ running' = TRUE
  /\ tick' = [tick EXCEPT ![CHOOSE t \in Tick : tick[t] = IdleTick].at = "request"]
  /\ UNCHANGED <<store, monitors, lastSeen, pushed, faults>>

NotificationsListed(t) ==
  LET page == Unacked(lastSeen)
  IN  /\ tick[t].at = "request" /\ up
      /\ tick' = [tick EXCEPT ![t] = IF page = {} THEN IdleTick ELSE [at |-> "push", page |-> page]]
      /\ running' = (page # {})
      /\ UNCHANGED <<store, monitors, lastSeen, pushed, faults>>

StillRunning == TRUE
RunningAfterFailure == FALSE
ListingFails(t) ==
  /\ tick[t].at = "request"
  /\ IF up THEN Fault ELSE faults' = faults
  /\ tick' = [tick EXCEPT ![t] = IdleTick]
  /\ running' = RunningAfterFailure
  /\ UNCHANGED <<store, monitors, lastSeen, pushed>>

(* The cursor moves before the push, which is not repeated if it fails. *)
PushNotification(t) ==
  LET n == First(tick[t].page).id
      rest == {k \in tick[t].page : k.id # n}
  IN  /\ tick[t].at = "push"
      /\ lastSeen' = IF n > lastSeen THEN n ELSE lastSeen
      /\ pushed' = [pushed EXCEPT ![n] = @ + 1]
      /\ tick' = [tick EXCEPT ![t] = IF rest = {} THEN IdleTick ELSE [at |-> "push", page |-> rest]]
      /\ running' = (rest # {})
      /\ UNCHANGED <<store, monitors, faults>>

TickStep(t) == NotificationsListed(t) \/ PushNotification(t)
-----------------------------------------------------------------------------
RunStep(r) ==
  \/ FatalError(r) \/ AnnounceFatal(r) \/ AnnounceTerminal(r) \/ PruneRun(r)
  \/ OrphanRun(r) \/ \E outcome \in Ending : WriteMeta(r, outcome)

NotifyNext ==
  \/ \E r \in Run : RunStep(r)
  \/ \E n \in journal : AckRunNotification(n)
  \/ \E m \in Monitor : StartMonitor(m) \/ MonitorStep(m)
  \/ IntervalFires \/ \E t \in Tick : TickStep(t) \/ ListingFails(t)
  \/ DaemonCrashes \/ DaemonListens

NotifySpec == NotifyInit /\ [][NotifyNext]_notifyVars

(* A run that ends is announced, a daemon that starts goes on, requests    *)
(* are answered, the poller's interval fires.                              *)
NotifyFairSpec ==
  /\ NotifySpec
  /\ \A r \in Run : WF_notifyVars(AnnounceFatal(r) \/ AnnounceTerminal(r) \/ OrphanRun(r))
  /\ WF_notifyVars(DaemonListens)
  /\ \A m \in Monitor : WF_notifyVars(MonitorStep(m))
  /\ \A t \in Tick : WF_notifyVars(TickStep(t))
  /\ WF_notifyVars(IntervalFires)
-----------------------------------------------------------------------------
(* A supervisor that starts its monitor again from the last id it was told *)
(* hears of every notification of the run, however many came at once.      *)
MonitorsMissNothing ==
  \A m \in Monitor : \A n \in journal :
    n.run = RunOf[m] /\ n.id <= cursor[m] => n.id \in heard[m]

(* The exit code of a monitor agrees with meta.json by the time it exits,  *)
(* unless it reported the fatal error of a run that goes on.               *)
ExitCodeIsTheOutcome ==
  \A m \in Monitor :
    /\ monitor[m] = "TERMINAL_COMPLETED" => status[RunOf[m]] = "completed"
    /\ monitor[m] = "TERMINAL_FAILED" => status[RunOf[m]] \in {"failed", "orphaned"}
    /\ monitor[m] = "TERMINAL_CANCELLED" => status[RunOf[m]] = "cancelled"
    /\ monitor[m] = "TERMINAL_TIMED_OUT" => status[RunOf[m]] = "timed_out"
    /\ monitor[m] = "FATAL_ERROR" => fatal[RunOf[m]]

(* The poller pushes no notification twice, also when its interval is      *)
(* shorter than a request takes.                                           *)
PushedAtMostOnce == \A n \in Id : pushed[n] <= 1

(* What the journal holds reaches monitors and pushes completely, truly    *)
(* and once.                                                               *)
DeliveryIsExact ==
  NotifyTypeOK /\ MonitorsMissNothing /\ ExitCodeIsTheOutcome /\ PushedAtMostOnce

(* A monitor that waits for a run that ends exits, if the end was          *)
(* announced, not before its cursor, and the run is not pruned under it.   *)
EndIsToCome(m) ==
  \/ Unannounced(RunOf[m])
  \/ \E n \in journal : n.run = RunOf[m] /\ n.id > cursor[m]
MonitorsExit ==
  \A m \in Monitor :
    monitor[m] = "wait" /\ EndIsToCome(m)
      ~> monitor[m] # "wait" \/ stage[RunOf[m]] = "pruned"

(* Whatever is in the journal is pushed, unless it is acknowledged or      *)
(* pruned first: a request that fails does not stop the poller.            *)
EveryNotificationIsPushed ==
  <>[](\A n \in journal : pushed[n.id] > 0 \/ n.id \in acked)
=============================================================================
