------------------------------ MODULE RunStore ------------------------------
(***************************************************************************)
(* The run store: the files of every run and the notification journal they *)
(* share, written one file at a time by the asynchronous calls of one      *)
(* daemon process that may be killed between any two writes and started    *)
(* again.                                                                  *)
(*                                                                         *)
(* An actor is one call in progress (a Caller) or the daemon's own start   *)
(* (Boot).  pc[a] names the next file operation of the call; a step of the *)
(* model is one file operation, the reads that only this call can see      *)
(* between two of them being merged into the step before.                  *)
(*                                                                         *)
(* Simplifications.                                                        *)
(*  - A run's directory is created at its first and becomes visible at its *)
(*    last write (meta.json), so createRun is one step.                    *)
(*  - A line is appended whole or not at all.                              *)
(*  - notification_id is the sequence number; its ULID suffix, which only  *)
(*    orders ids of equal number, is left out.                             *)
(*  - The journal is the set of its lines; "at" is a line's place in it.   *)
(*  - notifications.seq is replaced in one step: a torn one counts as no   *)
(*    counter, and the next number is then taken from the journal alone.   *)
(*  - Breaking a stale lock is one step here.                              *)
(*  - Event numbers are the subject of EventLog; here a run is "closed"    *)
(*    when its terminal lifecycle event was appended.                      *)
(***************************************************************************)
EXTENDS Naturals, FiniteSets

CONSTANTS
  Run,        \* run ids
  Caller,     \* calls that may be in progress at the same time
  Boot,       \* the daemon's start-up sequence
  Outcome,    \* terminal statuses that callers ask for
  Error,      \* the errors that callers record: "plain", "fatal"
  Pruner,     \* the callers that may prune
  NoRun, Free, Stale,
  MaxCrash,   \* bound: how often the process is killed
  MaxThrow    \* bound: how many calls fail in the middle

TerminalStatus == {"completed", "failed", "cancelled", "timed_out", "orphaned"}

ASSUME RunStoreAssumption ==
  /\ Boot \notin Caller
  /\ NoRun \notin Run
  /\ Free # Stale
  /\ {Free, Stale} \cap (Caller \cup {Boot}) = {}
  /\ Outcome \subseteq TerminalStatus
  /\ Error \subseteq {"plain", "fatal"}
  /\ Pruner \subseteq Caller
  /\ MaxCrash \in Nat /\ MaxThrow \in Nat

VARIABLES
  status,    \* status in each run's meta.json
  fatal,     \* is latest_error in meta.json a fatal one?
  result,    \* status in each run's result.json
  closed,    \* was the terminal lifecycle event appended to events.jsonl?
  sentinel,  \* the kinds whose sentinel file exists in the run's directory
  journal,   \* the lines of notifications.jsonl
  seqFile,   \* the number in notifications.seq
  acked,     \* the sequence numbers in acks.jsonl
  issued,    \* history: every line ever appended to the journal
  runLock,   \* owner of each run's .lock
  noteLock,  \* owner of .notifications.lock
  daemon,    \* "down", "booting" or "up"
  pc,        \* next file operation of each actor
  target,    \* the run each actor works on
  intent,    \* what each actor writes to meta.json
  copy,      \* meta.json as the actor loaded it under the run lock
  todo,      \* the notifications the actor has still to publish
  scan,      \* the runs the start-up sequence has still to visit
  doomed,    \* the runs the actor prunes
  rewrite,   \* the journal as the pruning actor read it
  number,    \* the sequence number the actor chose for its notification
  thrown,    \* has a call failed since the daemon started?
  crashes, throws

files   == <<status, fatal, result, closed, sentinel>>
notes   == <<journal, seqFile, acked, issued>>
locks   == <<runLock, noteLock>>
local   == <<doomed, rewrite, number>>
call    == <<target, intent, copy>>
budget  == <<thrown, crashes, throws>>
vars    == <<files, notes, locks, daemon, pc, call, todo, scan, local, budget>>
-----------------------------------------------------------------------------
Actor == Caller \cup {Boot}
Kind == {"terminal", "fatal_error"}
Terminal(s) == s \in TerminalStatus
Status == TerminalStatus \cup {"absent", "running", "pruned"}
Readable(r) == status[r] \notin {"absent", "pruned"}

(* The status of result.json, "completed" standing for every status of a    *)
(* worker that ended normally (completed, needs_input, blocked).            *)
ResultFor(s) == IF s = "completed" THEN "completed" ELSE "failed"

Line == [at : Nat, seq : Nat, run : Run, kind : Kind, status : Status]
Intent == [status : TerminalStatus \cup {"running"},
           error : {"keep", "plain", "fatal"}]
NoIntent == [status |-> "running", error |-> "keep"]
NoCopy == [status |-> "running", fatal |-> FALSE]

Step == {"idle", "mt_lock", "mt_load", "mt_result", "mt_meta", "mt_event",
         "um_lock", "um_load", "um_meta", "ru_unlock",
         "nt_lock", "nt_check", "nt_read", "nt_append", "nt_seq", "nt_sentinel", "nt_unlock",
         "ak_lock", "ak_write",
         "pr_rm", "pr_lock", "pr_truncate", "pr_write", "pr_acks",
         "bt_scan", "bt_check", "bt_orphan"}

TypeOK ==
  /\ status \in [Run -> Status]
  /\ fatal \in [Run -> BOOLEAN]
  /\ result \in [Run -> {"none", "completed", "failed"}]
  /\ closed \in [Run -> BOOLEAN]
  /\ sentinel \in [Run -> SUBSET Kind]
  /\ journal \subseteq Line
  /\ issued \subseteq Line /\ IsFiniteSet(issued)
  /\ seqFile \in Nat
  /\ acked \subseteq Nat
  /\ runLock \in [Run -> Actor \cup {Free, Stale}]
  /\ noteLock \in Actor \cup {Free, Stale}
  /\ daemon \in {"down", "booting", "up"}
  /\ pc \in [Actor -> Step]
  /\ target \in [Actor -> Run \cup {NoRun}]
  /\ intent \in [Actor -> Intent]
  /\ copy \in [Actor -> [status : Status, fatal : BOOLEAN]]
  /\ todo \in [Actor -> SUBSET Kind]
  /\ scan \subseteq Run
  /\ doomed \in [Actor -> SUBSET Run]
  /\ rewrite \in [Actor -> SUBSET Line]
  /\ number \in [Actor -> Nat]
  /\ thrown \in BOOLEAN
  /\ crashes \in Nat
  /\ throws \in Nat
-----------------------------------------------------------------------------
Init ==
  /\ status = [r \in Run |-> "absent"]
  /\ fatal = [r \in Run |-> FALSE]
  /\ result = [r \in Run |-> "none"]
  /\ closed = [r \in Run |-> FALSE]
  /\ sentinel = [r \in Run |-> {}]
  /\ journal = {} /\ issued = {}
  /\ seqFile = 0
  /\ acked = {}
  /\ runLock = [r \in Run |-> Free]
  /\ noteLock = Free
  /\ daemon = "down"
  /\ pc = [a \in Actor |-> "idle"]
  /\ target = [a \in Actor |-> NoRun]
  /\ intent = [a \in Actor |-> NoIntent]
  /\ copy = [a \in Actor |-> NoCopy]
  /\ todo = [a \in Actor |-> {}]
  /\ scan = {}
  /\ doomed = [a \in Actor |-> {}]
  /\ rewrite = [a \in Actor |-> {}]
  /\ number = [a \in Actor |-> 0]
  /\ thrown = FALSE
  /\ crashes = 0 /\ throws = 0

Goto(a, step) == pc' = [pc EXCEPT ![a] = step]
At(a, step) == pc[a] = step

HoldsRun(a) == target[a] \in Run /\ runLock[target[a]] = a

(* The end of a call: its local variables are gone. *)
Forget(a) ==
  /\ target' = [target EXCEPT ![a] = NoRun]
  /\ intent' = [intent EXCEPT ![a] = NoIntent]
  /\ copy' = [copy EXCEPT ![a] = NoCopy]
-----------------------------------------------------------------------------
(* Calls on the store.  A run is pruned a day or more after it finished, so *)
(* no call is made on a run that is being pruned, nor is one still running. *)

Quiet(r) == \A a \in Actor : target[a] # r
Dooming(r) == \E a \in Actor : r \in doomed[a]
Callable(a, r) ==
  daemon = "up" /\ At(a, "idle") /\ Readable(r) /\ ~Dooming(r)

CreateRun(a, r) ==
  /\ daemon = "up" /\ At(a, "idle")
  /\ status[r] = "absent"
  /\ status' = [status EXCEPT ![r] = "running"]
  /\ UNCHANGED <<fatal, result, closed, sentinel, notes, locks, daemon, pc,
                 call, todo, scan, local, budget>>

Begin(a, r, step, i, kinds) ==
  /\ Callable(a, r)
  /\ Goto(a, step)
  /\ target' = [target EXCEPT ![a] = r]
  /\ intent' = [intent EXCEPT ![a] = i]
  /\ todo' = [todo EXCEPT ![a] = kinds]
  /\ UNCHANGED <<files, notes, locks, daemon, copy, scan, local, budget>>

MarkTerminal(a, r) ==
  \E o \in Outcome, e \in {"keep"} \cup Error :
    Begin(a, r, "mt_lock", [status |-> o, error |-> e], {})

(* recordActivity, the merge of terminal_context, any updater that leaves   *)
(* status and latest_error as they were loaded.                             *)
UpdateMeta(a, r) == Begin(a, r, "um_lock", NoIntent, {})

(* recordObservedError starts two calls at once: the update of latest_error *)
(* and, when the error is fatal, its notification.                          *)
RecordError(a, r) ==
  /\ status[r] = "running"
  /\ \E e \in Error :
       Begin(a, r, "um_lock", [status |-> "running", error |-> e], {})

NotifyFatal(a, r) ==
  /\ status[r] = "running"
  /\ fatal[r] \/ \E b \in Actor : target[b] = r /\ intent[b].error = "fatal"
  /\ Begin(a, r, "nt_lock", NoIntent, {"fatal_error"})
-----------------------------------------------------------------------------
(* withRunLock: create .lock exclusively; a lock file older than this       *)
(* process, or whose owner is dead, is removed first.                       *)

RunLockFree(a) == runLock[target[a]] = Free

AcquireRunLock(a) ==
  /\ pc[a] \in {"mt_lock", "um_lock"}
  /\ RunLockFree(a)
  /\ runLock' = [runLock EXCEPT ![target[a]] = a]
  /\ Goto(a, IF At(a, "mt_lock") THEN "mt_load" ELSE "um_load")
  /\ UNCHANGED <<files, notes, noteLock, daemon, call, todo, scan, local, budget>>

BreakStaleRunLock(a) ==
  /\ pc[a] \in {"mt_lock", "um_lock"}
  /\ runLock[target[a]] = Stale
  /\ runLock' = [runLock EXCEPT ![target[a]] = Free]
  /\ UNCHANGED <<files, notes, noteLock, daemon, pc, call, todo, scan, local, budget>>

ReleaseRunLock(a) ==
  /\ At(a, "ru_unlock")
  /\ runLock' = [runLock EXCEPT ![target[a]] = Free]
  /\ Goto(a, IF a = Boot THEN "bt_orphan" ELSE "idle")
  /\ Forget(a)
  /\ UNCHANGED <<files, notes, noteLock, daemon, todo, scan, local, budget>>

(* markTerminal returns the current meta when the run is already terminal. *)
AfterLoadAlways(a) == "mt_result"
AfterLoad(a) == IF Terminal(status[target[a]]) THEN "ru_unlock" ELSE "mt_result"

LoadForTerminal(a) ==
  /\ At(a, "mt_load")
  /\ copy' = [copy EXCEPT ![a] = [status |-> status[target[a]], fatal |-> fatal[target[a]]]]
  /\ Goto(a, AfterLoad(a))
  /\ UNCHANGED <<files, notes, locks, daemon, target, intent, todo, scan, local, budget>>

FinalResultOnce(a) ==
  IF result[target[a]] = "none" THEN ResultFor(intent[a].status) ELSE result[target[a]]
FinalResult(a) == ResultFor(intent[a].status)

WriteResult(a) ==
  /\ At(a, "mt_result")
  /\ result' = [result EXCEPT ![target[a]] = FinalResult(a)]
  /\ Goto(a, "mt_meta")
  /\ UNCHANGED <<status, fatal, closed, sentinel, notes, locks, daemon, call,
                 todo, scan, local, budget>>

NextFatal(a) ==
  IF intent[a].error = "keep" THEN copy[a].fatal ELSE intent[a].error = "fatal"

WriteTerminalMeta(a) ==
  /\ At(a, "mt_meta")
  /\ status' = [status EXCEPT ![target[a]] = intent[a].status]
  /\ fatal' = [fatal EXCEPT ![target[a]] = NextFatal(a)]
  /\ Goto(a, "mt_event")
  /\ UNCHANGED <<result, closed, sentinel, notes, locks, daemon, call, todo,
                 scan, local, budget>>

(* The notifications of a run's end. *)
EndNotifications(isFatal) == IF isFatal THEN Kind ELSE {"terminal"}

AppendTerminalEvent(a) ==
  /\ At(a, "mt_event")
  /\ closed' = [closed EXCEPT ![target[a]] = TRUE]
  /\ todo' = [todo EXCEPT ![a] = EndNotifications(NextFatal(a))]
  /\ Goto(a, "nt_lock")
  /\ UNCHANGED <<status, fatal, result, sentinel, notes, locks, daemon, call,
                 scan, local, budget>>

LoadForUpdate(a) ==
  /\ At(a, "um_load")
  /\ copy' = [copy EXCEPT ![a] = [status |-> status[target[a]], fatal |-> fatal[target[a]]]]
  /\ Goto(a, "um_meta")
  /\ UNCHANGED <<files, notes, locks, daemon, target, intent, todo, scan, local, budget>>

(* The updater's result replaces the whole file. *)
WriteUpdatedMeta(a) ==
  /\ At(a, "um_meta")
  /\ status' = [status EXCEPT ![target[a]] = copy[a].status]
  /\ fatal' = [fatal EXCEPT ![target[a]] = NextFatal(a)]
  /\ Goto(a, "ru_unlock")
  /\ UNCHANGED <<result, closed, sentinel, notes, locks, daemon, call, todo,
                 scan, local, budget>>
-----------------------------------------------------------------------------
(* append...NotificationIfNew, under the notification lock.  markTerminal    *)
(* publishes the fatal error first; the start-up sequence the terminal one. *)

Reconciling(a) == a = Boot /\ ~HoldsRun(a)

Current(a) ==
  IF "terminal" \in todo[a] /\ ("fatal_error" \notin todo[a] \/ Reconciling(a))
  THEN "terminal" ELSE "fatal_error"

AfterLock(step) ==
  CASE step = "nt_lock" -> "nt_check"
    [] step = "ak_lock" -> "ak_write"
    [] step = "pr_lock" -> "pr_truncate"

AcquireNoteLock(a) ==
  /\ pc[a] \in {"nt_lock", "ak_lock", "pr_lock"}
  /\ noteLock = Free
  /\ noteLock' = a
  /\ Goto(a, AfterLock(pc[a]))
  /\ UNCHANGED <<files, notes, runLock, daemon, call, todo, scan, local, budget>>

BreakStaleNoteLock(a) ==
  /\ pc[a] \in {"nt_lock", "ak_lock", "pr_lock"}
  /\ noteLock = Stale
  /\ noteLock' = Free
  /\ UNCHANGED <<files, notes, runLock, daemon, pc, call, todo, scan, local, budget>>

AfterCheckIgnored(a) == "nt_read"
AfterCheck(a) == IF Current(a) \in sentinel[target[a]] THEN "nt_unlock" ELSE "nt_read"

CheckSentinel(a) ==
  /\ At(a, "nt_check")
  /\ Goto(a, AfterCheck(a))
  /\ UNCHANGED <<files, notes, locks, daemon, call, todo, scan, local, budget>>

(* The number in the last line of the journal. *)
JournalSeq ==
  IF journal = {} THEN {0}
  ELSE {m.seq : m \in {l \in journal : \A k \in journal : k.at <= l.at}}

NextCounterSequence == {seqFile + 1}
NextNotificationSequence ==
  {(IF n > seqFile THEN n ELSE seqFile) + 1 : n \in JournalSeq}

ReadSequence(a) ==
  /\ At(a, "nt_read")
  /\ \E n \in NextNotificationSequence : number' = [number EXCEPT ![a] = n]
  /\ Goto(a, "nt_append")
  /\ UNCHANGED <<files, notes, locks, daemon, call, todo, scan, doomed, rewrite, budget>>

(* markTerminal passes the status it wrote, the reconciliation the one it   *)
(* read; recordObservedError's notification says "running".                 *)
StatusLoaded(a) == copy[a].status
StatusSeen(a) == IF a = Boot \/ HoldsRun(a) THEN status[target[a]] ELSE "running"

NewLine(a) ==
  [at |-> Cardinality(issued) + 1, seq |-> number[a], run |-> target[a],
   kind |-> Current(a), status |-> StatusSeen(a)]

AppendNotification(a) ==
  /\ At(a, "nt_append")
  /\ journal' = journal \cup {NewLine(a)}
  /\ issued' = issued \cup {NewLine(a)}
  /\ Goto(a, "nt_seq")
  /\ UNCHANGED <<files, seqFile, acked, locks, daemon, call, todo, scan, local, budget>>

WriteNotificationSeq(a) ==
  /\ At(a, "nt_seq")
  /\ seqFile' = number[a]
  /\ number' = [number EXCEPT ![a] = 0]
  /\ Goto(a, "nt_sentinel")
  /\ UNCHANGED <<files, journal, acked, issued, locks, daemon, call, todo, scan,
                 doomed, rewrite, budget>>

WriteSentinel(a) ==
  /\ At(a, "nt_sentinel")
  /\ sentinel' = [sentinel EXCEPT ![target[a]] = @ \cup {Current(a)}]
  /\ Goto(a, "nt_unlock")
  /\ UNCHANGED <<status, fatal, result, closed, notes, locks, daemon, call, todo,
                 scan, local, budget>>

Remaining(a) == todo[a] \ {Current(a)}

(* What the call does next: the next notification of the run, the rest of   *)
(* its caller, or nothing.                                                  *)
ReleaseNoteLock(a) ==
  /\ At(a, "nt_unlock")
  /\ noteLock' = Free
  /\ todo' = [todo EXCEPT ![a] = Remaining(a)]
  /\ \/ /\ Remaining(a) # {}
        /\ Goto(a, IF Reconciling(a) THEN "bt_check" ELSE "nt_lock")
        /\ UNCHANGED call
     \/ /\ Remaining(a) = {} /\ Reconciling(a)
        /\ Goto(a, "bt_scan") /\ UNCHANGED call
     \/ /\ Remaining(a) = {} /\ HoldsRun(a)
        /\ Goto(a, "ru_unlock") /\ UNCHANGED call
     \/ /\ Remaining(a) = {} /\ a # Boot /\ ~HoldsRun(a)
        /\ Goto(a, "idle") /\ Forget(a)
  /\ doomed' = [doomed EXCEPT ![a] = {}]
  /\ rewrite' = [rewrite EXCEPT ![a] = {}]
  /\ UNCHANGED <<files, notes, runLock, daemon, scan, number, budget>>
-----------------------------------------------------------------------------
(* markNotificationAcked, for a notification some client was given. *)

Ack(a) ==
  /\ daemon = "up" /\ At(a, "idle")
  /\ issued # {}
  /\ Goto(a, "ak_lock")
  /\ UNCHANGED <<files, notes, locks, daemon, call, todo, scan, local, budget>>

WriteAck(a) ==
  /\ At(a, "ak_write")
  /\ \E m \in issued : acked' = acked \cup {m.seq}
  /\ Goto(a, "nt_unlock")
  /\ UNCHANGED <<files, journal, seqFile, issued, locks, daemon, call, todo, scan,
                 local, budget>>
-----------------------------------------------------------------------------
(* pruneTerminalRuns: remove the directories one by one, then rewrite the   *)
(* journal and the acks without the notifications of those runs.            *)

PruneTerminalRuns(a) ==
  /\ a \in Pruner
  /\ daemon = "up" /\ At(a, "idle")
  /\ \E old \in SUBSET {r \in Run : Terminal(status[r]) /\ Quiet(r)} \ {{}} :
       doomed' = [doomed EXCEPT ![a] = old]
  /\ Goto(a, "pr_rm")
  /\ UNCHANGED <<files, notes, locks, daemon, call, todo, scan, rewrite, number, budget>>

(* A directory that another pruning call has removed is passed over. *)
RemoveRunDir(a) ==
  /\ At(a, "pr_rm")
  /\ \E r \in doomed[a] :
       /\ status[r] # "pruned" \/ \A d \in doomed[a] : status[d] = "pruned"
       /\ status' = [status EXCEPT ![r] = "pruned"]
       /\ fatal' = [fatal EXCEPT ![r] = FALSE]
       /\ result' = [result EXCEPT ![r] = "none"]
       /\ closed' = [closed EXCEPT ![r] = FALSE]
       /\ sentinel' = [sentinel EXCEPT ![r] = {}]
       /\ runLock' = [runLock EXCEPT ![r] = Free]
       /\ Goto(a, IF \A d \in doomed[a] \ {r} : status[d] = "pruned"
                  THEN "pr_lock" ELSE "pr_rm")
  /\ UNCHANGED <<notes, noteLock, daemon, call, todo, scan, local, budget>>

(* writeFile on the journal truncates it before it writes. *)
TruncateJournal(a) ==
  /\ At(a, "pr_truncate")
  /\ rewrite' = [rewrite EXCEPT ![a] = journal]
  /\ journal' = {}
  /\ Goto(a, "pr_write")
  /\ UNCHANGED <<files, seqFile, acked, issued, locks, daemon, call, todo, scan,
                 doomed, number, budget>>

KeptUnacked(a) == {m \in rewrite[a] : m.run \notin doomed[a] /\ m.seq \notin acked}
KeptLines(a) == {m \in rewrite[a] : m.run \notin doomed[a]}

WriteKeptJournal(a) ==
  /\ At(a, "pr_write")
  /\ journal' = KeptLines(a)
  /\ Goto(a, "pr_acks")
  /\ UNCHANGED <<files, seqFile, acked, issued, locks, daemon, call, todo, scan,
                 local, budget>>

WriteKeptAcks(a) ==
  /\ At(a, "pr_acks")
  /\ acked' = acked \ {m.seq : m \in {l \in rewrite[a] : l.run \in doomed[a]}}
  /\ Goto(a, "nt_unlock")
  /\ UNCHANGED <<files, journal, seqFile, issued, locks, daemon, call, todo, scan,
                 local, budget>>
-----------------------------------------------------------------------------
(* The daemon's start: ensureReady reconciles the notifications of every    *)
(* terminal run, initialize then marks every running run orphaned, and only *)
(* then does the daemon listen for calls.                                   *)

UnfinishedRuns == {r \in Run : status[r] = "running"}
RunDirs == {r \in Run : Readable(r)}

StartDaemon ==
  /\ daemon = "down"
  /\ daemon' = "booting"
  /\ Goto(Boot, "bt_scan")
  /\ scan' = RunDirs
  /\ thrown' = FALSE
  /\ UNCHANGED <<files, notes, locks, call, todo, local, crashes, throws>>

ReconcileRun ==
  /\ At(Boot, "bt_scan")
  /\ \E r \in scan :
       /\ scan' = scan \ {r}
       /\ \/ /\ Terminal(status[r])
             /\ target' = [target EXCEPT ![Boot] = r]
             /\ todo' = [todo EXCEPT ![Boot] = EndNotifications(fatal[r])]
             /\ Goto(Boot, "bt_check")
          \/ ~Terminal(status[r]) /\ UNCHANGED target /\ UNCHANGED todo /\ UNCHANGED pc
  /\ UNCHANGED <<files, notes, locks, daemon, intent, copy, local, budget>>

Journalled(r, k) == \E m \in journal : m.run = r /\ m.kind = k

(* A missing sentinel is rewritten when the journal has the notification,   *)
(* which is published otherwise.                                            *)
ReconcileNotification ==
  /\ At(Boot, "bt_check")
  /\ LET r == target[Boot]
         k == Current(Boot)
         published == k \in sentinel[r] \/ Journalled(r, k)
     IN  \/ /\ published
            /\ sentinel' = [sentinel EXCEPT ![r] = @ \cup {k}]
            /\ todo' = [todo EXCEPT ![Boot] = Remaining(Boot)]
            /\ Goto(Boot, IF Remaining(Boot) = {} THEN "bt_scan" ELSE "bt_check")
         \/ ~published /\ Goto(Boot, "nt_lock") /\ UNCHANGED sentinel /\ UNCHANGED todo
  /\ UNCHANGED <<status, fatal, result, closed, notes, locks, daemon, call, scan,
                 local, budget>>

FinishReconciliation ==
  /\ At(Boot, "bt_scan")
  /\ scan = {}
  /\ scan' = UnfinishedRuns
  /\ Goto(Boot, "bt_orphan")
  /\ target' = [target EXCEPT ![Boot] = NoRun]
  /\ UNCHANGED <<files, notes, locks, daemon, intent, copy, todo, local, budget>>

OrphanRun ==
  /\ At(Boot, "bt_orphan")
  /\ \E r \in scan :
       /\ scan' = scan \ {r}
       /\ target' = [target EXCEPT ![Boot] = r]
  /\ intent' = [intent EXCEPT ![Boot] = [status |-> "orphaned", error |-> "keep"]]
  /\ Goto(Boot, "mt_lock")
  /\ UNCHANGED <<files, notes, locks, daemon, copy, todo, local, budget>>

Listen ==
  /\ At(Boot, "bt_orphan")
  /\ scan = {}
  /\ daemon' = "up"
  /\ Goto(Boot, "idle")
  /\ UNCHANGED <<files, notes, locks, call, todo, scan, local, budget>>
-----------------------------------------------------------------------------
(* The process is killed: the files and the lock files stay. *)
Crash ==
  /\ daemon # "down"
  /\ crashes < MaxCrash
  /\ crashes' = crashes + 1
  /\ daemon' = "down"
  /\ pc' = [a \in Actor |-> "idle"]
  /\ target' = [a \in Actor |-> NoRun]
  /\ intent' = [a \in Actor |-> NoIntent]
  /\ copy' = [a \in Actor |-> NoCopy]
  /\ todo' = [a \in Actor |-> {}]
  /\ scan' = {}
  /\ doomed' = [a \in Actor |-> {}]
  /\ rewrite' = [a \in Actor |-> {}]
  /\ number' = [a \in Actor |-> 0]
  /\ runLock' = [r \in Run |-> IF runLock[r] \in Actor THEN Stale ELSE runLock[r]]
  /\ noteLock' = IF noteLock \in Actor THEN Stale ELSE noteLock
  /\ UNCHANGED <<files, notes, thrown, throws>>

(* A file operation fails, or a lock stays taken for all of the attempts at *)
(* it: the call throws and its finally blocks release what it holds.  A     *)
(* failure of the reconciliation makes the daemon's start fail; one of the  *)
(* orphaning of a run is logged and the next run visited.                   *)
Throw(a) ==
  /\ pc[a] \notin {"idle", "ru_unlock", "nt_unlock", "bt_scan", "bt_orphan"}
  /\ throws < MaxThrow
  /\ throws' = throws + 1
  /\ thrown' = TRUE
  /\ runLock' = [r \in Run |-> IF runLock[r] = a THEN Free ELSE runLock[r]]
  /\ noteLock' = IF noteLock = a THEN Free ELSE noteLock
  /\ Forget(a)
  /\ todo' = [todo EXCEPT ![a] = {}]
  /\ doomed' = [doomed EXCEPT ![a] = {}]
  /\ rewrite' = [rewrite EXCEPT ![a] = {}]
  /\ number' = [number EXCEPT ![a] = 0]
  /\ IF a # Boot
     THEN Goto(a, "idle") /\ UNCHANGED <<daemon, scan>>
     ELSE IF HoldsRun(Boot) \/ At(Boot, "mt_lock")
     THEN Goto(Boot, "bt_orphan") /\ UNCHANGED <<daemon, scan>>
     ELSE Goto(Boot, "idle") /\ daemon' = "down" /\ scan' = {}
  /\ UNCHANGED <<files, notes, crashes>>
-----------------------------------------------------------------------------
StartCall(a) ==
  \/ Ack(a)
  \/ PruneTerminalRuns(a)
  \/ \E r \in Run : \/ CreateRun(a, r)
                    \/ MarkTerminal(a, r)
                    \/ UpdateMeta(a, r)
                    \/ RecordError(a, r)
                    \/ NotifyFatal(a, r)

UnderRunLock(a) ==
  \/ AcquireRunLock(a) \/ BreakStaleRunLock(a) \/ ReleaseRunLock(a)
  \/ LoadForTerminal(a) \/ WriteResult(a) \/ WriteTerminalMeta(a) \/ AppendTerminalEvent(a)
  \/ LoadForUpdate(a) \/ WriteUpdatedMeta(a)

UnderNoteLock(a) ==
  \/ AcquireNoteLock(a) \/ BreakStaleNoteLock(a) \/ ReleaseNoteLock(a)
  \/ CheckSentinel(a) \/ ReadSequence(a) \/ AppendNotification(a)
  \/ WriteNotificationSeq(a) \/ WriteSentinel(a)
  \/ WriteAck(a)
  \/ TruncateJournal(a) \/ WriteKeptJournal(a) \/ WriteKeptAcks(a)

Startup ==
  \/ StartDaemon \/ ReconcileRun \/ ReconcileNotification \/ FinishReconciliation
  \/ OrphanRun \/ Listen

Next ==
  \/ \E a \in Caller : StartCall(a)
  \/ \E a \in Actor : UnderRunLock(a) \/ UnderNoteLock(a) \/ RemoveRunDir(a) \/ Throw(a)
  \/ Startup
  \/ Crash

Spec == Init /\ [][Next]_vars
-----------------------------------------------------------------------------
(* A run's outcome never changes: whatever calls overlap, crash or fail,    *)
(* a terminal meta.json is only ever followed by the pruning of the run     *)
(* (markTerminal's early return and updateMeta's read-modify-write, both    *)
(* under the run lock).                                                     *)
TerminalIsForever ==
  [][\A r \in Run : Terminal(status[r]) => status'[r] \in {status[r], "pruned"}]_vars

(* result.json agrees with meta.json as soon as the latter is terminal,     *)
(* also when a killed daemon left the result of an end that never was.      *)
ResultMatchesStatus ==
  \A r \in Run : Terminal(status[r]) => result[r] = ResultFor(status[r])

(* The journal holds at most one terminal notification per run (the         *)
(* sentinel file, the notification lock, and the reconciliation at start).  *)
OneTerminalNotification ==
  \A m, n \in journal :
    m.run = n.run /\ m.kind = "terminal" /\ n.kind = "terminal" => m = n

(* What a terminal notification says is what meta.json says. *)
NotificationTellsOutcome ==
  \A m \in journal :
    m.kind = "terminal" => status[m.run] \in {m.status, "pruned"}

(* Every end is published once, and as what it was. *)
AnnouncedOnceAndTruly == OneTerminalNotification /\ NotificationTellsOutcome

(* The journal's lines carry ever increasing numbers, which is what a       *)
(* client's cursor (since_notification_id) relies on.                       *)
JournalIsOrdered ==
  \A m, n \in journal : m.at < n.at => m.seq < n.seq

(* The line is in the memory of the call that is rewriting the journal. *)
Rewritten(r, k) ==
  \E a \in Actor : At(a, "pr_write") /\ \E m \in rewrite[a] : m.run = r /\ m.kind = k

(* A sentinel vouches for a line of the journal, also while another run's   *)
(* lines are pruned, as long as no call is killed or fails half way.        *)
SentinelHasLine ==
  \A r \in Run : \A k \in sentinel[r] :
    Journalled(r, k) \/ Rewritten(r, k) \/ Dooming(r)

(* The journal holds at most one fatal_error notification per run. *)
OneFatalNotification ==
  \A m, n \in journal :
    m.run = n.run /\ m.kind = "fatal_error" /\ n.kind = "fatal_error" => m = n

(* The store implements the lifecycle: announced means a terminal line was  *)
(* ever appended for the run.                                               *)
Lifecycle == INSTANCE RunLifecycle WITH
  Outcome <- TerminalStatus,
  phase <- status,
  announced <- [r \in Run |-> \E m \in issued : m.run = r /\ m.kind = "terminal"]

ImplementsLifecycle == Lifecycle!LifecycleSpec

(* Every terminal run is announced in the end, if the calls in progress and *)
(* the daemon's start go on and a killed daemon is started again, except    *)
(* that after a failing call nobody tries again before the next start.      *)
Fairness ==
  /\ WF_vars(Startup)
  /\ \A a \in Actor : WF_vars(UnderRunLock(a)) /\ SF_vars(UnderNoteLock(a))

FairSpec == Spec /\ Fairness

EveryEndAnnounced ==
  \A r \in Run : Terminal(status[r]) ~> "terminal" \in sentinel[r] \/ thrown
=============================================================================
