---------------------------- MODULE RunStoreInv ----------------------------
(***************************************************************************)
(* The inductive invariant behind the safety of RunStore: who holds which  *)
(* lock at which step, which runs a call may be working on, and what a     *)
(* call that is half way through knows about the files.                    *)
(***************************************************************************)
EXTENDS RunStore

(* The steps at which a call owns its run's lock, or the journal's. *)
RunSteps == {"mt_load", "mt_result", "mt_meta", "mt_event", "um_load", "um_meta",
             "ru_unlock"}
NoteSteps == {"nt_check", "nt_read", "nt_append", "nt_seq", "nt_sentinel", "nt_unlock",
              "ak_write", "pr_truncate", "pr_write", "pr_acks"}

PublishSteps == {"nt_lock", "nt_check", "nt_read", "nt_append", "nt_seq", "nt_sentinel"}
BootSteps == {"idle", "bt_scan", "bt_check", "bt_orphan", "mt_lock", "mt_load",
              "mt_result", "mt_meta", "mt_event", "ru_unlock", "nt_unlock"}
             \cup PublishSteps

(* A call inside a locked section owns the lock, and a run's lock is owned  *)
(* only by a call inside one.                                               *)
CallsOwnLocks ==
  /\ \A a \in Actor : pc[a] \in RunSteps => HoldsRun(a)
  /\ \A a \in Actor : pc[a] \in NoteSteps => noteLock = a
  /\ \A a \in Actor, r \in Run :
       runLock[r] = a => target[a] = r /\ pc[a] \in RunSteps \cup PublishSteps \cup {"nt_unlock"}

(* The daemon starts alone, and prunes only while it serves. *)
BootIsAlone ==
  /\ pc[Boot] \in BootSteps
  /\ pc[Boot] # "idle" <=> daemon = "booting"
  /\ \A c \in Caller : pc[c] # "idle" => daemon = "up" /\ pc[c] \notin {"bt_scan", "bt_check", "bt_orphan"}
  /\ \A a \in Actor : doomed[a] # {} \/ rewrite[a] # {} => daemon = "up" /\ a # Boot
  /\ scan # {} => daemon = "booting"
  /\ \A r \in scan : Readable(r)

(* A call works on a run that exists and that nobody prunes; a pruned run   *)
(* was terminal.                                                            *)
CallsOnReadableRuns ==
  /\ \A a \in Actor :
       pc[a] \in RunSteps \cup PublishSteps \cup {"mt_lock", "um_lock", "bt_check"}
         => target[a] \in Run
  /\ \A a \in Actor :
       target[a] \in Run =>
         Readable(target[a]) /\ \A b \in Actor : target[a] \notin doomed[b]
  /\ \A a \in Actor : \A r \in doomed[a] : Terminal(status[r]) \/ status[r] = "pruned"

(* What a call that is half way through knows of the files of its run. *)
KnowsItsRun(a) ==
  /\ pc[a] \in {"mt_lock", "mt_load", "mt_result", "mt_meta"} => Terminal(intent[a].status)
  /\ pc[a] \in {"mt_result", "mt_meta"} => status[target[a]] = "running"
  /\ pc[a] = "mt_meta" => result[target[a]] = ResultFor(intent[a].status)
  /\ pc[a] = "mt_event" => Terminal(status[target[a]])
  /\ pc[a] = "um_meta" => copy[a].status = status[target[a]]
  /\ pc[a] \notin PublishSteps \cup {"nt_unlock", "bt_check"} => todo[a] = {}
  /\ todo[a] # {} => target[a] \in Run
  /\ "terminal" \in todo[a] =>
       /\ Terminal(status[target[a]])
       /\ a = Boot \/ HoldsRun(a)

CallsKnowTheirRun == \A a \in Actor : KnowsItsRun(a)

(* A call that has the terminal notification of its run still to append. *)
Unpublished(a) ==
  \/ pc[a] = "mt_event"
  \/ /\ "terminal" \in todo[a]
     /\ \/ pc[a] \in {"nt_lock", "nt_check", "nt_read", "nt_append"}
        \/ pc[a] \in {"nt_seq", "nt_sentinel", "nt_unlock"} /\ Current(a) # "terminal"

TerminalLines(lines, r) == {m \in lines : m.kind = "terminal" /\ m.run = r}

(* The lines of the journal, also those a pruning call is about to write    *)
(* back: one terminal line per run, none while one is still to be appended. *)
LinesTellTheTruth ==
  /\ journal \subseteq issued
  /\ \A a \in Actor : rewrite[a] \subseteq issued
  /\ \A m \in issued :
       m.kind = "terminal" => Terminal(m.status) /\ status[m.run] \in {m.status, "pruned"}
  /\ \A m, n \in journal :
       m.run = n.run /\ m.kind = "terminal" /\ n.kind = "terminal" => m = n
  /\ \A a \in Actor : \A m, n \in rewrite[a] :
       m.run = n.run /\ m.kind = "terminal" /\ n.kind = "terminal" => m = n
  /\ \A a \in Actor : Unpublished(a) =>
       /\ TerminalLines(journal, target[a]) = {}
       /\ \A b \in Actor : TerminalLines(rewrite[b], target[a]) = {}

(* Lines are numbered upwards, and a chosen number is above all of them. *)
NumbersGoUp ==
  /\ \A m \in issued : m.at <= Cardinality(issued)
  /\ \A m, n \in issued : m.at = n.at => m = n
  /\ \A m, n \in journal : m.at < n.at => m.seq < n.seq
  /\ \A a \in Actor : \A m, n \in rewrite[a] : m.at < n.at => m.seq < n.seq
  /\ \A a \in Actor : pc[a] = "nt_append" => \A m \in journal : m.seq < number[a]

StoreInvariant ==
  /\ TypeOK
  /\ CallsOwnLocks
  /\ BootIsAlone
  /\ CallsOnReadableRuns
  /\ CallsKnowTheirRun
  /\ LinesTellTheTruth
  /\ NumbersGoUp
  /\ ResultMatchesStatus
-----------------------------------------------------------------------------
(* What holds in addition as long as no call was killed or failed half way. *)

Undisturbed == crashes = 0 /\ throws = 0

(* The journal's lines, while it is rewritten those in the call's memory. *)
Recorded ==
  {m \in issued : m \in journal \/ \E a \in Actor : pc[a] = "pr_write" /\ m \in rewrite[a]}

RecordedFor(r, k) == \E m \in Recorded : m.run = r /\ m.kind = k

(* The call has appended the line and has its sentinel still to write. *)
AppendSteps == {"nt_seq", "nt_sentinel"}
Vouching(a, r, k) == pc[a] \in AppendSteps /\ target[a] = r /\ Current(a) = k

(* The only start of the daemon finds an empty store. *)
StartFindsNothing ==
  /\ pc[Boot] \in {"idle", "bt_scan", "bt_orphan"} /\ target[Boot] = NoRun
  /\ daemon # "up" => issued = {} /\ scan = {} /\ \A r \in Run : status[r] = "absent"

(* A run without a directory has no sentinels; the directories are gone     *)
(* before the journal is rewritten, which is empty meanwhile.               *)
PruningIsOrdered ==
  /\ \A r \in Run : ~Readable(r) => sentinel[r] = {}
  /\ \A a \in Actor : pc[a] # "pr_rm" => \A r \in doomed[a] : status[r] = "pruned"
  /\ \A a \in Actor : pc[a] = "pr_write" => journal = {}

(* Sentinels and lines vouch for each other. *)
SentinelsAreBacked ==
  \A r \in Run : \A k \in sentinel[r] : RecordedFor(r, k) \/ Dooming(r)
LinesAreMarked ==
  \A m \in Recorded :
    \/ status[m.run] = "pruned"
    \/ m.kind \in sentinel[m.run]
    \/ \E a \in Actor : Vouching(a, m.run, m.kind)
OneLinePerKind ==
  \A m, n \in Recorded : m.run = n.run /\ m.kind = n.kind => m = n
PublishersAreRight ==
  \A a \in Actor :
    /\ pc[a] \in {"nt_read", "nt_append"} => Current(a) \notin sentinel[target[a]]
    /\ pc[a] \in AppendSteps => RecordedFor(target[a], Current(a))

SentinelInvariant ==
  Undisturbed =>
    /\ StartFindsNothing
    /\ PruningIsOrdered
    /\ SentinelsAreBacked
    /\ LinesAreMarked
    /\ OneLinePerKind
    /\ PublishersAreRight
=============================================================================
