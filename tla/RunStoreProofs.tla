--------------------------- MODULE RunStoreProofs ---------------------------
(***************************************************************************)
(* Theorems about RunStore, for every set of runs and of calls and every   *)
(* number of crashes and failures.                                         *)
(***************************************************************************)
EXTENDS RunStoreInv, FiniteSetTheorems, TLAPS

LEMMA ActorType == Boot \in Actor /\ Caller \subseteq Actor /\ Pruner \subseteq Actor
BY RunStoreAssumption DEF Actor

(* Every variable keeps its type. *)
LEMMA TypeInit == Init => TypeOK
<1> SUFFICES ASSUME Init PROVE TypeOK
  OBVIOUS
<1>1. IsFiniteSet(issued)
  BY FS_EmptySet DEF Init
<1>2. /\ status \in [Run -> Status]
      /\ fatal \in [Run -> BOOLEAN]
      /\ result \in [Run -> {"none", "completed", "failed"}]
      /\ closed \in [Run -> BOOLEAN]
      /\ sentinel \in [Run -> SUBSET Kind]
  BY DEF Init, Status
<1>3. /\ runLock \in [Run -> Actor \cup {Free, Stale}]
      /\ noteLock \in Actor \cup {Free, Stale}
      /\ pc \in [Actor -> Step]
      /\ target \in [Actor -> Run \cup {NoRun}]
  BY DEF Init, Step
<1>4. /\ intent \in [Actor -> Intent]
      /\ copy \in [Actor -> [status : Status, fatal : BOOLEAN]]
  BY DEF Init, Intent, NoIntent, NoCopy, Status
<1>5. /\ todo \in [Actor -> SUBSET Kind]
      /\ doomed \in [Actor -> SUBSET Run]
      /\ rewrite \in [Actor -> SUBSET Line]
  BY DEF Init
<1> QED
  BY <1>1, <1>2, <1>3, <1>4, <1>5 DEF Init, TypeOK

LEMMA TypeBegin ==
  ASSUME TypeOK, NEW a \in Caller, NEW r \in Run, NEW step \in Step, NEW i \in Intent,
         NEW kinds \in SUBSET Kind, Begin(a, r, step, i, kinds)
  PROVE  TypeOK'
BY ActorType DEF TypeOK, Begin, Goto, files, notes, locks, local, budget

LEMMA TypeStartCall ==
  ASSUME TypeOK, NEW a \in Caller, StartCall(a)
  PROVE  TypeOK'
<1> USE ActorType
<1>1. CASE Ack(a)
  BY <1>1 DEF TypeOK, Ack, Goto, Step, files, notes, locks, call, local, budget
<1>2. CASE PruneTerminalRuns(a)
  BY <1>2 DEF TypeOK, PruneTerminalRuns, Goto, Step, files, notes, locks, call, budget
<1>3. ASSUME NEW r \in Run, CreateRun(a, r) PROVE TypeOK'
  BY <1>3 DEF TypeOK, CreateRun, Status, notes, locks, call, local, budget
<1>4. /\ "mt_lock" \in Step /\ "um_lock" \in Step /\ "nt_lock" \in Step
      /\ {} \in SUBSET Kind /\ {"fatal_error"} \in SUBSET Kind
      /\ NoIntent \in Intent
  BY DEF Step, Kind, NoIntent, Intent
<1>5. \A s \in Outcome \cup {"running"}, e \in {"keep"} \cup Error :
        [status |-> s, error |-> e] \in Intent
  BY RunStoreAssumption DEF Intent
<1>6. ASSUME NEW r \in Run, MarkTerminal(a, r) PROVE TypeOK'
  <2>1. PICK o \in Outcome, e \in {"keep"} \cup Error :
          Begin(a, r, "mt_lock", [status |-> o, error |-> e], {})
    BY <1>6 DEF MarkTerminal
  <2> QED
    BY <1>4, <1>5, <2>1, TypeBegin
<1>7. ASSUME NEW r \in Run, UpdateMeta(a, r) PROVE TypeOK'
  BY <1>4, <1>7, TypeBegin DEF UpdateMeta
<1>8. ASSUME NEW r \in Run, RecordError(a, r) PROVE TypeOK'
  <2>1. PICK e \in Error : Begin(a, r, "um_lock", [status |-> "running", error |-> e], {})
    BY <1>8 DEF RecordError
  <2> QED
    BY <1>4, <1>5, <2>1, TypeBegin
<1>9. ASSUME NEW r \in Run, NotifyFatal(a, r) PROVE TypeOK'
  BY <1>4, <1>9, TypeBegin DEF NotifyFatal
<1> QED
  BY <1>1, <1>2, <1>3, <1>6, <1>7, <1>8, <1>9 DEF StartCall

LEMMA TypeUnderRunLock ==
  ASSUME TypeOK, NEW a \in Actor, target[a] \in Run, UnderRunLock(a)
  PROVE  TypeOK'
<1> USE ActorType DEF TypeOK, Goto, Step
<1>1. CASE AcquireRunLock(a)
  BY <1>1 DEF AcquireRunLock, RunLockFree, files, notes, call, local, budget
<1>2. CASE BreakStaleRunLock(a)
  BY <1>2 DEF BreakStaleRunLock, files, notes, call, local, budget
<1>3. CASE ReleaseRunLock(a)
  BY <1>3 DEF ReleaseRunLock, Forget, Intent, NoIntent, NoCopy, Status,
              files, notes, local, budget
<1>4. CASE LoadForTerminal(a)
  BY <1>4 DEF LoadForTerminal, AfterLoad, files, notes, locks, local, budget
<1>5. CASE WriteResult(a)
  BY <1>5 DEF WriteResult, FinalResult, ResultFor, notes, locks, call, local, budget
<1>6. CASE WriteTerminalMeta(a)
  <2>1. NextFatal(a) \in BOOLEAN /\ intent[a].status \in Status
    BY DEF NextFatal, Intent, Status
  <2> QED
    BY <1>6, <2>1 DEF WriteTerminalMeta, notes, locks, call, local, budget
<1>7. CASE AppendTerminalEvent(a)
  BY <1>7 DEF AppendTerminalEvent, EndNotifications, Kind, notes, locks, call, local, budget
<1>8. CASE LoadForUpdate(a)
  BY <1>8 DEF LoadForUpdate, files, notes, locks, local, budget
<1>9. CASE WriteUpdatedMeta(a)
  <2>1. NextFatal(a) \in BOOLEAN /\ copy[a].status \in Status
    BY DEF NextFatal
  <2> QED
    BY <1>9, <2>1 DEF WriteUpdatedMeta, notes, locks, call, local, budget
<1> QED
  BY <1>1, <1>2, <1>3, <1>4, <1>5, <1>6, <1>7, <1>8, <1>9 DEF UnderRunLock

LEMMA CurrentType == ASSUME NEW a PROVE Current(a) \in Kind
BY DEF Current, Kind

LEMMA EndNotificationsType == ASSUME NEW f PROVE EndNotifications(f) \in SUBSET Kind
BY DEF EndNotifications, Kind

LEMMA JournalSeqType == ASSUME TypeOK PROVE JournalSeq \subseteq Nat
BY DEF TypeOK, JournalSeq, Line

LEMMA TypeUnderNoteLock ==
  ASSUME TypeOK, NEW a \in Actor, UnderNoteLock(a),
         At(a, "nt_append") \/ At(a, "nt_sentinel") => target[a] \in Run
  PROVE  TypeOK'
<1> USE ActorType DEF TypeOK, Goto, Step
<1>1. CASE AcquireNoteLock(a)
  BY <1>1 DEF AcquireNoteLock, AfterLock, files, notes, call, local, budget
<1>2. CASE BreakStaleNoteLock(a)
  BY <1>2 DEF BreakStaleNoteLock, files, notes, call, local, budget
<1>3. CASE ReleaseNoteLock(a)
  <2>1. todo' \in [Actor -> SUBSET Kind] /\ pc' \in [Actor -> Step]
    BY <1>3 DEF ReleaseNoteLock, Remaining
  <2>2. UNCHANGED call \/ Forget(a)
    BY <1>3 DEF ReleaseNoteLock
  <2>3. /\ target' \in [Actor -> Run \cup {NoRun}]
        /\ intent' \in [Actor -> Intent]
        /\ copy' \in [Actor -> [status : Status, fatal : BOOLEAN]]
    <3>1. CASE UNCHANGED call
      BY <3>1 DEF call
    <3>2. CASE Forget(a)
      BY <3>2 DEF Forget, Intent, NoIntent, NoCopy, Status
    <3> QED
      BY <2>2, <3>1, <3>2
  <2> QED
    BY <1>3, <2>1, <2>3 DEF ReleaseNoteLock, files, notes, budget
<1>4. CASE CheckSentinel(a)
  BY <1>4 DEF CheckSentinel, AfterCheck, files, notes, locks, call, local, budget
<1>5. CASE AppendNotification(a)
  <2>1. Cardinality(issued) \in Nat
    BY FS_CardinalityType
  <2>2. target[a] \in Run
    BY <1>5 DEF AppendNotification
  <2>3. NewLine(a) \in Line
    BY <2>1, <2>2, CurrentType DEF NewLine, StatusSeen, Line, Status
  <2>4. IsFiniteSet(issued')
    BY <1>5, FS_AddElement DEF AppendNotification
  <2> QED
    BY <1>5, <2>3, <2>4 DEF AppendNotification, files, locks, call, local, budget
<1>6. CASE WriteNotificationSeq(a)
  BY <1>6 DEF WriteNotificationSeq, files, locks, call, budget
<1>7. CASE WriteSentinel(a)
  BY <1>7, CurrentType DEF WriteSentinel, notes, locks, call, local, budget
<1>8. CASE WriteAck(a)
  BY <1>8 DEF WriteAck, Line, files, locks, call, local, budget
<1>9. CASE TruncateJournal(a)
  BY <1>9 DEF TruncateJournal, files, locks, call, budget
<1>10. CASE WriteKeptJournal(a)
  BY <1>10 DEF WriteKeptJournal, KeptLines, files, locks, call, local, budget
<1>11. CASE WriteKeptAcks(a)
  BY <1>11 DEF WriteKeptAcks, files, locks, call, local, budget
<1>12. CASE ReadSequence(a)
  <2>1. NextNotificationSequence \subseteq Nat
    BY JournalSeqType DEF NextNotificationSequence
  <2> QED
    BY <1>12, <2>1 DEF ReadSequence, files, notes, locks, call, budget
<1> QED
  BY <1>1, <1>2, <1>3, <1>4, <1>5, <1>6, <1>7, <1>8, <1>9, <1>10, <1>11, <1>12
     DEF UnderNoteLock

LEMMA TypeStartup ==
  ASSUME TypeOK, Startup, At(Boot, "bt_check") => target[Boot] \in Run
  PROVE  TypeOK'
<1> USE ActorType DEF TypeOK, Goto, Step
<1>1. CASE StartDaemon
  BY <1>1 DEF StartDaemon, RunDirs, files, notes, locks, call, local
<1>2. CASE ReconcileRun
  <2>1. \A r : EndNotifications(fatal[r]) \in SUBSET Kind
    BY EndNotificationsType
  <2>2. target' \in [Actor -> Run \cup {NoRun}]
    BY <1>2, SMTT(30) DEF ReconcileRun
  <2>3. todo' \in [Actor -> SUBSET Kind]
    BY <1>2, <2>1, SMTT(30) DEF ReconcileRun
  <2>4. pc' \in [Actor -> Step]
    BY <1>2, SMTT(30) DEF ReconcileRun
  <2>5. scan' \subseteq Run
    BY <1>2 DEF ReconcileRun
  <2> QED
    BY <1>2, <2>2, <2>3, <2>4, <2>5 DEF ReconcileRun, files, notes, locks, local, budget
<1>3. CASE ReconcileNotification
  <2>1. Current(Boot) \in Kind
    BY CurrentType
  <2>2. target[Boot] \in Run
    BY <1>3 DEF ReconcileNotification
  <2>3. sentinel' \in [Run -> SUBSET Kind]
    <3>1. \/ sentinel' = [sentinel EXCEPT ![target[Boot]] = @ \cup {Current(Boot)}]
          \/ sentinel' = sentinel
      BY <1>3, Zenon DEF ReconcileNotification
    <3>2. sentinel[target[Boot]] \cup {Current(Boot)} \in SUBSET Kind
      BY <2>1, <2>2
    <3>3. CASE sentinel' = sentinel
      BY <3>3
    <3>4. CASE sentinel' = [sentinel EXCEPT ![target[Boot]] = @ \cup {Current(Boot)}]
      BY <2>2, <3>2, <3>4
    <3> QED
      BY <3>1, <3>3, <3>4
  <2>4. todo' \in [Actor -> SUBSET Kind]
    <3>1. todo' = [todo EXCEPT ![Boot] = Remaining(Boot)] \/ todo' = todo
      BY <1>3, Zenon DEF ReconcileNotification
    <3> QED
      BY <3>1 DEF Remaining
  <2>5. pc' \in [Actor -> Step]
    BY <1>3 DEF ReconcileNotification
  <2> QED
    BY <1>3, <2>3, <2>4, <2>5 DEF ReconcileNotification, notes, locks, call, local, budget
<1>4. CASE FinishReconciliation
  BY <1>4 DEF FinishReconciliation, UnfinishedRuns, files, notes, locks, local, budget
<1>5. CASE OrphanRun
  BY <1>5 DEF OrphanRun, Intent, TerminalStatus, files, notes, locks, local, budget
<1>6. CASE Listen
  BY <1>6 DEF Listen, files, notes, locks, call, local, budget
<1> QED
  BY <1>1, <1>2, <1>3, <1>4, <1>5, <1>6 DEF Startup

LEMMA TypeRemoveRunDir ==
  ASSUME TypeOK, NEW a \in Actor, RemoveRunDir(a)
  PROVE  TypeOK'
BY DEF TypeOK, RemoveRunDir, Goto, Step, Status, notes, call, local, budget

LEMMA TypeThrow ==
  ASSUME TypeOK, NEW a \in Actor, Throw(a)
  PROVE  TypeOK'
<1> USE ActorType DEF TypeOK, Goto, Step
<1>1. /\ target' \in [Actor -> Run \cup {NoRun}]
      /\ intent' \in [Actor -> Intent]
      /\ copy' \in [Actor -> [status : Status, fatal : BOOLEAN]]
  BY DEF Throw, Forget, Intent, NoIntent, NoCopy, Status
<1>2. pc' \in [Actor -> Step]
  <2>1. \/ pc' = [pc EXCEPT ![a] = "idle"]
        \/ pc' = [pc EXCEPT ![Boot] = "bt_orphan"]
        \/ pc' = [pc EXCEPT ![Boot] = "idle"]
    BY DEF Throw
  <2> QED
    BY <2>1
<1>3. daemon' \in {daemon, "down"} /\ scan' \in {scan, {}}
  BY DEF Throw
<1> QED
  BY <1>1, <1>2, <1>3 DEF Throw, files, notes

LEMMA TypeCrash ==
  ASSUME TypeOK, Crash
  PROVE  TypeOK'
<1> USE DEF TypeOK
<1>1. /\ target' \in [Actor -> Run \cup {NoRun}]
      /\ intent' \in [Actor -> Intent]
      /\ copy' \in [Actor -> [status : Status, fatal : BOOLEAN]]
  BY DEF Crash, Intent, NoIntent, NoCopy, Status
<1> QED
  BY <1>1 DEF Crash, Step, files, notes

LEMMA TypeNext == StoreInvariant /\ [Next]_vars => TypeOK'
<1> SUFFICES ASSUME StoreInvariant, [Next]_vars PROVE TypeOK'
  OBVIOUS
<1>1. \A a \in Actor : pc[a] \in RunSteps \cup PublishSteps \cup {"mt_lock", "um_lock", "bt_check"}
                       => target[a] \in Run
  BY DEF StoreInvariant, CallsOnReadableRuns
<1> USE DEF StoreInvariant
<1>2. ASSUME NEW a \in Actor, UnderRunLock(a) PROVE TypeOK'
  <2>1. pc[a] \in RunSteps \cup {"mt_lock", "um_lock"}
    BY <1>2 DEF RunSteps, UnderRunLock, At, AcquireRunLock, RunLockFree, BreakStaleRunLock,
       ReleaseRunLock,
       LoadForTerminal, AfterLoad, WriteResult, FinalResult, WriteTerminalMeta, AppendTerminalEvent, LoadForUpdate,
       WriteUpdatedMeta
  <2> QED
    BY <1>1, <1>2, <2>1, TypeUnderRunLock
<1>3. ASSUME NEW a \in Actor, UnderNoteLock(a) PROVE TypeOK'
  BY <1>1, <1>3, TypeUnderNoteLock DEF PublishSteps, At
<1>4. CASE Startup
  BY <1>1, <1>4, ActorType, TypeStartup DEF At
<1>5. CASE UNCHANGED vars
  BY <1>5 DEF TypeOK, vars, files, notes, locks, call, local, budget
<1> QED
  BY <1>2, <1>3, <1>4, <1>5, TypeStartCall, TypeRemoveRunDir, TypeThrow, TypeCrash
     DEF Next
-----------------------------------------------------------------------------
(* Every step of Next, as one disjunct per action. *)
LEMMA Steps ==
  ASSUME [Next]_vars
  PROVE  \/ \E a \in Caller : Ack(a) \/ PruneTerminalRuns(a)
         \/ \E a \in Caller, r \in Run : CreateRun(a, r)
         \/ \E a \in Caller, r \in Run, step \in {"mt_lock", "um_lock", "nt_lock"},
              i \in Intent, kinds \in SUBSET {"fatal_error"} :
                /\ Begin(a, r, step, i, kinds)
                /\ step = "mt_lock" => Terminal(i.status)
                /\ step # "nt_lock" => kinds = {}
         \/ \E a \in Actor : UnderRunLock(a)
         \/ \E a \in Actor : UnderNoteLock(a)
         \/ \E a \in Actor : RemoveRunDir(a)
         \/ \E a \in Actor : Throw(a)
         \/ Startup
         \/ Crash
         \/ UNCHANGED vars
<1> DEFINE Begun == \E a \in Caller, r \in Run, step \in {"mt_lock", "um_lock", "nt_lock"},
                      i \in Intent, kinds \in SUBSET {"fatal_error"} :
                        /\ Begin(a, r, step, i, kinds)
                        /\ step = "mt_lock" => Terminal(i.status)
                        /\ step # "nt_lock" => kinds = {}
<1>1. ASSUME NEW a \in Caller, NEW r \in Run, MarkTerminal(a, r) PROVE Begun
  <2>1. PICK o \in Outcome, e \in {"keep"} \cup Error :
          Begin(a, r, "mt_lock", [status |-> o, error |-> e], {})
    BY <1>1 DEF MarkTerminal
  <2>2. /\ [status |-> o, error |-> e] \in Intent
        /\ Terminal([status |-> o, error |-> e].status)
    BY RunStoreAssumption DEF Intent, Terminal
  <2> QED
    BY <2>1, <2>2
<1>2. ASSUME NEW a \in Caller, NEW r \in Run, UpdateMeta(a, r) PROVE Begun
  BY <1>2 DEF UpdateMeta, NoIntent, Intent
<1>3. ASSUME NEW a \in Caller, NEW r \in Run, RecordError(a, r) PROVE Begun
  <2>1. PICK e \in Error : Begin(a, r, "um_lock", [status |-> "running", error |-> e], {})
    BY <1>3 DEF RecordError
  <2>2. [status |-> "running", error |-> e] \in Intent
    BY RunStoreAssumption DEF Intent
  <2> QED
    BY <2>1, <2>2
<1>4. ASSUME NEW a \in Caller, NEW r \in Run, NotifyFatal(a, r) PROVE Begun
  BY <1>4 DEF NotifyFatal, NoIntent, Intent
<1> QED
  BY <1>1, <1>2, <1>3, <1>4 DEF Next, StartCall
-----------------------------------------------------------------------------
(* Locks: between taking a lock and giving it back no other call has it. *)
LEMMA LocksNext ==
  ASSUME StoreInvariant, [Next]_vars
  PROVE  CallsOwnLocks'
<1>1. /\ pc \in [Actor -> Step]
      /\ target \in [Actor -> Run \cup {NoRun}]
      /\ runLock \in [Run -> Actor \cup {Free, Stale}]
  BY DEF StoreInvariant, TypeOK
<1>2. /\ \A a \in Actor : a # Free /\ a # Stale
      /\ Free # Stale /\ Boot \in Actor /\ Caller \subseteq Actor /\ NoRun \notin Run
  BY RunStoreAssumption DEF Actor
<1>3. \A a \in Actor :
       pc[a] \in RunSteps \cup PublishSteps \cup {"mt_lock", "um_lock", "bt_check"}
         => target[a] \in Run
  BY DEF StoreInvariant, CallsOnReadableRuns
<1>4. CallsOwnLocks
  BY DEF StoreInvariant
<1> USE <1>1, <1>2, <1>3, <1>4
    DEF CallsOwnLocks, HoldsRun, At, Goto, RunSteps, NoteSteps, PublishSteps
<1>5. ASSUME NEW a \in Caller, Ack(a) \/ PruneTerminalRuns(a) PROVE CallsOwnLocks'
  BY <1>5 DEF Ack, PruneTerminalRuns, locks, call
<1>6. ASSUME NEW a \in Caller, NEW r \in Run, CreateRun(a, r) PROVE CallsOwnLocks'
  BY <1>6 DEF CreateRun, locks, call
<1>7. ASSUME NEW a \in Caller, NEW r \in Run, NEW step \in {"mt_lock", "um_lock", "nt_lock"},
             NEW i, NEW kinds, Begin(a, r, step, i, kinds)
      PROVE  CallsOwnLocks'
  BY <1>7 DEF Begin, Callable, locks
<1>8. ASSUME NEW a \in Actor, UnderRunLock(a) PROVE CallsOwnLocks'
  <2>1. CASE AcquireRunLock(a)
    BY <2>1 DEF AcquireRunLock, RunLockFree, call
  <2>2. CASE BreakStaleRunLock(a)
    BY <2>2 DEF BreakStaleRunLock, call
  <2>3. CASE ReleaseRunLock(a)
    BY <2>3 DEF ReleaseRunLock, Forget
  <2>4. CASE LoadForTerminal(a) \/ WriteResult(a) \/ WriteTerminalMeta(a)
    BY <2>4 DEF LoadForTerminal, AfterLoad, WriteResult, FinalResult, WriteTerminalMeta, locks, call
  <2>5. CASE AppendTerminalEvent(a) \/ LoadForUpdate(a) \/ WriteUpdatedMeta(a)
    BY <2>5 DEF AppendTerminalEvent, LoadForUpdate, WriteUpdatedMeta, locks, call
  <2> QED
    BY <1>8, <2>1, <2>2, <2>3, <2>4, <2>5 DEF UnderRunLock
<1>9. ASSUME NEW a \in Actor, UnderNoteLock(a) PROVE CallsOwnLocks'
  <2>1. CASE AcquireNoteLock(a)
    BY <2>1 DEF AcquireNoteLock, AfterLock, call
  <2>2. CASE BreakStaleNoteLock(a)
    BY <2>2 DEF BreakStaleNoteLock, call
  <2>3. CASE ReleaseNoteLock(a)
    <3>1. CASE UNCHANGED call
      BY <2>3, <3>1 DEF ReleaseNoteLock, Reconciling, call
    <3>2. CASE ~UNCHANGED call
      BY <2>3, <3>2 DEF ReleaseNoteLock, Forget
    <3> QED
      BY <3>1, <3>2
  <2>4. CASE CheckSentinel(a) \/ ReadSequence(a) \/ AppendNotification(a)
    BY <2>4 DEF CheckSentinel, AfterCheck, ReadSequence, AppendNotification, locks, call
  <2>5. CASE WriteNotificationSeq(a) \/ WriteSentinel(a) \/ WriteAck(a)
    BY <2>5 DEF WriteNotificationSeq, WriteSentinel, WriteAck, locks, call
  <2>6. CASE TruncateJournal(a) \/ WriteKeptJournal(a) \/ WriteKeptAcks(a)
    BY <2>6 DEF TruncateJournal, WriteKeptJournal, KeptLines, WriteKeptAcks, locks, call
  <2> QED
    BY <1>9, <2>1, <2>2, <2>3, <2>4, <2>5, <2>6 DEF UnderNoteLock
<1>10. ASSUME NEW a \in Actor, RemoveRunDir(a) PROVE CallsOwnLocks'
  <2>1. \A b \in Actor : target[b] \in Run => target[b] \notin doomed[a]
    BY DEF StoreInvariant, CallsOnReadableRuns
  <2> QED
    BY <1>10, <2>1 DEF RemoveRunDir, call
<1>11. ASSUME NEW a \in Actor, Throw(a) PROVE CallsOwnLocks'
  BY <1>11 DEF Throw, Forget
<1>12. CASE Startup
  <2>1. CASE StartDaemon
    <3>1. pc[Boot] = "idle"
      BY <2>1 DEF StartDaemon, RunDirs, StoreInvariant, BootIsAlone
    <3> QED
      BY <2>1, <3>1 DEF StartDaemon, RunDirs, locks, call
  <2>5. CASE FinishReconciliation
    BY <2>5 DEF FinishReconciliation, UnfinishedRuns, locks
  <2>2. CASE ReconcileRun
    BY <2>2 DEF ReconcileRun, locks
  <2>3. CASE ReconcileNotification
    BY <2>3 DEF ReconcileNotification, locks, call
  <2>4. CASE OrphanRun \/ Listen
    BY <2>4 DEF OrphanRun, Listen, locks, call
  <2> QED
    BY <1>12, <2>1, <2>2, <2>3, <2>4, <2>5 DEF Startup
<1>13. CASE Crash
  BY <1>13 DEF Crash
<1>14. CASE UNCHANGED vars
  BY <1>14 DEF vars, locks, call
<1> QED
  BY <1>5, <1>6, <1>7, <1>8, <1>9, <1>10, <1>11, <1>12, <1>13, <1>14, Steps
-----------------------------------------------------------------------------
(* The daemon starts alone: no call runs while it reconciles and orphans.  *)
LEMMA BootNext ==
  ASSUME StoreInvariant, [Next]_vars
  PROVE  BootIsAlone'
<1>1. /\ pc \in [Actor -> Step]
      /\ doomed \in [Actor -> SUBSET Run]
      /\ rewrite \in [Actor -> SUBSET Line]
      /\ scan \subseteq Run
      /\ daemon \in {"down", "booting", "up"}
  BY DEF StoreInvariant, TypeOK
<1>2. /\ Boot \in Actor /\ Boot \notin Caller
      /\ Actor = Caller \cup {Boot}
      /\ Pruner \subseteq Caller
  BY RunStoreAssumption DEF Actor
<1>3. BootIsAlone
  BY DEF StoreInvariant
<1> USE <1>1, <1>2, <1>3
    DEF BootIsAlone, At, Goto, BootSteps, PublishSteps, Readable
<1>5. ASSUME NEW a \in Caller, Ack(a) \/ PruneTerminalRuns(a) PROVE BootIsAlone'
  BY <1>5 DEF Ack, PruneTerminalRuns, files, local
<1>6. ASSUME NEW a \in Caller, NEW r \in Run, CreateRun(a, r) PROVE BootIsAlone'
  BY <1>6 DEF CreateRun, local
<1>7. ASSUME NEW a \in Caller, NEW r \in Run, NEW step \in {"mt_lock", "um_lock", "nt_lock"},
             NEW i, NEW kinds, Begin(a, r, step, i, kinds)
      PROVE  BootIsAlone'
  BY <1>7 DEF Begin, Callable, files, local
<1>8. ASSUME NEW a \in Actor, UnderRunLock(a) PROVE BootIsAlone'
  <2>1. CASE AcquireRunLock(a)
    BY <2>1 DEF AcquireRunLock, RunLockFree, files, local
  <2>2. CASE BreakStaleRunLock(a)
    BY <2>2 DEF BreakStaleRunLock, files, local
  <2>3. CASE ReleaseRunLock(a)
    BY <2>3 DEF ReleaseRunLock, files, local
  <2>4. CASE LoadForTerminal(a)
    BY <2>4 DEF LoadForTerminal, AfterLoad, files, local
  <2>5. CASE WriteResult(a)
    BY <2>5 DEF WriteResult, FinalResult, local
  <2>6. CASE WriteTerminalMeta(a)
    <3>1. Terminal(intent[a].status) /\ target[a] \in Run
      BY <2>6 DEF WriteTerminalMeta, StoreInvariant, CallsKnowTheirRun, KnowsItsRun,
         CallsOnReadableRuns, RunSteps
    <3>2. status \in [Run -> Status]
      BY DEF StoreInvariant, TypeOK
    <3> QED
      BY <2>6, <3>1, <3>2 DEF WriteTerminalMeta, Terminal, TerminalStatus, local
  <2>7. CASE AppendTerminalEvent(a)
    BY <2>7 DEF AppendTerminalEvent, local
  <2>8. CASE LoadForUpdate(a)
    BY <2>8 DEF LoadForUpdate, files, local
  <2>9. CASE WriteUpdatedMeta(a)
    <3>1. copy[a].status = status[target[a]] /\ target[a] \in Run
      BY <2>9 DEF WriteUpdatedMeta, StoreInvariant, CallsKnowTheirRun, KnowsItsRun,
         CallsOnReadableRuns, RunSteps
    <3>2. status \in [Run -> Status]
      BY DEF StoreInvariant, TypeOK
    <3> QED
      BY <2>9, <3>1, <3>2 DEF WriteUpdatedMeta, local
  <2> QED
    BY <1>8, <2>1, <2>2, <2>3, <2>4, <2>5, <2>6, <2>7, <2>8, <2>9 DEF UnderRunLock
<1>9. ASSUME NEW a \in Actor, UnderNoteLock(a) PROVE BootIsAlone'
  <2>1. CASE AcquireNoteLock(a)
    BY <2>1 DEF AcquireNoteLock, AfterLock, files, local
  <2>2. CASE BreakStaleNoteLock(a)
    BY <2>2 DEF BreakStaleNoteLock, files, local
  <2>3. CASE ReleaseNoteLock(a)
    <3>1. CASE a = Boot
      BY <2>3, <3>1 DEF ReleaseNoteLock, files
    <3>2. CASE a # Boot
      BY <2>3, <3>2 DEF ReleaseNoteLock, Reconciling, files
    <3> QED
      BY <3>1, <3>2
  <2>4. CASE CheckSentinel(a) \/ ReadSequence(a) \/ AppendNotification(a)
    BY <2>4 DEF CheckSentinel, AfterCheck, ReadSequence, AppendNotification, files, local
  <2>5. CASE WriteNotificationSeq(a) \/ WriteSentinel(a) \/ WriteAck(a)
    BY <2>5 DEF WriteNotificationSeq, WriteSentinel, WriteAck, files, local
  <2>6. CASE TruncateJournal(a)
    BY <2>6 DEF TruncateJournal, files
  <2>7. CASE WriteKeptJournal(a) \/ WriteKeptAcks(a)
    BY <2>7 DEF WriteKeptJournal, KeptLines, WriteKeptAcks, files, local
  <2> QED
    BY <1>9, <2>1, <2>2, <2>3, <2>4, <2>5, <2>6, <2>7 DEF UnderNoteLock
<1>10. ASSUME NEW a \in Actor, RemoveRunDir(a) PROVE BootIsAlone'
  BY <1>10 DEF RemoveRunDir, local
<1>11. ASSUME NEW a \in Actor, Throw(a) PROVE BootIsAlone'
  BY <1>11 DEF Throw, files
<1>12. CASE Startup
  <2>1. CASE StartDaemon
    BY <2>1 DEF StartDaemon, RunDirs, files, local
  <2>2. CASE ReconcileRun
    BY <2>2 DEF ReconcileRun, files, local
  <2>3. CASE ReconcileNotification
    BY <2>3 DEF ReconcileNotification, local
  <2>4. CASE FinishReconciliation
    BY <2>4 DEF FinishReconciliation, UnfinishedRuns, files, local
  <2>5. CASE OrphanRun
    BY <2>5 DEF OrphanRun, files, local
  <2>6. CASE Listen
    BY <2>6 DEF Listen, files, local
  <2> QED
    BY <1>12, <2>1, <2>2, <2>3, <2>4, <2>5, <2>6 DEF Startup
<1>13. CASE Crash
  BY <1>13 DEF Crash
<1>14. CASE UNCHANGED vars
  BY <1>14 DEF vars, files, local
<1> QED
  BY <1>5, <1>6, <1>7, <1>8, <1>9, <1>10, <1>11, <1>12, <1>13, <1>14, Steps
-----------------------------------------------------------------------------
(* How the store writes meta.json of an existing run: markTerminal turns a  *)
(* running run terminal, updateMeta writes the status it read.              *)
LEMMA StatusOfStep ==
  ASSUME StoreInvariant, [Next]_vars
  PROVE  \/ UNCHANGED status
         \/ \E r \in Run : /\ status[r] = "absent" /\ daemon = "up"
                          /\ status' = [status EXCEPT ![r] = "running"]
         \/ \E a \in Actor : WriteTerminalMeta(a)
         \/ \E a \in Actor : RemoveRunDir(a)
<1>1. ASSUME NEW a \in Actor, UnderRunLock(a), ~WriteTerminalMeta(a) PROVE UNCHANGED status
  <2>1. CASE WriteUpdatedMeta(a)
    <3>1. copy[a].status = status[target[a]] /\ target[a] \in Run
      BY <2>1 DEF WriteUpdatedMeta, At, StoreInvariant, CallsKnowTheirRun, KnowsItsRun,
         CallsOnReadableRuns, RunSteps
    <3>2. status \in [Run -> Status]
      BY DEF StoreInvariant, TypeOK
    <3> QED
      BY <2>1, <3>1, <3>2 DEF WriteUpdatedMeta
  <2> QED
    BY <1>1, <2>1 DEF UnderRunLock, AcquireRunLock, RunLockFree, BreakStaleRunLock, ReleaseRunLock,
       LoadForTerminal, AfterLoad, WriteResult, FinalResult, AppendTerminalEvent, LoadForUpdate, files
<1>2. ASSUME NEW a \in Actor, UnderNoteLock(a) PROVE UNCHANGED status
  BY <1>2 DEF UnderNoteLock, AcquireNoteLock, BreakStaleNoteLock, ReleaseNoteLock, CheckSentinel,
     AfterCheck,
     ReadSequence, AppendNotification, WriteNotificationSeq, WriteSentinel, WriteAck,
     TruncateJournal, WriteKeptJournal, KeptLines, WriteKeptAcks, files
<1>3. ASSUME Startup \/ Crash \/ UNCHANGED vars PROVE UNCHANGED status
  BY <1>3 DEF Startup, StartDaemon, RunDirs, ReconcileRun, ReconcileNotification,
     FinishReconciliation, UnfinishedRuns,
     OrphanRun, Listen, Crash, files, vars
<1>4. ASSUME NEW a \in Actor, Throw(a) PROVE UNCHANGED status
  BY <1>4 DEF Throw, files
<1>5. ASSUME NEW a \in Caller, Ack(a) \/ PruneTerminalRuns(a) PROVE UNCHANGED status
  BY <1>5 DEF Ack, PruneTerminalRuns, files
<1>6. ASSUME NEW a, NEW r, NEW step, NEW i, NEW kinds, Begin(a, r, step, i, kinds)
      PROVE  UNCHANGED status
  BY <1>6 DEF Begin, files
<1>7. ASSUME NEW a, NEW r \in Run, CreateRun(a, r)
      PROVE  \E q \in Run : /\ status[q] = "absent" /\ daemon = "up"
                          /\ status' = [status EXCEPT ![q] = "running"]
  BY <1>7 DEF CreateRun
<1> QED
  BY <1>1, <1>2, <1>3, <1>4, <1>5, <1>6, <1>7, Steps
-----------------------------------------------------------------------------
(* Calls work on runs that exist and are not being pruned. *)
LEMMA ReadableNext ==
  ASSUME StoreInvariant, [Next]_vars
  PROVE  CallsOnReadableRuns'
<1>1. /\ pc \in [Actor -> Step]
      /\ target \in [Actor -> Run \cup {NoRun}]
      /\ doomed \in [Actor -> SUBSET Run]
      /\ status \in [Run -> Status]
      /\ NoRun \notin Run
      /\ Boot \in Actor /\ Caller \subseteq Actor
  BY RunStoreAssumption DEF StoreInvariant, TypeOK, Actor
<1>2. /\ CallsOnReadableRuns
      /\ \A a \in Actor : doomed[a] # {} => daemon = "up" /\ a # Boot
      /\ pc[Boot] # "idle" => daemon = "booting"
      /\ \A r \in scan : Readable(r)
      /\ scan \subseteq Run
      /\ \A a \in Actor : pc[a] \in RunSteps => HoldsRun(a)
  BY DEF StoreInvariant, BootIsAlone, TypeOK, CallsOwnLocks
<1> DEFINE Working(a) == pc[a] \in RunSteps \cup PublishSteps \cup {"mt_lock", "um_lock", "bt_check"}
           OnRun == \A a \in Actor : Working(a) => target[a] \in Run
           Safe == \A a \in Actor : target[a] \in Run =>
                     Readable(target[a]) /\ \A b \in Actor : target[a] \notin doomed[b]
           Dead == \A a \in Actor : \A r \in doomed[a] : Terminal(status[r]) \/ status[r] = "pruned"
<1>3. OnRun /\ Safe /\ Dead
  BY <1>2 DEF CallsOnReadableRuns
<1>4. OnRun'
  <2> USE <1>1, <1>2, <1>3 DEF At, Goto, RunSteps, PublishSteps
  <2>1. ASSUME NEW a \in Caller, Ack(a) \/ PruneTerminalRuns(a) PROVE OnRun'
    BY <2>1 DEF Ack, PruneTerminalRuns, call
  <2>2. ASSUME NEW a \in Caller, NEW r \in Run, CreateRun(a, r) PROVE OnRun'
    BY <2>2 DEF CreateRun, call
  <2>3. ASSUME NEW a \in Caller, NEW r \in Run, NEW step \in {"mt_lock", "um_lock", "nt_lock"},
               NEW i, NEW kinds, Begin(a, r, step, i, kinds)
        PROVE  OnRun'
    BY <2>3 DEF Begin
  <2>4. ASSUME NEW a \in Actor, UnderRunLock(a) PROVE OnRun'
    <3>1. CASE ReleaseRunLock(a)
      BY <3>1 DEF ReleaseRunLock, Forget
    <3> QED
      BY <2>4, <3>1 DEF UnderRunLock, AcquireRunLock, RunLockFree, BreakStaleRunLock,
         LoadForTerminal, AfterLoad,
         WriteResult, FinalResult, WriteTerminalMeta, AppendTerminalEvent, LoadForUpdate, WriteUpdatedMeta, call
  <2>5. ASSUME NEW a \in Actor, UnderNoteLock(a) PROVE OnRun'
    <3>1. CASE ReleaseNoteLock(a)
      <4>1. Remaining(a) # {} => target[a] \in Run
        BY <3>1 DEF ReleaseNoteLock, Remaining, StoreInvariant, CallsKnowTheirRun, KnowsItsRun
      <4>2. CASE UNCHANGED call
        BY <3>1, <4>1, <4>2 DEF ReleaseNoteLock, HoldsRun, call
      <4>3. CASE ~UNCHANGED call
        BY <3>1, <4>3 DEF ReleaseNoteLock, Forget
      <4> QED
        BY <4>2, <4>3
    <3>2. CASE AcquireNoteLock(a)
      BY <3>2 DEF AcquireNoteLock, AfterLock, call
    <3> QED
      BY <2>5, <3>1, <3>2 DEF UnderNoteLock, BreakStaleNoteLock, CheckSentinel, AfterCheck,
         ReadSequence, AppendNotification, WriteNotificationSeq, WriteSentinel, WriteAck,
         TruncateJournal, WriteKeptJournal, KeptLines, WriteKeptAcks, call
  <2>6. ASSUME NEW a \in Actor, RemoveRunDir(a) PROVE OnRun'
    BY <2>6 DEF RemoveRunDir, call
  <2>7. ASSUME NEW a \in Actor, Throw(a) PROVE OnRun'
    BY <2>7 DEF Throw, Forget
  <2>8. CASE Startup
    <3>1. CASE ReconcileRun
      BY <3>1 DEF ReconcileRun
    <3>2. CASE OrphanRun
      BY <3>2 DEF OrphanRun
    <3>3. CASE FinishReconciliation
      BY <3>3 DEF FinishReconciliation, UnfinishedRuns
    <3>4. CASE StartDaemon \/ ReconcileNotification \/ Listen
      BY <3>4 DEF StartDaemon, RunDirs, ReconcileNotification, Listen, call
    <3> QED
      BY <2>8, <3>1, <3>2, <3>3, <3>4 DEF Startup
  <2>9. CASE Crash \/ UNCHANGED vars
    BY <2>9 DEF Crash, vars, call
  <2> QED
    BY <2>1, <2>2, <2>3, <2>4, <2>5, <2>6, <2>7, <2>8, <2>9, Steps
(* Which targets a step sets, and which runs it dooms. *)
<1>5. \/ \E a \in Caller, r \in Run :
            target' = [target EXCEPT ![a] = r] /\ UNCHANGED doomed /\ UNCHANGED status /\ Callable(a, r)
      \/ \E r \in scan :
            target' = [target EXCEPT ![Boot] = r] /\ UNCHANGED doomed /\ UNCHANGED status /\ daemon = "booting"
      \/ \E a \in Caller, old \in SUBSET Run :
            /\ target' = target /\ UNCHANGED status
            /\ doomed' = [doomed EXCEPT ![a] = old]
            /\ \A r \in old : Terminal(status[r]) /\ Quiet(r)
      \/ /\ \A a \in Actor : target'[a] \in {target[a], NoRun}
         /\ \A a \in Actor : doomed'[a] \subseteq doomed[a]
  <2> USE <1>1, <1>2
  <2>1. ASSUME NEW a \in Caller, Ack(a) PROVE target' = target /\ doomed' = doomed
    BY <2>1 DEF Ack, call, local
  <2>2. ASSUME NEW a \in Caller, PruneTerminalRuns(a)
        PROVE  \E old \in SUBSET Run :
                 /\ target' = target /\ UNCHANGED status
                 /\ doomed' = [doomed EXCEPT ![a] = old]
                 /\ \A r \in old : Terminal(status[r]) /\ Quiet(r)
    BY <2>2 DEF PruneTerminalRuns, call, files
  <2>3. ASSUME NEW a, NEW r, CreateRun(a, r) PROVE target' = target /\ doomed' = doomed
    BY <2>3 DEF CreateRun, call, local
  <2>4. ASSUME NEW a \in Caller, NEW r \in Run, NEW step, NEW i, NEW kinds,
               Begin(a, r, step, i, kinds)
        PROVE  target' = [target EXCEPT ![a] = r] /\ UNCHANGED doomed /\ UNCHANGED status /\ Callable(a, r)
    BY <2>4 DEF Begin, local, files
  <2>5. ASSUME NEW a \in Actor, UnderRunLock(a)
        PROVE  doomed' = doomed /\ \A b \in Actor : target'[b] \in {target[b], NoRun}
    <3>1. CASE ReleaseRunLock(a)
      BY <3>1 DEF ReleaseRunLock, Forget, local
    <3> QED
      BY <2>5, <3>1 DEF UnderRunLock, AcquireRunLock, RunLockFree, BreakStaleRunLock,
         LoadForTerminal, AfterLoad,
         WriteResult, FinalResult, WriteTerminalMeta, AppendTerminalEvent, LoadForUpdate, WriteUpdatedMeta,
         call, local
  <2>6. ASSUME NEW a \in Actor, UnderNoteLock(a)
        PROVE  /\ \A b \in Actor : target'[b] \in {target[b], NoRun}
               /\ \A b \in Actor : doomed'[b] \subseteq doomed[b]
    <3>1. CASE ReleaseNoteLock(a)
      BY <3>1 DEF ReleaseNoteLock, Forget, call
    <3> QED
      BY <2>6, <3>1 DEF UnderNoteLock, AcquireNoteLock, BreakStaleNoteLock, CheckSentinel,
         AfterCheck,
         ReadSequence, AppendNotification, WriteNotificationSeq, WriteSentinel, WriteAck,
         TruncateJournal, WriteKeptJournal, KeptLines, WriteKeptAcks, call, local
  <2>7. ASSUME NEW a \in Actor, RemoveRunDir(a) PROVE target' = target /\ doomed' = doomed
    BY <2>7 DEF RemoveRunDir, call, local
  <2>8. ASSUME NEW a \in Actor, Throw(a)
        PROVE  /\ \A b \in Actor : target'[b] \in {target[b], NoRun}
               /\ \A b \in Actor : doomed'[b] \subseteq doomed[b]
    BY <2>8 DEF Throw, Forget
  <2>9. CASE Startup
    <3>1. CASE ReconcileRun
      BY <3>1 DEF ReconcileRun, At, local, files
    <3>2. CASE OrphanRun
      BY <3>2 DEF OrphanRun, At, local, files
    <3>3. CASE FinishReconciliation
      BY <3>3 DEF FinishReconciliation, UnfinishedRuns, local
    <3>4. CASE StartDaemon \/ ReconcileNotification \/ Listen
      BY <3>4 DEF StartDaemon, RunDirs, ReconcileNotification, Listen, call, local
    <3> QED
      BY <2>9, <3>1, <3>2, <3>3, <3>4 DEF Startup
  <2>10. CASE Crash \/ UNCHANGED vars
    BY <2>10 DEF Crash, vars, call, local
  <2> QED
    BY <2>1, <2>2, <2>3, <2>4, <2>5, <2>6, <2>7, <2>8, <2>9, <2>10, Steps
<1>6. \/ UNCHANGED status
      \/ \E r \in Run : status[r] = "absent" /\ status' = [status EXCEPT ![r] = "running"]
      \/ \E a \in Actor : /\ target[a] \in Run /\ status[target[a]] = "running"
                          /\ Terminal(intent[a].status)
                          /\ status' = [status EXCEPT ![target[a]] = intent[a].status]
      \/ \E a \in Actor : \E r \in doomed[a] : status' = [status EXCEPT ![r] = "pruned"]
  <2>1. ASSUME NEW a \in Actor, WriteTerminalMeta(a)
        PROVE  /\ target[a] \in Run /\ status[target[a]] = "running"
               /\ Terminal(intent[a].status)
               /\ status' = [status EXCEPT ![target[a]] = intent[a].status]
    BY <2>1 DEF WriteTerminalMeta, At, StoreInvariant, CallsKnowTheirRun, KnowsItsRun,
       CallsOnReadableRuns, RunSteps
  <2>2. ASSUME NEW a \in Actor, RemoveRunDir(a)
        PROVE  \E r \in doomed[a] : status' = [status EXCEPT ![r] = "pruned"]
    BY <2>2 DEF RemoveRunDir
  <2> QED
    BY <2>1, <2>2, StatusOfStep
<1>7. \A r \in Run :
        /\ Readable(r) /\ (\A b \in Actor : r \notin doomed[b]) => Readable(r)'
        /\ Terminal(status[r]) \/ status[r] = "pruned" => Terminal(status'[r]) \/ status'[r] = "pruned"
  <2> USE <1>1 DEF Readable, Terminal, TerminalStatus
  <2>1. CASE \E a \in Actor : \E r \in doomed[a] : status' = [status EXCEPT ![r] = "pruned"]
    BY <2>1
  <2>2. CASE \E a \in Actor : /\ target[a] \in Run /\ status[target[a]] = "running"
                          /\ Terminal(intent[a].status)
                          /\ status' = [status EXCEPT ![target[a]] = intent[a].status]
    BY <2>2
  <2>3. CASE \E r \in Run : status[r] = "absent" /\ status' = [status EXCEPT ![r] = "running"]
    BY <2>3
  <2>4. CASE UNCHANGED status
    BY <2>4
  <2> QED
    BY <1>6, <2>1, <2>2, <2>3, <2>4
<1>8. Safe' /\ Dead'
  <2> USE <1>1, <1>3, <1>7
  <2>1. CASE \E a \in Caller, r \in Run :
               target' = [target EXCEPT ![a] = r] /\ UNCHANGED doomed /\ UNCHANGED status /\ Callable(a, r)
    BY <2>1 DEF Callable, Dooming
  <2>2. CASE \E r \in scan :
               target' = [target EXCEPT ![Boot] = r] /\ UNCHANGED doomed /\ UNCHANGED status /\ daemon = "booting"
    BY <1>2, <2>2
  <2>3. CASE \E a \in Caller, old \in SUBSET Run :
               /\ target' = target /\ UNCHANGED status
               /\ doomed' = [doomed EXCEPT ![a] = old]
               /\ \A r \in old : Terminal(status[r]) /\ Quiet(r)
    BY <2>3 DEF Quiet
  <2>4. CASE /\ \A a \in Actor : target'[a] \in {target[a], NoRun}
             /\ \A a \in Actor : doomed'[a] \subseteq doomed[a]
    BY <2>4
  <2> QED
    BY <1>5, <2>1, <2>2, <2>3, <2>4
<1> QED
  BY <1>4, <1>8 DEF CallsOnReadableRuns
-----------------------------------------------------------------------------
(* A call's knowledge of its run stays true: nobody else writes the files   *)
(* of a run whose lock the call owns.                                       *)
LEMMA KnowledgeNext ==
  ASSUME StoreInvariant, [Next]_vars
  PROVE  CallsKnowTheirRun' /\ ResultMatchesStatus'
<1>1. /\ pc \in [Actor -> Step]
      /\ target \in [Actor -> Run \cup {NoRun}]
      /\ status \in [Run -> Status]
      /\ result \in [Run -> {"none", "completed", "failed"}]
      /\ runLock \in [Run -> Actor \cup {Free, Stale}]
      /\ intent \in [Actor -> Intent]
      /\ copy \in [Actor -> [status : Status, fatal : BOOLEAN]]
      /\ todo \in [Actor -> SUBSET Kind]
      /\ NoRun \notin Run
  BY RunStoreAssumption DEF StoreInvariant, TypeOK
<1>2. /\ \A a \in Actor : a # Free /\ a # Stale
      /\ Free # Stale /\ Boot \in Actor /\ Caller \subseteq Actor
  BY RunStoreAssumption DEF Actor
<1>3. /\ \A a \in Actor : pc[a] \in RunSteps => target[a] \in Run /\ runLock[target[a]] = a
      /\ \A a \in Actor, r \in Run : runLock[r] = a =>
           target[a] = r /\ pc[a] \in RunSteps \cup PublishSteps \cup {"nt_unlock"}
  BY DEF StoreInvariant, CallsOwnLocks, HoldsRun
<1>4. /\ \A a \in Actor : pc[a] \in RunSteps \cup PublishSteps \cup {"mt_lock", "um_lock", "bt_check"}
                           => target[a] \in Run
      /\ \A a \in Actor : target[a] \in Run =>
           Readable(target[a]) /\ \A b \in Actor : target[a] \notin doomed[b]
  BY DEF StoreInvariant, CallsOnReadableRuns
<1>5. /\ CallsKnowTheirRun /\ ResultMatchesStatus
      /\ scan \subseteq Run /\ \A r \in scan : Readable(r)
  BY DEF StoreInvariant, TypeOK, BootIsAlone
<1>6. \A i \in Intent : i.status \in TerminalStatus \cup {"running"}
  BY DEF Intent
<1> USE <1>1, <1>2, <1>3, <1>4, <1>5
    DEF CallsKnowTheirRun, KnowsItsRun, ResultMatchesStatus, HoldsRun, At, Goto, RunSteps, PublishSteps
<1>7. ASSUME NEW a \in Caller, Ack(a) \/ PruneTerminalRuns(a)
      PROVE  CallsKnowTheirRun' /\ ResultMatchesStatus'
  BY <1>7 DEF Ack, PruneTerminalRuns, files, locks, call
<1>8. ASSUME NEW a \in Caller, NEW r \in Run, CreateRun(a, r)
      PROVE  CallsKnowTheirRun' /\ ResultMatchesStatus'
  BY <1>8 DEF CreateRun, locks, call, Readable, Terminal, TerminalStatus
<1>9. CASE \E a \in Caller, r \in Run, step \in {"mt_lock", "um_lock", "nt_lock"},
             i \in Intent, kinds \in SUBSET {"fatal_error"} :
               /\ Begin(a, r, step, i, kinds)
               /\ step = "mt_lock" => Terminal(i.status)
               /\ step # "nt_lock" => kinds = {}
  <2>1. PICK a \in Caller, r \in Run, step \in {"mt_lock", "um_lock", "nt_lock"},
             i \in Intent, kinds \in SUBSET {"fatal_error"} :
               /\ Begin(a, r, step, i, kinds)
               /\ step = "mt_lock" => Terminal(i.status)
               /\ step # "nt_lock" => kinds = {}
    BY <1>9
  <2>2. /\ pc' = [pc EXCEPT ![a] = step] /\ pc[a] = "idle"
        /\ target' = [target EXCEPT ![a] = r]
        /\ intent' = [intent EXCEPT ![a] = i]
        /\ todo' = [todo EXCEPT ![a] = kinds]
        /\ copy' = copy /\ status' = status /\ result' = result /\ runLock' = runLock
    BY <2>1 DEF Begin, Callable, files, locks
  <2>3. ResultMatchesStatus'
    BY <2>2
  <2>4. ASSUME NEW b \in Actor, b # a
        PROVE  /\ pc'[b] = pc[b] /\ target'[b] = target[b] /\ intent'[b] = intent[b]
               /\ todo'[b] = todo[b]
    BY <2>2, <2>4
  <2>5. /\ pc'[a] = step /\ target'[a] = r /\ intent'[a] = i /\ todo'[a] = kinds
        /\ "terminal" \notin kinds
    BY <2>2
  <2>6. ASSUME NEW b \in Actor, b # a PROVE KnowsItsRun(b)'
    BY <2>2, <2>4, <2>6
  <2>7. KnowsItsRun(a)'
    <3>1. CASE step = "mt_lock"
      <4>1. Terminal(i.status) /\ kinds = {}
        BY <2>1, <3>1
      <4> QED
        BY <2>5, <3>1, <4>1 DEF Terminal
    <3>2. CASE step = "um_lock"
      <4>1. kinds = {}
        BY <2>1, <3>2
      <4> QED
        BY <2>5, <3>2, <4>1
    <3>3. CASE step = "nt_lock"
      BY <2>5, <3>3
    <3> QED
      BY <3>1, <3>2, <3>3
  <2> QED
    BY <2>3, <2>6, <2>7
<1>10. ASSUME NEW a \in Actor, UnderRunLock(a) PROVE CallsKnowTheirRun' /\ ResultMatchesStatus'
  <2>1. CASE AcquireRunLock(a)
    BY <2>1 DEF AcquireRunLock, RunLockFree, files, call
  <2>2. CASE BreakStaleRunLock(a)
    BY <2>2 DEF BreakStaleRunLock, files, call
  <2>3. CASE ReleaseRunLock(a)
    BY <2>3 DEF ReleaseRunLock, Forget, files
  <2>4. CASE LoadForTerminal(a)
    BY <2>4 DEF LoadForTerminal, AfterLoad, files, locks, Readable, Terminal, Status
  <2>5. CASE WriteResult(a)
    BY <2>5 DEF WriteResult, FinalResult, locks, call, Terminal, TerminalStatus, ResultFor
  <2>6. CASE WriteTerminalMeta(a)
    BY <2>6 DEF WriteTerminalMeta, locks, call, Terminal, TerminalStatus
  <2>7. CASE AppendTerminalEvent(a)
    <3>1. \A f : EndNotifications(f) \in SUBSET Kind
      BY EndNotificationsType
    <3> QED
      BY <2>7, <3>1 DEF AppendTerminalEvent, locks, call
  <2>8. CASE LoadForUpdate(a)
    BY <2>8 DEF LoadForUpdate, files, locks
  <2>9. CASE WriteUpdatedMeta(a)
    <3>1. status' = status
      BY <2>9 DEF WriteUpdatedMeta
    <3> QED
      BY <2>9, <3>1 DEF WriteUpdatedMeta, locks, call
  <2> QED
    BY <1>10, <2>1, <2>2, <2>3, <2>4, <2>5, <2>6, <2>7, <2>8, <2>9 DEF UnderRunLock
<1>11. ASSUME NEW a \in Actor, UnderNoteLock(a) PROVE CallsKnowTheirRun' /\ ResultMatchesStatus'
  <2>1. CASE AcquireNoteLock(a) \/ BreakStaleNoteLock(a)
    BY <2>1 DEF AcquireNoteLock, AfterLock, BreakStaleNoteLock, files, call
  <2>2. CASE ReleaseNoteLock(a)
    <3>1. CASE UNCHANGED call
      BY <2>2, <3>1 DEF ReleaseNoteLock, Remaining, files, call
    <3>2. CASE ~UNCHANGED call
      BY <2>2, <3>2 DEF ReleaseNoteLock, Remaining, Forget, files
    <3> QED
      BY <3>1, <3>2
  <2>3. CASE CheckSentinel(a) \/ ReadSequence(a) \/ AppendNotification(a)
    BY <2>3, SMTT(30)
       DEF CheckSentinel, AfterCheck, ReadSequence, AppendNotification, files, locks, call
  <2>4. CASE WriteNotificationSeq(a) \/ WriteSentinel(a) \/ WriteAck(a)
    BY <2>4, SMTT(30) DEF WriteNotificationSeq, WriteSentinel, WriteAck, files, locks, call
  <2>5. CASE TruncateJournal(a) \/ WriteKeptJournal(a) \/ WriteKeptAcks(a)
    BY <2>5 DEF TruncateJournal, WriteKeptJournal, KeptLines, WriteKeptAcks, files, locks, call
  <2> QED
    BY <1>11, <2>1, <2>2, <2>3, <2>4, <2>5 DEF UnderNoteLock
<1>12. ASSUME NEW a \in Actor, RemoveRunDir(a) PROVE CallsKnowTheirRun' /\ ResultMatchesStatus'
  BY <1>12 DEF RemoveRunDir, call, Terminal, TerminalStatus
<1>13. ASSUME NEW a \in Actor, Throw(a) PROVE CallsKnowTheirRun' /\ ResultMatchesStatus'
  BY <1>13 DEF Throw, Forget, files
<1>14. CASE Startup
  <2>1. CASE StartDaemon
    <3>1. pc[Boot] = "idle"
      BY <2>1 DEF StartDaemon, RunDirs, StoreInvariant, BootIsAlone
    <3> QED
      BY <2>1, <3>1 DEF StartDaemon, RunDirs, files, locks, call
  <2>2. CASE ReconcileRun
    BY <2>2 DEF ReconcileRun, files, locks
  <2>3. CASE ReconcileNotification
    BY <2>3 DEF ReconcileNotification, Remaining, locks, call
  <2>4. CASE FinishReconciliation
    BY <2>4 DEF FinishReconciliation, UnfinishedRuns, files, locks
  <2>5. CASE OrphanRun
    BY <2>5 DEF OrphanRun, files, locks, Terminal, TerminalStatus
  <2>6. CASE Listen
    BY <2>6 DEF Listen, files, locks, call
  <2> QED
    BY <1>14, <2>1, <2>2, <2>3, <2>4, <2>5, <2>6 DEF Startup
<1>15. CASE Crash
  BY <1>15 DEF Crash, files
<1>16. CASE UNCHANGED vars
  BY <1>16 DEF vars, files, locks, call
<1> HIDE <1>1, <1>2, <1>3, <1>4, <1>5
    DEF CallsKnowTheirRun, KnowsItsRun, ResultMatchesStatus, HoldsRun, At, Goto, RunSteps, PublishSteps
<1> QED
  BY <1>7, <1>8, <1>9, <1>10, <1>11, <1>12, <1>13, <1>14, <1>15, <1>16, Steps
-----------------------------------------------------------------------------
(* What a step does to the journal and to the copies of it. *)
LEMMA JournalOfStep ==
  ASSUME StoreInvariant, [Next]_vars
  PROVE  \/ /\ journal' = journal /\ issued' = issued
            /\ \/ \A a \in Actor : rewrite'[a] \in {rewrite[a], {}}
               \/ \E a \in Actor : rewrite' = [rewrite EXCEPT ![a] = journal]
         \/ /\ journal' = {} /\ issued' = issued
            /\ \E a \in Actor : TruncateJournal(a) /\ rewrite' = [rewrite EXCEPT ![a] = journal]
         \/ /\ issued' = issued /\ rewrite' = rewrite
            /\ \E a \in Actor : WriteKeptJournal(a) /\ journal' \subseteq rewrite[a]
         \/ /\ rewrite' = rewrite
            /\ \E a \in Actor : AppendNotification(a)
<1>1. rewrite \in [Actor -> SUBSET Line] /\ Caller \subseteq Actor
  BY DEF StoreInvariant, TypeOK, Actor
<1> DEFINE Kept == /\ journal' = journal /\ issued' = issued
                   /\ \A a \in Actor : rewrite'[a] \in {rewrite[a], {}}
<1>2. ASSUME NEW a, Ack(a) \/ PruneTerminalRuns(a) PROVE Kept
  BY <1>2 DEF Ack, PruneTerminalRuns, notes, local
<1>3. ASSUME NEW a, NEW r, CreateRun(a, r) PROVE Kept
  BY <1>3 DEF CreateRun, notes, local
<1>4. ASSUME NEW a, NEW r, NEW step, NEW i, NEW kinds, Begin(a, r, step, i, kinds) PROVE Kept
  BY <1>4 DEF Begin, notes, local
<1>5. ASSUME NEW a \in Actor, UnderRunLock(a) PROVE Kept
  BY <1>5 DEF UnderRunLock, AcquireRunLock, RunLockFree, BreakStaleRunLock, ReleaseRunLock,
     LoadForTerminal, AfterLoad,
     WriteResult, FinalResult, WriteTerminalMeta, AppendTerminalEvent, LoadForUpdate, WriteUpdatedMeta,
     notes, local
<1>6. ASSUME NEW a \in Actor, UnderNoteLock(a), ~TruncateJournal(a), ~WriteKeptJournal(a),
             ~AppendNotification(a)
      PROVE  Kept
  <2>1. CASE ReleaseNoteLock(a)
    BY <1>1, <2>1 DEF ReleaseNoteLock, notes
  <2> QED
    BY <1>1, <1>6, <2>1 DEF UnderNoteLock, AcquireNoteLock, BreakStaleNoteLock, CheckSentinel,
       AfterCheck,
       ReadSequence, WriteNotificationSeq, WriteSentinel, WriteAck, WriteKeptAcks, notes, local
<1>7. ASSUME NEW a \in Actor, RemoveRunDir(a) PROVE Kept
  BY <1>7 DEF RemoveRunDir, notes, local
<1>8. ASSUME NEW a \in Actor, Throw(a) PROVE Kept
  BY <1>1, <1>8 DEF Throw, notes
<1>9. CASE Startup
  BY <1>9 DEF Startup, StartDaemon, RunDirs, ReconcileRun, ReconcileNotification,
     FinishReconciliation, UnfinishedRuns,
     OrphanRun, Listen, notes, local
<1>10. CASE Crash
  BY <1>10 DEF Crash, notes
<1>11. CASE UNCHANGED vars
  BY <1>11 DEF vars, notes, local
<1>12. ASSUME NEW a \in Actor, TruncateJournal(a)
       PROVE  journal' = {} /\ issued' = issued /\ rewrite' = [rewrite EXCEPT ![a] = journal]
  BY <1>12 DEF TruncateJournal
<1>13. ASSUME NEW a \in Actor, WriteKeptJournal(a)
       PROVE  issued' = issued /\ rewrite' = rewrite /\ journal' \subseteq rewrite[a]
  BY <1>13 DEF WriteKeptJournal, KeptLines, local
<1>14. ASSUME NEW a \in Actor, AppendNotification(a) PROVE rewrite' = rewrite
  BY <1>14 DEF AppendNotification, local
<1> QED
  BY <1>2, <1>3, <1>4, <1>5, <1>6, <1>7, <1>8, <1>9, <1>10, <1>11, <1>12, <1>13, <1>14, Steps
-----------------------------------------------------------------------------
(* The lines of the journal carry ever increasing numbers. *)
LEMMA NumbersNext ==
  ASSUME StoreInvariant, [Next]_vars
  PROVE  NumbersGoUp'
<1>1. /\ pc \in [Actor -> Step]
      /\ journal \subseteq Line /\ issued \subseteq Line
      /\ IsFiniteSet(issued)
      /\ seqFile \in Nat
      /\ rewrite \in [Actor -> SUBSET Line]
      /\ number \in [Actor -> Nat]
      /\ Caller \subseteq Actor /\ Boot \in Actor
  BY DEF StoreInvariant, TypeOK, Actor
<1>2. /\ journal \subseteq issued
      /\ \A a \in Actor : rewrite[a] \subseteq issued
      /\ NumbersGoUp
      /\ \A a \in Actor : pc[a] \in NoteSteps => noteLock = a
  BY DEF StoreInvariant, LinesTellTheTruth, CallsOwnLocks
<1>3. Cardinality(issued) \in Nat
  BY <1>1, FS_CardinalityType
<1>4. \A l \in Line : l.at \in Nat /\ l.seq \in Nat
  BY DEF Line
<1> DEFINE Distinct == /\ \A m \in issued : m.at <= Cardinality(issued)
                       /\ \A m, n \in issued : m.at = n.at => m = n
           Ordered == \A m, n \in journal : m.at < n.at => m.seq < n.seq
           Copies == \A a \in Actor : \A m, n \in rewrite[a] : m.at < n.at => m.seq < n.seq
           Chosen == \A a \in Actor : pc[a] = "nt_append" => \A m \in journal : m.seq < number[a]
<1>5. Distinct /\ Ordered /\ Copies /\ Chosen
  BY <1>2 DEF NumbersGoUp
<1>6. ASSUME NEW a \in Actor, AppendNotification(a)
      PROVE  Distinct' /\ Ordered'
  <2> DEFINE l == NewLine(a)
  <2>1. /\ journal' = journal \cup {l} /\ issued' = issued \cup {l}
        /\ pc[a] = "nt_append"
    BY <1>6 DEF AppendNotification, At
  <2>2. l.at = Cardinality(issued) + 1 /\ l.seq = number[a]
    BY DEF NewLine, StatusSeen
  <2>3. \A m \in issued : m.at < l.at /\ m.at \in Nat
    BY <1>1, <1>3, <1>4, <1>5, <2>2
  <2>4. l \notin issued
    BY <2>3
  <2>5. Cardinality(issued') = Cardinality(issued) + 1
    BY <1>1, <2>1, <2>4, FS_AddElement
  <2> HIDE DEF l
  <2>6. Distinct'
    BY <1>1, <1>3, <1>4, <1>5, <2>1, <2>2, <2>3, <2>5
  <2>7. \A m \in journal : m.seq < l.seq /\ m.at < l.at
    BY <1>2, <1>5, <2>1, <2>2, <2>3
  <2>8. l.at \in Nat /\ \A m \in journal : m.at \in Nat
    BY <1>1, <1>3, <1>4, <2>2
  <2>9. Ordered'
    BY <1>5, <2>1, <2>7, <2>8
  <2> QED
    BY <2>6, <2>9
<1>7. Distinct' /\ Ordered' /\ Copies'
  <2>1. CASE \E a \in Actor : AppendNotification(a) /\ rewrite' = rewrite
    BY <1>5, <1>6, <2>1
  <2>2. CASE /\ journal' = journal /\ issued' = issued
             /\ \/ \A a \in Actor : rewrite'[a] \in {rewrite[a], {}}
                \/ \E a \in Actor : rewrite' = [rewrite EXCEPT ![a] = journal]
    BY <1>1, <1>5, <2>2
  <2>3. CASE /\ journal' = {} /\ issued' = issued
             /\ \E a \in Actor : rewrite' = [rewrite EXCEPT ![a] = journal]
    BY <1>1, <1>5, <2>3
  <2>4. CASE /\ issued' = issued /\ rewrite' = rewrite
             /\ \E a \in Actor : journal' \subseteq rewrite[a]
    BY <1>5, <2>4
  <2> QED
    BY <2>1, <2>2, <2>3, <2>4, JournalOfStep
(* A call about to append owns the notification lock: the journal that it   *)
(* read its number from cannot have grown.                                  *)
<1>8. Chosen'
  <2> SUFFICES ASSUME NEW a \in Actor, pc'[a] = "nt_append"
               PROVE  \A m \in journal' : m.seq < number'[a]
    OBVIOUS
  <2>1. \/ pc[a] = "nt_append" /\ number'[a] = number[a]
        \/ ReadSequence(a)
    <3> USE <1>1 DEF At, Goto
    <3>1. ASSUME NEW b \in Caller, Ack(b) \/ PruneTerminalRuns(b)
          PROVE  pc[a] = "nt_append" /\ number'[a] = number[a]
      BY <3>1 DEF Ack, PruneTerminalRuns, local
    <3>2. ASSUME NEW b, NEW r, CreateRun(b, r)
          PROVE  pc[a] = "nt_append" /\ number'[a] = number[a]
      BY <3>2 DEF CreateRun, local
    <3>3. ASSUME NEW b \in Caller, NEW r, NEW step \in {"mt_lock", "um_lock", "nt_lock"},
                 NEW i, NEW kinds, Begin(b, r, step, i, kinds)
          PROVE  pc[a] = "nt_append" /\ number'[a] = number[a]
      BY <3>3 DEF Begin, local
    <3>4. ASSUME NEW b \in Actor, UnderRunLock(b)
          PROVE  pc[a] = "nt_append" /\ number'[a] = number[a]
      BY <3>4 DEF UnderRunLock, AcquireRunLock, RunLockFree, BreakStaleRunLock, ReleaseRunLock,
         LoadForTerminal, AfterLoad,
         WriteResult, FinalResult, WriteTerminalMeta, AppendTerminalEvent, LoadForUpdate, WriteUpdatedMeta, local
    <3>5. ASSUME NEW b \in Actor, UnderNoteLock(b), ~ReadSequence(b)
          PROVE  pc[a] = "nt_append" /\ number'[a] = number[a]
      <4>1. CASE ReleaseNoteLock(b)
        BY <4>1 DEF ReleaseNoteLock
      <4>2. CASE AcquireNoteLock(b)
        BY <4>2 DEF AcquireNoteLock, AfterLock, local
      <4> QED
        BY <3>5, <4>1, <4>2 DEF UnderNoteLock, BreakStaleNoteLock, CheckSentinel, AfterCheck,
           AppendNotification, WriteNotificationSeq, WriteSentinel, WriteAck,
           TruncateJournal, WriteKeptJournal, KeptLines, WriteKeptAcks, local
    <3>6. ASSUME NEW b \in Actor, ReadSequence(b)
          PROVE  \/ pc[a] = "nt_append" /\ number'[a] = number[a]
                 \/ ReadSequence(a)
      BY <3>6 DEF ReadSequence
    <3>7. ASSUME NEW b \in Actor, RemoveRunDir(b)
          PROVE  pc[a] = "nt_append" /\ number'[a] = number[a]
      BY <3>7 DEF RemoveRunDir, local
    <3>8. ASSUME NEW b \in Actor, Throw(b)
          PROVE  pc[a] = "nt_append" /\ number'[a] = number[a]
      BY <3>8 DEF Throw
    <3>9. CASE Startup
      BY <3>9 DEF Startup, StartDaemon, RunDirs, ReconcileRun, ReconcileNotification,
         FinishReconciliation, UnfinishedRuns, OrphanRun, Listen, local
    <3>10. CASE UNCHANGED vars
      BY <3>10 DEF vars, local
    <3>11. CASE Crash
      BY <3>11 DEF Crash
    <3> HIDE <1>1 DEF At, Goto
    <3> QED
      BY <3>1, <3>2, <3>3, <3>4, <3>5, <3>6, <3>7, <3>8, <3>9, <3>10, <3>11, Steps
  <2>2. CASE ReadSequence(a)
    <3>1. journal' = journal
      BY <2>2 DEF ReadSequence, notes
    <3>2. PICK q \in JournalSeq : number'[a] = (IF q > seqFile THEN q ELSE seqFile) + 1
      BY <1>1, <2>2 DEF ReadSequence, NextNotificationSequence
    <3>3. q \in Nat
      BY JournalSeqType DEF StoreInvariant
    <3>4. CASE journal = {}
      BY <3>1, <3>4
    <3>5. CASE journal # {}
      <4>1. PICK l \in journal : q = l.seq /\ \A k \in journal : k.at <= l.at
        BY <3>5 DEF JournalSeq
      <4>2. \A k \in journal : k = l \/ k.at < l.at
        BY <1>1, <1>2, <1>4, <1>5, <4>1
      <4>3. \A k \in journal : k.seq <= q /\ k.seq \in Nat
        BY <1>1, <1>4, <1>5, <4>1, <4>2
      <4> QED
        BY <1>1, <3>1, <3>2, <3>3, <4>3
    <3> QED
      BY <3>4, <3>5
  <2>3. CASE pc[a] = "nt_append" /\ number'[a] = number[a]
    <3>1. ASSUME NEW b \in Actor, AppendNotification(b) PROVE FALSE
      <4>1. pc[b] = "nt_append" /\ pc' = [pc EXCEPT ![b] = "nt_seq"]
        BY <3>1 DEF AppendNotification, At, Goto
      <4> QED
        BY <1>1, <1>2, <2>3, <4>1 DEF NoteSteps
    <3>2. ASSUME NEW b \in Actor, WriteKeptJournal(b) PROVE FALSE
      <4>1. pc[b] = "pr_write"
        BY <3>2 DEF WriteKeptJournal, KeptLines, At
      <4> QED
        BY <1>2, <2>3, <4>1 DEF NoteSteps
    <3>3. journal' \subseteq journal
      BY <3>1, <3>2, JournalOfStep
    <3> QED
      BY <1>5, <2>3, <3>3
  <2> QED
    BY <2>1, <2>2, <2>3
<1> QED
  BY <1>7, <1>8 DEF NumbersGoUp
-----------------------------------------------------------------------------
(* A call has a terminal notification still to append because it had it     *)
(* before, because it just wrote a terminal meta.json, or because the       *)
(* reconciliation just found none in the journal.                           *)
LEMMA UnpublishedOfStep ==
  ASSUME StoreInvariant, [Next]_vars, NEW a \in Actor, Unpublished(a)'
  PROVE  /\ target'[a] = target[a]
         /\ \/ Unpublished(a) /\ (AppendNotification(a) => Current(a) # "terminal")
            \/ WriteTerminalMeta(a)
            \/ a = Boot /\ ReconcileNotification /\ ~Journalled(target[a], "terminal")
<1>1. /\ pc \in [Actor -> Step]
      /\ target \in [Actor -> Run \cup {NoRun}]
      /\ runLock \in [Run -> Actor \cup {Free, Stale}]
      /\ todo \in [Actor -> SUBSET Kind]
      /\ NoRun \notin Run
      /\ \A b \in Actor : b # Free /\ b # Stale
      /\ Boot \in Actor /\ Caller \subseteq Actor /\ Boot \notin Caller
  BY RunStoreAssumption DEF StoreInvariant, TypeOK, Actor
<1>2. /\ \A b \in Actor : pc[b] \in RunSteps => target[b] \in Run /\ runLock[target[b]] = b
      /\ \A b \in Actor, r \in Run : runLock[r] = b =>
           target[b] = r /\ pc[b] \in RunSteps \cup PublishSteps \cup {"nt_unlock"}
  BY DEF StoreInvariant, CallsOwnLocks, HoldsRun
<1>3. \A b \in Actor : /\ pc[b] \notin PublishSteps \cup {"nt_unlock", "bt_check"} => todo[b] = {}
                       /\ todo[b] # {} => target[b] \in Run
                       /\ "terminal" \in todo[b] => b = Boot \/ HoldsRun(b)
  BY DEF StoreInvariant, CallsKnowTheirRun, KnowsItsRun
<1>4. /\ pc[Boot] \in BootSteps
      /\ \A b \in Caller : pc[b] # "bt_check"
      /\ \A b \in Actor : target[b] \in Run => \A c \in Actor : target[b] \notin doomed[c]
  BY DEF StoreInvariant, BootIsAlone, CallsOnReadableRuns
<1> DEFINE Was == target'[a] = target[a] /\ Unpublished(a)
<1> USE <1>1, <1>2, <1>3
    DEF At, Goto, RunSteps, PublishSteps, Unpublished, Current, Reconciling, HoldsRun
<1>5. ASSUME NEW b \in Caller, Ack(b) \/ PruneTerminalRuns(b) PROVE Was /\ ~AppendNotification(a)
  BY <1>5 DEF Ack, PruneTerminalRuns, AppendNotification, call, locks
<1>6. ASSUME NEW b, NEW r, CreateRun(b, r) PROVE Was /\ ~AppendNotification(a)
  BY <1>6 DEF CreateRun, AppendNotification, call, locks
<1>7. ASSUME NEW b \in Caller, NEW r \in Run, NEW step \in {"mt_lock", "um_lock", "nt_lock"},
             NEW i, NEW kinds \in SUBSET {"fatal_error"}, Begin(b, r, step, i, kinds)
      PROVE  Was /\ ~AppendNotification(a)
  <2>1. /\ pc[b] = "idle" /\ pc' = [pc EXCEPT ![b] = step] /\ target' = [target EXCEPT ![b] = r]
        /\ todo' = [todo EXCEPT ![b] = kinds] /\ runLock' = runLock
    BY <1>7 DEF Begin, Callable, locks
  <2>2. a # b
    BY <2>1
  <2> QED
    BY <2>1, <2>2 DEF AppendNotification
<1>8. ASSUME NEW b \in Actor, UnderRunLock(b)
      PROVE  /\ target'[a] = target[a] /\ ~AppendNotification(a)
             /\ Unpublished(a) \/ WriteTerminalMeta(a)
  <2>1. CASE AcquireRunLock(b)
    BY <2>1 DEF AcquireRunLock, RunLockFree, AppendNotification, call
  <2>2. CASE BreakStaleRunLock(b)
    BY <2>2 DEF BreakStaleRunLock, AppendNotification, call
  <2>3. CASE ReleaseRunLock(b)
    BY <2>3 DEF ReleaseRunLock, Forget, AppendNotification
  <2>4. CASE LoadForTerminal(b) \/ WriteResult(b) \/ LoadForUpdate(b) \/ WriteUpdatedMeta(b)
    BY <2>4 DEF LoadForTerminal, AfterLoad, WriteResult, FinalResult, LoadForUpdate,
       WriteUpdatedMeta,
                AppendNotification, call, locks
  <2>5. CASE WriteTerminalMeta(b)
    <3>1. pc[b] = "mt_meta" /\ pc' = [pc EXCEPT ![b] = "mt_event"]
          /\ target' = target /\ todo' = todo /\ runLock' = runLock
      BY <2>5 DEF WriteTerminalMeta, call, locks
    <3>2. ~AppendNotification(a)
      BY <3>1 DEF AppendNotification
    <3>3. CASE a = b
      BY <2>5, <3>1, <3>2, <3>3
    <3>4. CASE a # b
      BY <3>1, <3>2, <3>4
    <3> QED
      BY <3>3, <3>4
  <2>6. CASE AppendTerminalEvent(b)
    BY <2>6 DEF AppendTerminalEvent, AppendNotification, call, locks
  <2> QED
    BY <1>8, <2>1, <2>2, <2>3, <2>4, <2>5, <2>6 DEF UnderRunLock
<1>9. ASSUME NEW b \in Actor, UnderNoteLock(b)
      PROVE  Was /\ (AppendNotification(a) => Current(a) # "terminal")
  <2>1. CASE AcquireNoteLock(b)
    BY <2>1 DEF AcquireNoteLock, AfterLock, AppendNotification, call
  <2>2. CASE BreakStaleNoteLock(b)
    BY <2>2 DEF BreakStaleNoteLock, AppendNotification, call
  <2>3. CASE ReleaseNoteLock(b)
    <3>1. CASE UNCHANGED call
      BY <2>3, <3>1 DEF ReleaseNoteLock, Remaining, AppendNotification, call
    <3>2. CASE ~UNCHANGED call
      BY <2>3, <3>2 DEF ReleaseNoteLock, Remaining, Forget, AppendNotification
    <3> QED
      BY <3>1, <3>2
  <2>4. CASE CheckSentinel(b)
    BY <2>4 DEF CheckSentinel, AfterCheck, AppendNotification, call, locks
  <2>5. CASE ReadSequence(b)
    BY <2>5 DEF ReadSequence, AppendNotification, call, locks
  <2>6. CASE AppendNotification(b)
    BY <2>6 DEF AppendNotification, call, locks
  <2>7. CASE WriteNotificationSeq(b) \/ WriteSentinel(b)
    BY <2>7 DEF WriteNotificationSeq, WriteSentinel, AppendNotification, call, locks
  <2>8. CASE WriteAck(b) \/ TruncateJournal(b) \/ WriteKeptJournal(b) \/ WriteKeptAcks(b)
    BY <2>8 DEF WriteAck, TruncateJournal, WriteKeptJournal, KeptLines, WriteKeptAcks,
                AppendNotification, call, locks
  <2> QED
    BY <1>9, <2>1, <2>2, <2>3, <2>4, <2>5, <2>6, <2>7, <2>8 DEF UnderNoteLock
<1>10. ASSUME NEW b \in Actor, RemoveRunDir(b) PROVE Was /\ ~AppendNotification(a)
  BY <1>4, <1>10 DEF RemoveRunDir, AppendNotification, call
<1>11. ASSUME NEW b \in Actor, Throw(b) PROVE Was /\ ~AppendNotification(a)
  BY <1>11 DEF Throw, Forget, AppendNotification
<1>12. CASE Startup
  <2>1. CASE StartDaemon
    <3>1. pc[Boot] = "idle"
      BY <2>1 DEF StartDaemon, RunDirs, StoreInvariant, BootIsAlone
    <3> QED
      BY <2>1, <3>1 DEF StartDaemon, RunDirs, AppendNotification, call, locks
  <2>2. CASE ReconcileRun
    BY <2>2 DEF ReconcileRun, AppendNotification, locks
  <2>3. CASE ReconcileNotification
    BY <2>3 DEF ReconcileNotification, Remaining, AppendNotification, call, locks
  <2>4. CASE FinishReconciliation
    BY <2>4 DEF FinishReconciliation, UnfinishedRuns, AppendNotification, locks
  <2>5. CASE OrphanRun
    BY <2>5 DEF OrphanRun, AppendNotification, locks
  <2>6. CASE Listen
    BY <2>6 DEF Listen, AppendNotification, call, locks
  <2> QED
    BY <1>12, <2>1, <2>2, <2>3, <2>4, <2>5, <2>6 DEF Startup
<1>13. CASE Crash
  BY <1>13 DEF Crash
<1>14. CASE UNCHANGED vars
  BY <1>14 DEF vars, call, locks, AppendNotification
<1> HIDE <1>1, <1>2, <1>3
    DEF At, Goto, RunSteps, PublishSteps, Unpublished, Current, Reconciling, HoldsRun
<1> QED
  BY <1>5, <1>6, <1>7, <1>8, <1>9, <1>10, <1>11, <1>12, <1>13, <1>14, Steps
-----------------------------------------------------------------------------
(* Two calls never have the terminal notification of the same run to append. *)
LEMMA OnePublisher ==
  ASSUME StoreInvariant, NEW a \in Actor, NEW b \in Actor, Unpublished(a), Unpublished(b),
         target[a] = target[b]
  PROVE  a = b
<1>1. \A c \in {a, b} : (c = Boot \/ HoldsRun(c)) /\ pc[c] # "idle"
  BY DEF Unpublished, StoreInvariant, CallsOwnLocks, CallsKnowTheirRun, KnowsItsRun, RunSteps
<1>2. pc[Boot] # "idle" => \A c \in Caller : pc[c] = "idle"
  BY DEF StoreInvariant, BootIsAlone
<1> QED
  BY <1>1, <1>2 DEF HoldsRun, Actor

(* What is appended as terminal is the end of the run it is appended for.   *)
LEMMA TerminalLineType ==
  ASSUME StoreInvariant, NEW a \in Actor, AppendNotification(a), NewLine(a).kind = "terminal"
  PROVE  /\ Unpublished(a)
         /\ NewLine(a).run = target[a] /\ target[a] \in Run
         /\ NewLine(a).status = status[target[a]]
         /\ Terminal(status[target[a]])
         /\ UNCHANGED status
<1>1. Current(a) = "terminal" /\ NewLine(a).run = target[a]
  BY DEF NewLine, StatusSeen
<1>2. "terminal" \in todo[a]
  BY <1>1 DEF Current
<1>3. /\ a = Boot \/ HoldsRun(a)
      /\ Terminal(status[target[a]]) /\ target[a] \in Run
  BY <1>2 DEF StoreInvariant, CallsKnowTheirRun, KnowsItsRun
<1>4. NewLine(a).status = status[target[a]]
  BY <1>3 DEF NewLine, StatusSeen
<1>5. Unpublished(a) /\ UNCHANGED status
  BY <1>2 DEF Unpublished, AppendNotification, At, files
<1> QED
  BY <1>1, <1>3, <1>4, <1>5
-----------------------------------------------------------------------------
(* Every terminal line tells the outcome of its run, and there is one.      *)
LEMMA LinesNext ==
  ASSUME StoreInvariant, [Next]_vars
  PROVE  LinesTellTheTruth'
<1>1. /\ journal \subseteq Line /\ issued \subseteq Line
      /\ rewrite \in [Actor -> SUBSET Line]
      /\ status \in [Run -> Status]
      /\ Boot \in Actor
  BY DEF StoreInvariant, TypeOK, Actor
<1>2. \A m \in Line : m.run \in Run
  BY DEF Line
<1> DEFINE Known == journal \subseteq issued /\ \A a \in Actor : rewrite[a] \subseteq issued
           True == \A m \in issued :
                     m.kind = "terminal" => Terminal(m.status) /\ status[m.run] \in {m.status, "pruned"}
           OneIn(lines) == \A m, n \in lines :
                     m.run = n.run /\ m.kind = "terminal" /\ n.kind = "terminal" => m = n
           None(r) == /\ TerminalLines(journal, r) = {}
                      /\ \A b \in Actor : TerminalLines(rewrite[b], r) = {}
<1>3. /\ Known /\ True /\ OneIn(journal)
      /\ \A a \in Actor : OneIn(rewrite[a])
      /\ \A a \in Actor : Unpublished(a) => None(target[a])
  BY DEF StoreInvariant, LinesTellTheTruth
<1>4. ASSUME NEW a \in Actor, AppendNotification(a)
      PROVE  journal' = journal \cup {NewLine(a)} /\ issued' = issued \cup {NewLine(a)}
  BY <1>4 DEF AppendNotification
<1>5. Known'
  BY <1>1, <1>3, <1>4, JournalOfStep
<1>6. True'
  <2>1. ASSUME NEW m \in issued, m.kind = "terminal"
        PROVE  Terminal(m.status) /\ status'[m.run] \in {m.status, "pruned"}
    <3>1. Terminal(m.status) /\ status[m.run] \in {m.status, "pruned"} /\ m.run \in Run
      BY <1>1, <1>2, <1>3, <2>1
    <3>2. ASSUME NEW a \in Actor, WriteTerminalMeta(a) PROVE status'[m.run] = status[m.run]
      <4>1. status[target[a]] = "running" /\ target[a] \in Run
        BY <3>2 DEF WriteTerminalMeta, At, StoreInvariant, CallsKnowTheirRun, KnowsItsRun,
                    CallsOnReadableRuns, RunSteps
      <4>2. m.run # target[a]
        BY <3>1, <4>1 DEF Terminal, TerminalStatus
      <4> QED
        BY <1>1, <3>1, <3>2, <4>1, <4>2 DEF WriteTerminalMeta
    <3>3. ASSUME NEW a \in Actor, RemoveRunDir(a)
          PROVE  status'[m.run] \in {status[m.run], "pruned"}
      BY <1>1, <3>1, <3>3 DEF RemoveRunDir
    <3>4. ASSUME NEW r \in Run, status[r] = "absent", status' = [status EXCEPT ![r] = "running"]
          PROVE  status'[m.run] = status[m.run]
      <4>1. m.run # r
        BY <3>1, <3>4 DEF Terminal, TerminalStatus
      <4> QED
        BY <1>1, <3>1, <3>4, <4>1
    <3> QED
      BY <3>1, <3>2, <3>3, <3>4, StatusOfStep
  <2>2. ASSUME NEW a \in Actor, AppendNotification(a), NewLine(a).kind = "terminal"
        PROVE  Terminal(NewLine(a).status) /\ status'[NewLine(a).run] \in {NewLine(a).status, "pruned"}
    BY <2>2, TerminalLineType
  <2>3. issued' = issued \/ \E a \in Actor : AppendNotification(a)
    BY JournalOfStep
  <2> QED
    BY <1>4, <2>1, <2>2, <2>3
<1>7. OneIn(journal)' /\ \A a \in Actor : OneIn(rewrite[a])'
  <2>1. ASSUME NEW a \in Actor, AppendNotification(a) PROVE OneIn(journal)'
    <3>1. NewLine(a).kind = "terminal" =>
            \A m \in journal : ~(m.kind = "terminal" /\ m.run = NewLine(a).run)
      BY <1>3, <2>1, TerminalLineType DEF TerminalLines
    <3> QED
      BY <1>3, <1>4, <2>1, <3>1
  <2> QED
    BY <1>1, <1>3, <2>1, JournalOfStep
<1>8. ASSUME NEW a \in Actor, Unpublished(a)'
      PROVE  None(target[a])'
  <2>1. /\ target'[a] = target[a]
        /\ \/ Unpublished(a) /\ (AppendNotification(a) => Current(a) # "terminal")
           \/ WriteTerminalMeta(a)
           \/ a = Boot /\ ReconcileNotification /\ ~Journalled(target[a], "terminal")
    BY <1>8, UnpublishedOfStep
  <2> DEFINE r == target[a]
  <2>2. None(r)
    <3>1. CASE Unpublished(a)
      BY <1>3, <3>1
    <3>2. CASE WriteTerminalMeta(a)
      <4>1. status[r] = "running"
        BY <3>2 DEF WriteTerminalMeta, At, StoreInvariant, CallsKnowTheirRun, KnowsItsRun
      <4>2. \A m \in issued : ~(m.kind = "terminal" /\ m.run = r)
        BY <1>3, <4>1 DEF Terminal, TerminalStatus
      <4> QED
        BY <1>3, <4>2 DEF TerminalLines
    <3>3. CASE a = Boot /\ ReconcileNotification /\ ~Journalled(target[a], "terminal")
      <4>1. \A b \in Actor : rewrite[b] = {}
        BY <3>3 DEF ReconcileNotification, At, StoreInvariant, BootIsAlone
      <4> QED
        BY <3>3, <4>1 DEF Journalled, TerminalLines
    <3> QED
      BY <2>1, <3>1, <3>2, <3>3
  <2>3. ASSUME NEW b \in Actor, AppendNotification(b)
        PROVE  ~(NewLine(b).kind = "terminal" /\ NewLine(b).run = r)
    <3> SUFFICES ASSUME NewLine(b).kind = "terminal", NewLine(b).run = r PROVE FALSE
      OBVIOUS
    <3>1. Unpublished(b) /\ target[b] = r
      BY <2>3, TerminalLineType
    <3>2. UNCHANGED status /\ Current(b) = "terminal" /\ pc[b] = "nt_append"
      BY <2>3 DEF AppendNotification, At, files, NewLine, StatusSeen
    <3>3. Unpublished(a)
      <4>1. ~WriteTerminalMeta(a)
        <5>1. ASSUME WriteTerminalMeta(a) PROVE FALSE
          <6>1. /\ pc[a] = "mt_meta" /\ pc' = [pc EXCEPT ![a] = "mt_event"]
                /\ pc' = [pc EXCEPT ![b] = "nt_seq"] /\ pc \in [Actor -> Step]
            BY <2>3, <5>1 DEF WriteTerminalMeta, AppendNotification, At, Goto, StoreInvariant,
               TypeOK
          <6> QED
            BY <3>2, <6>1
        <5> QED
          BY <5>1
      <4>2. ~ReconcileNotification
        <5>1. ASSUME ReconcileNotification PROVE FALSE
          <6>1. journal' = journal /\ NewLine(b) \in journal' /\ issued' = issued
            BY <1>4, <2>3, <5>1 DEF ReconcileNotification, notes
          <6>2. NewLine(b) \in TerminalLines(journal, r)
            BY <6>1 DEF TerminalLines
          <6> QED
            BY <2>2, <6>2
        <5> QED
          BY <5>1
      <4> QED
        BY <2>1, <4>1, <4>2
    <3>4. a = b
      BY <3>1, <3>3, OnePublisher
    <3> QED
      BY <2>1, <2>3, <3>2, <3>3, <3>4, <2>2, <1>4 DEF WriteTerminalMeta, At, Unpublished,
         ReconcileNotification
  <2>4. TerminalLines(journal', r) = {}
    <3>1. ASSUME NEW b \in Actor, AppendNotification(b) PROVE TerminalLines(journal', r) = {}
      BY <1>4, <2>2, <2>3, <3>1 DEF TerminalLines
    <3> QED
      BY <1>1, <2>2, <3>1, JournalOfStep DEF TerminalLines
  <2>5. \A b \in Actor : TerminalLines(rewrite'[b], r) = {}
    BY <1>1, <2>2, JournalOfStep DEF TerminalLines
  <2> QED
    BY <2>1, <2>4, <2>5
<1> QED
  BY <1>5, <1>6, <1>7, <1>8 DEF LinesTellTheTruth
-----------------------------------------------------------------------------
LEMMA InvariantInit == Init => StoreInvariant
<1> SUFFICES ASSUME Init PROVE StoreInvariant
  OBVIOUS
<1>1. TypeOK
  BY TypeInit
<1>2. CallsOwnLocks
  BY RunStoreAssumption DEF Init, CallsOwnLocks, RunSteps, NoteSteps, Actor
<1>3. BootIsAlone
  BY RunStoreAssumption DEF Init, BootIsAlone, BootSteps, Actor
<1>4. CallsOnReadableRuns
  BY RunStoreAssumption DEF Init, CallsOnReadableRuns, RunSteps, PublishSteps
<1>5. CallsKnowTheirRun
  BY DEF Init, CallsKnowTheirRun, KnowsItsRun, PublishSteps
<1>6. LinesTellTheTruth
  BY DEF Init, LinesTellTheTruth, Unpublished, TerminalLines
<1>7. NumbersGoUp
  BY DEF Init, NumbersGoUp
<1>8. ResultMatchesStatus
  BY DEF Init, ResultMatchesStatus, Terminal, TerminalStatus
<1> QED
  BY <1>1, <1>2, <1>3, <1>4, <1>5, <1>6, <1>7, <1>8 DEF StoreInvariant

LEMMA InvariantNext == StoreInvariant /\ [Next]_vars => StoreInvariant'
<1> SUFFICES ASSUME StoreInvariant, [Next]_vars PROVE StoreInvariant'
  OBVIOUS
<1>1. TypeOK'
  BY TypeNext
<1> QED
  BY <1>1, LocksNext, BootNext, ReadableNext, KnowledgeNext, LinesNext, NumbersNext
     DEF StoreInvariant

(* The inductive invariant holds in every reachable state. *)
THEOREM Invariance == Spec => []StoreInvariant
BY InvariantInit, InvariantNext, PTL DEF Spec

(* Every variable of the store has its type in every reachable state.       *)
THEOREM TypeCorrect == Spec => []TypeOK
<1>1. StoreInvariant => TypeOK
  BY DEF StoreInvariant
<1> QED
  BY <1>1, Invariance, PTL

(* markTerminal writes result.json before meta.json and both under the run  *)
(* lock, so a terminal run has the result of its outcome.                   *)
THEOREM ResultsAreConsistent == Spec => []ResultMatchesStatus
<1>1. StoreInvariant => ResultMatchesStatus
  BY DEF StoreInvariant
<1> QED
  BY <1>1, Invariance, PTL

(* However calls interleave, fail and are killed, the journal never holds   *)
(* two terminal notifications of a run.                                     *)
THEOREM AnnouncedOnce == Spec => []OneTerminalNotification
<1>1. StoreInvariant => OneTerminalNotification
  BY DEF StoreInvariant, LinesTellTheTruth, OneTerminalNotification
<1> QED
  BY <1>1, Invariance, PTL

(* A terminal notification in the journal names the outcome of its run.     *)
THEOREM AnnouncedTruly == Spec => []NotificationTellsOutcome
<1>1. StoreInvariant => NotificationTellsOutcome
  BY DEF StoreInvariant, LinesTellTheTruth, NotificationTellsOutcome
<1> QED
  BY <1>1, Invariance, PTL

(* Every end is published once, and as what it was, whatever is killed      *)
(* between the journal, its sentinels and meta.json.                        *)
THEOREM EndsAreAnnouncedTruly == Spec => []AnnouncedOnceAndTruly
<1>1. OneTerminalNotification /\ NotificationTellsOutcome => AnnouncedOnceAndTruly
  BY DEF AnnouncedOnceAndTruly
<1> QED
  BY <1>1, AnnouncedOnce, AnnouncedTruly, PTL

(* The journal is ordered by sequence number, whatever is pruned from it.   *)
THEOREM CursorsAreSound == Spec => []JournalIsOrdered
<1>1. StoreInvariant => JournalIsOrdered
  BY DEF StoreInvariant, NumbersGoUp, JournalIsOrdered
<1> QED
  BY <1>1, Invariance, PTL
-----------------------------------------------------------------------------
(* What a step does to one run's status. *)
LEMMA StatusOfRun ==
  ASSUME StoreInvariant, [Next]_vars
  PROVE  \/ UNCHANGED status
         \/ \E r \in Run : status[r] = "absent" /\ status' = [status EXCEPT ![r] = "running"]
         \/ \E r \in Run, o \in TerminalStatus :
              status[r] = "running" /\ status' = [status EXCEPT ![r] = o]
         \/ \E r \in Run : Terminal(status[r]) /\ status' = [status EXCEPT ![r] = "pruned"]
<1>1. ASSUME NEW a \in Actor, WriteTerminalMeta(a)
      PROVE  \E r \in Run, o \in TerminalStatus :
               status[r] = "running" /\ status' = [status EXCEPT ![r] = o]
  BY <1>1 DEF WriteTerminalMeta, At, StoreInvariant, CallsKnowTheirRun, KnowsItsRun,
     CallsOnReadableRuns, RunSteps, Terminal
<1>2. ASSUME NEW a \in Actor, RemoveRunDir(a)
      PROVE  \/ UNCHANGED status
             \/ \E r \in Run : Terminal(status[r]) /\ status' = [status EXCEPT ![r] = "pruned"]
  <2>1. PICK r \in doomed[a] : status' = [status EXCEPT ![r] = "pruned"]
    BY <1>2 DEF RemoveRunDir
  <2>2. r \in Run /\ (Terminal(status[r]) \/ status[r] = "pruned") /\ status \in [Run -> Status]
    BY <2>1 DEF StoreInvariant, TypeOK, CallsOnReadableRuns
  <2>3. status[r] = "pruned" => UNCHANGED status
    BY <2>1, <2>2
  <2> QED
    BY <2>1, <2>2, <2>3
<1> QED
  BY <1>1, <1>2, StatusOfStep

(* A run's outcome never changes once it is in meta.json. *)
THEOREM OutcomeIsFinal == Spec => TerminalIsForever
<1> DEFINE Stays == \A r \in Run : Terminal(status[r]) => status'[r] \in {status[r], "pruned"}
<1>1. ASSUME StoreInvariant, [Next]_vars PROVE Stays
  <2>1. status \in [Run -> Status]
    BY <1>1 DEF StoreInvariant, TypeOK
  <2> QED
    BY <1>1, <2>1, StatusOfRun DEF Terminal, TerminalStatus
<1> QED
  BY <1>1, Invariance, PTL DEF Spec, TerminalIsForever
-----------------------------------------------------------------------------
(* The store implements RunLifecycle: create, one end, one announcement     *)
(* after it, and removal only of a run that ended.                          *)
Announced == [r \in Run |-> \E m \in issued : m.run = r /\ m.kind = "terminal"]

LEMMA LifecycleInitially == Init => Lifecycle!LifecycleInit
BY DEF Init, Lifecycle!LifecycleInit

LEMMA LifecycleStep ==
  ASSUME StoreInvariant, [Next]_vars
  PROVE  [Lifecycle!LifecycleNext]_Lifecycle!lifecycleVars
<1>1. status \in [Run -> Status]
  BY DEF StoreInvariant, TypeOK
<1>7. ASSUME NEW r \in Run, Lifecycle!Announce(r) PROVE Lifecycle!LifecycleNext
  BY <1>7 DEF Lifecycle!LifecycleNext
<1> USE DEF Announced
<1>2. ASSUME NEW a \in Actor, AppendNotification(a), NewLine(a).kind = "terminal"
      PROVE  [Lifecycle!LifecycleNext]_Lifecycle!lifecycleVars
  <2>0. target[a] \in Run
    BY <1>2, TerminalLineType
  <2>1. PICK r \in Run : /\ NewLine(a).run = r /\ status[r] \in TerminalStatus
                         /\ status' = status
    BY <1>2, <2>0, TerminalLineType DEF Terminal
  <2>2. issued' = issued \cup {NewLine(a)}
    BY <1>2 DEF AppendNotification
  <2>3. CASE Announced[r]
    <3>1. Announced' = Announced
      BY <1>2, <2>1, <2>2, <2>3
    <3> QED
      BY <2>1, <3>1 DEF Lifecycle!lifecycleVars
  <2>4. CASE ~Announced[r]
    <3>1. Announced' = [Announced EXCEPT ![r] = TRUE]
      BY <1>2, <2>1, <2>2, <2>4
    <3>2. Lifecycle!Announce(r)
      BY <2>1, <2>4, <3>1 DEF Lifecycle!Announce
    <3> QED
      BY <1>7, <2>1, <3>2
  <2> QED
    BY <2>3, <2>4
<1>3. ASSUME NEW a \in Actor, AppendNotification(a), NewLine(a).kind # "terminal"
      PROVE  Announced' = Announced /\ status' = status
  BY <1>3 DEF AppendNotification, files
<1>4. (\A a \in Actor : ~AppendNotification(a)) => Announced' = Announced
  BY JournalOfStep
<1>5. ASSUME status' = status, Announced' = Announced
      PROVE  [Lifecycle!LifecycleNext]_Lifecycle!lifecycleVars
  BY <1>5 DEF Lifecycle!lifecycleVars
<1>6. ASSUME ~UNCHANGED status
      PROVE  Lifecycle!LifecycleNext
  <2>1. \A a \in Actor : ~AppendNotification(a)
    BY <1>6 DEF AppendNotification, files
  <2>2. Announced' = Announced
    BY <1>4, <2>1
  <2>3. \/ \E r \in Run : status[r] = "absent" /\ status' = [status EXCEPT ![r] = "running"]
        \/ \E r \in Run, o \in TerminalStatus :
              status[r] = "running" /\ status' = [status EXCEPT ![r] = o]
        \/ \E r \in Run : Terminal(status[r]) /\ status' = [status EXCEPT ![r] = "pruned"]
    BY <1>6, StatusOfRun
  <2>4. ASSUME NEW r \in Run, status[r] = "absent", status' = [status EXCEPT ![r] = "running"]
        PROVE  Lifecycle!Create(r)
    BY <2>2, <2>4 DEF Lifecycle!Create
  <2>5. ASSUME NEW r \in Run, NEW o \in TerminalStatus, status[r] = "running",
               status' = [status EXCEPT ![r] = o]
        PROVE  Lifecycle!Finish(r)
    BY <2>2, <2>5 DEF Lifecycle!Finish
  <2>6. ASSUME NEW r \in Run, Terminal(status[r]), status' = [status EXCEPT ![r] = "pruned"]
        PROVE  Lifecycle!Discard(r)
    BY <2>2, <2>6 DEF Lifecycle!Discard, Terminal
  <2> QED
    BY <2>3, <2>4, <2>5, <2>6 DEF Lifecycle!LifecycleNext
<1> QED
  BY <1>2, <1>3, <1>4, <1>5, <1>6

THEOREM StoreImplementsLifecycle == Spec => ImplementsLifecycle
BY LifecycleInitially, LifecycleStep, Invariance, PTL
   DEF Spec, ImplementsLifecycle, Lifecycle!LifecycleSpec
-----------------------------------------------------------------------------
(* Without kills and failures: the steps that are left. *)
LEMMA UndisturbedStep ==
  ASSUME StoreInvariant, [Next]_vars, Undisturbed'
  PROVE  /\ Undisturbed
         /\ ~Crash
         /\ \A a \in Actor : ~Throw(a)
<1>1. crashes \in Nat /\ throws \in Nat
  BY DEF StoreInvariant, TypeOK
<1>2. ~Crash
  <2>1. ASSUME Crash PROVE crashes' # 0
    BY <1>1, <2>1 DEF Crash
  <2> QED
    BY <2>1 DEF Undisturbed
<1>3. ASSUME NEW a \in Actor PROVE ~Throw(a)
  <2>1. ASSUME Throw(a) PROVE throws' # 0
    BY <1>1, <2>1 DEF Throw
  <2> QED
    BY <2>1 DEF Undisturbed
<1> DEFINE Same == crashes' = crashes /\ throws' = throws
<1>4. ASSUME NEW a, Ack(a) \/ PruneTerminalRuns(a) PROVE Same
  BY <1>4 DEF Ack, PruneTerminalRuns, budget
<1>5. ASSUME NEW a, NEW r, CreateRun(a, r) PROVE Same
  BY <1>5 DEF CreateRun, budget
<1>6. ASSUME NEW a, NEW r, NEW step, NEW i, NEW kinds, Begin(a, r, step, i, kinds) PROVE Same
  BY <1>6 DEF Begin, budget
<1>7. ASSUME NEW a \in Actor, UnderRunLock(a) PROVE Same
  BY <1>7 DEF UnderRunLock, AcquireRunLock, BreakStaleRunLock, ReleaseRunLock, LoadForTerminal,
     WriteResult, WriteTerminalMeta, AppendTerminalEvent, LoadForUpdate, WriteUpdatedMeta, budget
<1>8. ASSUME NEW a \in Actor, UnderNoteLock(a) PROVE Same
  BY <1>8 DEF UnderNoteLock, AcquireNoteLock, BreakStaleNoteLock, ReleaseNoteLock, CheckSentinel,
     ReadSequence, AppendNotification, WriteNotificationSeq, WriteSentinel, WriteAck,
     TruncateJournal, WriteKeptJournal, WriteKeptAcks, budget
<1>9. ASSUME NEW a \in Actor, RemoveRunDir(a) PROVE Same
  BY <1>9 DEF RemoveRunDir, budget
<1>10. ASSUME Startup PROVE Same
  BY <1>10 DEF Startup, StartDaemon, ReconcileRun, ReconcileNotification, FinishReconciliation,
     OrphanRun, Listen, budget
<1>11. ASSUME UNCHANGED vars PROVE Same
  BY <1>11 DEF vars, budget
<1>12. Same
  BY <1>2, <1>3, <1>4, <1>5, <1>6, <1>7, <1>8, <1>9, <1>10, <1>11, Steps
<1> QED
  BY <1>2, <1>3, <1>12 DEF Undisturbed

(* The daemon's only start visits no run, so every step below is of a call. *)
LEMMA OnlyCalls ==
  ASSUME StoreInvariant, StartFindsNothing, NEW a \in Actor,
         pc[a] \notin {"idle", "bt_scan", "bt_orphan"}
  PROVE  a \in Caller /\ a # Boot /\ daemon = "up"
<1>1. a \in Caller /\ a # Boot
  BY RunStoreAssumption DEF StartFindsNothing, Actor
<1> QED
  BY <1>1 DEF StoreInvariant, BootIsAlone

LEMMA StartNext ==
  ASSUME StoreInvariant, [Next]_vars, Undisturbed', StartFindsNothing
  PROVE  StartFindsNothing'
<1>1. /\ pc \in [Actor -> Step] /\ target \in [Actor -> Run \cup {NoRun}]
      /\ status \in [Run -> Status] /\ NoRun \notin Run
      /\ Boot \in Actor /\ Boot \notin Caller /\ Caller \subseteq Actor
  BY RunStoreAssumption DEF StoreInvariant, TypeOK, Actor
<1>2. /\ pc[Boot] \in {"idle", "bt_scan", "bt_orphan"} /\ target[Boot] = NoRun
      /\ daemon # "up" => issued = {} /\ scan = {} /\ \A r \in Run : status[r] = "absent"
      /\ pc[Boot] # "idle" <=> daemon = "booting"
      /\ \A c \in Caller : pc[c] # "idle" => daemon = "up"
  BY DEF StartFindsNothing, StoreInvariant, BootIsAlone
<1> DEFINE Rest == pc'[Boot] = pc[Boot] /\ target'[Boot] = target[Boot] /\ daemon' = daemon
           Quietly == daemon = "up" /\ Rest
<1>3. ASSUME NEW a \in Caller, Ack(a) \/ PruneTerminalRuns(a) PROVE Quietly
  BY <1>1, <1>2, <1>3 DEF Ack, PruneTerminalRuns, call, Goto
<1>4. ASSUME NEW a, NEW r, CreateRun(a, r) PROVE Quietly
  BY <1>4 DEF CreateRun, call
<1>5. ASSUME NEW a \in Caller, NEW r, NEW step, NEW i, NEW kinds, Begin(a, r, step, i, kinds)
      PROVE  Quietly
  BY <1>1, <1>5 DEF Begin, Callable, Goto
<1>6. ASSUME NEW a \in Actor, UnderRunLock(a) PROVE Quietly
  <2>1. pc[a] \in RunSteps \cup {"mt_lock", "um_lock"}
    BY <1>6 DEF RunSteps, UnderRunLock, At, AcquireRunLock, BreakStaleRunLock, ReleaseRunLock,
       LoadForTerminal, WriteResult, WriteTerminalMeta, AppendTerminalEvent, LoadForUpdate,
       WriteUpdatedMeta
  <2>2. a # Boot /\ daemon = "up"
    BY <1>1, <1>2, <2>1 DEF RunSteps, Actor
  <2> QED
    BY <1>1, <1>6, <2>2 DEF UnderRunLock, AcquireRunLock, BreakStaleRunLock, ReleaseRunLock, Forget,
       LoadForTerminal, WriteResult, WriteTerminalMeta, AppendTerminalEvent, LoadForUpdate,
       WriteUpdatedMeta, call, Goto
<1>7. ASSUME NEW a \in Actor, UnderNoteLock(a) PROVE Quietly
  <2>1. pc[a] \in NoteSteps \cup {"nt_lock", "ak_lock", "pr_lock"}
    BY <1>7 DEF NoteSteps, UnderNoteLock, At, AcquireNoteLock, BreakStaleNoteLock, ReleaseNoteLock,
       CheckSentinel, ReadSequence, AppendNotification, WriteNotificationSeq, WriteSentinel,
       WriteAck, TruncateJournal, WriteKeptJournal, WriteKeptAcks
  <2>2. a # Boot /\ daemon = "up"
    BY <1>1, <1>2, <2>1 DEF NoteSteps, Actor
  <2>3. CASE ReleaseNoteLock(a)
    BY <1>1, <2>2, <2>3 DEF ReleaseNoteLock, Forget, call, Goto
  <2> QED
    BY <1>1, <1>7, <2>2, <2>3 DEF UnderNoteLock, AcquireNoteLock, BreakStaleNoteLock,
       CheckSentinel, ReadSequence, AppendNotification, WriteNotificationSeq, WriteSentinel,
       WriteAck, TruncateJournal, WriteKeptJournal, WriteKeptAcks, call, Goto
<1>8. ASSUME NEW a \in Actor, RemoveRunDir(a) PROVE Quietly
  <2>1. a # Boot /\ daemon = "up"
    BY <1>1, <1>2, <1>8 DEF RemoveRunDir, At, Actor
  <2> QED
    BY <1>1, <1>8, <2>1 DEF RemoveRunDir, call, Goto
<1>9. CASE Quietly
  BY <1>2, <1>9 DEF StartFindsNothing
<1>10. CASE Startup
  <2>1. UNCHANGED <<issued, status>> /\ pc[Boot] \in {"idle", "bt_scan", "bt_orphan"}
    BY <1>2, <1>10 DEF Startup, StartDaemon, ReconcileRun, ReconcileNotification, At,
       FinishReconciliation, OrphanRun, Listen, notes, files
  <2>2. CASE StartDaemon
    BY <1>1, <1>2, <2>1, <2>2 DEF StartDaemon, RunDirs, Readable, call, Goto, StartFindsNothing
  <2>3. daemon = "booting" => ~ReconcileRun /\ ~ReconcileNotification /\ ~OrphanRun
    BY <1>2 DEF ReconcileRun, ReconcileNotification, OrphanRun, At
  <2>4. CASE FinishReconciliation
    BY <1>1, <1>2, <2>1, <2>4
       DEF FinishReconciliation, UnfinishedRuns, Goto, At, StartFindsNothing
  <2>5. CASE Listen
    BY <1>1, <1>2, <2>1, <2>5 DEF Listen, Goto, call, StartFindsNothing
  <2>6. daemon = "up" => ~ReconcileRun /\ ~ReconcileNotification /\ ~OrphanRun
    BY <1>2 DEF ReconcileRun, ReconcileNotification, OrphanRun, At
  <2>7. daemon = "down" => ~ReconcileRun /\ ~ReconcileNotification /\ ~OrphanRun
    BY <1>2 DEF ReconcileRun, ReconcileNotification, OrphanRun, At
  <2>8. daemon \in {"down", "booting", "up"}
    BY DEF StoreInvariant, TypeOK
  <2> QED
    BY <1>10, <2>2, <2>3, <2>4, <2>5, <2>6, <2>7, <2>8 DEF Startup
<1>11. CASE UNCHANGED vars
  BY <1>2, <1>11 DEF vars, files, notes, call, StartFindsNothing
<1> HIDE DEF Quietly
<1> QED
  BY <1>3, <1>4, <1>5, <1>6, <1>7, <1>8, <1>9, <1>10, <1>11, Steps, UndisturbedStep
-----------------------------------------------------------------------------
(* What a call at a step under the notification lock does next. *)
PublishedSteps == {"nt_read", "nt_append", "nt_seq", "nt_sentinel", "pr_write"}

LEMMA PublisherOfStep ==
  ASSUME StoreInvariant, [Next]_vars, Undisturbed', StartFindsNothing, NEW a \in Actor,
         pc[a] \in PublishedSteps \/ pc'[a] \in PublishedSteps
  PROVE  /\ target'[a] = target[a] /\ todo'[a] = todo[a] /\ a # Boot
         /\ \/ pc'[a] = pc[a] /\ rewrite'[a] = rewrite[a]
            \/ CheckSentinel(a) /\ pc[a] = "nt_check" /\ pc'[a] = "nt_read"
               /\ Current(a) \notin sentinel[target[a]]
            \/ ReadSequence(a) /\ pc[a] = "nt_read" /\ pc'[a] = "nt_append"
            \/ AppendNotification(a) /\ pc[a] = "nt_append" /\ pc'[a] = "nt_seq"
            \/ WriteNotificationSeq(a) /\ pc[a] = "nt_seq" /\ pc'[a] = "nt_sentinel"
            \/ WriteSentinel(a) /\ pc[a] = "nt_sentinel" /\ pc'[a] = "nt_unlock"
            \/ TruncateJournal(a) /\ pc[a] = "pr_truncate" /\ pc'[a] = "pr_write"
            \/ WriteKeptJournal(a) /\ pc[a] = "pr_write" /\ pc'[a] = "pr_acks"
<1>1. /\ pc \in [Actor -> Step] /\ target \in [Actor -> Run \cup {NoRun}]
      /\ todo \in [Actor -> SUBSET Kind] /\ rewrite \in [Actor -> SUBSET Line]
      /\ Boot \in Actor /\ Boot \notin Caller /\ Caller \subseteq Actor
  BY RunStoreAssumption DEF StoreInvariant, TypeOK, Actor
<1>2. /\ pc[Boot] \in {"idle", "bt_scan", "bt_orphan"}
      /\ pc'[Boot] \in {"idle", "bt_scan", "bt_orphan"}
  BY StartNext DEF StartFindsNothing
<1>3. a # Boot
  BY <1>2 DEF PublishedSteps
<1> DEFINE Apart == /\ target'[a] = target[a] /\ todo'[a] = todo[a]
                    /\ pc'[a] = pc[a] /\ rewrite'[a] = rewrite[a]
<1> USE <1>1, <1>3 DEF PublishedSteps, At, Goto
<1>4. ASSUME NEW b \in Caller, Ack(b) \/ PruneTerminalRuns(b) PROVE Apart
  BY <1>4 DEF Ack, PruneTerminalRuns, call, local
<1>5. ASSUME NEW b, NEW r, CreateRun(b, r) PROVE Apart
  BY <1>5 DEF CreateRun, call, local
<1>6. ASSUME NEW b \in Caller, NEW r \in Run, NEW step \in {"mt_lock", "um_lock", "nt_lock"},
             NEW i, NEW kinds, Begin(b, r, step, i, kinds)
      PROVE  Apart
  BY <1>6 DEF Begin, Callable, local
<1>7. ASSUME NEW b \in Actor, UnderRunLock(b) PROVE Apart
  <2>1. CASE AcquireRunLock(b) \/ BreakStaleRunLock(b) \/ ReleaseRunLock(b)
    BY <2>1 DEF AcquireRunLock, BreakStaleRunLock, ReleaseRunLock, Forget, call, local
  <2>2. CASE LoadForTerminal(b) \/ WriteResult(b) \/ WriteTerminalMeta(b)
    BY <2>2 DEF LoadForTerminal, AfterLoad, WriteResult, WriteTerminalMeta, call, local
  <2>3. CASE AppendTerminalEvent(b) \/ LoadForUpdate(b) \/ WriteUpdatedMeta(b)
    BY <2>3 DEF AppendTerminalEvent, LoadForUpdate, WriteUpdatedMeta, call, local
  <2> QED
    BY <1>7, <2>1, <2>2, <2>3 DEF UnderRunLock
<1>8. ASSUME NEW b \in Actor, UnderNoteLock(b), b # a PROVE Apart
  <2>1. CASE ReleaseNoteLock(b)
    <3>1. UNCHANGED call \/ Forget(b)
      BY <2>1 DEF ReleaseNoteLock
    <3> QED
      BY <1>8, <2>1, <3>1 DEF ReleaseNoteLock, Forget, call
  <2>2. CASE AcquireNoteLock(b) \/ BreakStaleNoteLock(b) \/ CheckSentinel(b)
    BY <1>8, <2>2 DEF AcquireNoteLock, BreakStaleNoteLock, CheckSentinel, call, local
  <2>3. CASE ReadSequence(b) \/ AppendNotification(b) \/ WriteNotificationSeq(b)
    BY <1>8, <2>3 DEF ReadSequence, AppendNotification, WriteNotificationSeq, call, local
  <2>4. CASE WriteSentinel(b) \/ WriteAck(b) \/ TruncateJournal(b)
    BY <1>8, <2>4 DEF WriteSentinel, WriteAck, TruncateJournal, call, local
  <2>5. CASE WriteKeptJournal(b) \/ WriteKeptAcks(b)
    BY <1>8, <2>5 DEF WriteKeptJournal, WriteKeptAcks, call, local
  <2> QED
    BY <1>8, <2>1, <2>2, <2>3, <2>4, <2>5 DEF UnderNoteLock
<1> DEFINE Goes == /\ target'[a] = target[a] /\ todo'[a] = todo[a]
                   /\ \/ CheckSentinel(a) /\ pc[a] = "nt_check" /\ pc'[a] = "nt_read"
                         /\ Current(a) \notin sentinel[target[a]]
                      \/ ReadSequence(a) /\ pc[a] = "nt_read" /\ pc'[a] = "nt_append"
                      \/ AppendNotification(a) /\ pc[a] = "nt_append" /\ pc'[a] = "nt_seq"
                      \/ WriteNotificationSeq(a) /\ pc[a] = "nt_seq" /\ pc'[a] = "nt_sentinel"
                      \/ WriteSentinel(a) /\ pc[a] = "nt_sentinel" /\ pc'[a] = "nt_unlock"
                      \/ TruncateJournal(a) /\ pc[a] = "pr_truncate" /\ pc'[a] = "pr_write"
                      \/ WriteKeptJournal(a) /\ pc[a] = "pr_write" /\ pc'[a] = "pr_acks"
<1>9. ASSUME UnderNoteLock(a) PROVE Goes \/ Apart
  <2>1. CASE AcquireNoteLock(a) \/ BreakStaleNoteLock(a)
    BY <2>1 DEF AcquireNoteLock, AfterLock, BreakStaleNoteLock
  <2>2. CASE ReleaseNoteLock(a)
    BY <2>2 DEF ReleaseNoteLock, Reconciling
  <2>3. CASE CheckSentinel(a)
    BY <2>3 DEF CheckSentinel, AfterCheck, call
  <2>4. CASE ReadSequence(a)
    BY <2>4 DEF ReadSequence, call
  <2>5. CASE AppendNotification(a)
    BY <2>5 DEF AppendNotification, call
  <2>6. CASE WriteNotificationSeq(a)
    BY <2>6 DEF WriteNotificationSeq, call
  <2>7. CASE WriteSentinel(a)
    BY <2>7 DEF WriteSentinel, call
  <2>8. CASE TruncateJournal(a)
    BY <2>8 DEF TruncateJournal, call
  <2>9. CASE WriteKeptJournal(a)
    BY <2>9 DEF WriteKeptJournal, call
  <2>10. CASE WriteAck(a) \/ WriteKeptAcks(a)
    BY <2>10 DEF WriteAck, WriteKeptAcks
  <2> QED
    BY <1>9, <2>1, <2>2, <2>3, <2>4, <2>5, <2>6, <2>7, <2>8, <2>9, <2>10 DEF UnderNoteLock
<1>10. ASSUME NEW b \in Actor, RemoveRunDir(b) PROVE Apart
  BY <1>10 DEF RemoveRunDir, call, local
<1>11. ASSUME Startup PROVE Apart
  <2>1. CASE StartDaemon \/ OrphanRun \/ Listen
    BY <1>3, <2>1 DEF StartDaemon, OrphanRun, Listen, call, local
  <2>2. CASE ReconcileRun \/ ReconcileNotification \/ FinishReconciliation
    BY <1>3, <2>2 DEF ReconcileRun, ReconcileNotification, FinishReconciliation, call, local
  <2> QED
    BY <1>11, <2>1, <2>2 DEF Startup
<1>12. ASSUME UNCHANGED vars PROVE Apart
  BY <1>12 DEF vars, call, local
<1>13. Goes \/ Apart
  <2> HIDE DEF Goes, Apart
  <2> QED
    BY <1>4, <1>5, <1>6, <1>7, <1>8, <1>9, <1>10, <1>11, <1>12, Steps, UndisturbedStep
<1> QED
  BY <1>13

(* Which notification a call publishes does not change meanwhile. *)
LEMMA CurrentOfStep ==
  ASSUME StoreInvariant, [Next]_vars, Undisturbed', StartFindsNothing, NEW a \in Actor,
         pc[a] \in PublishedSteps \/ pc'[a] \in PublishedSteps
  PROVE  Current(a)' = Current(a)
BY PublisherOfStep DEF Current, Reconciling

(* Nobody else is at a step under the notification lock. *)
LEMMA NoteLockIsOne ==
  ASSUME StoreInvariant, NEW a \in Actor, NEW b \in Actor,
         pc[a] \in NoteSteps, pc[b] \in NoteSteps
  PROVE  a = b
BY DEF StoreInvariant, CallsOwnLocks
-----------------------------------------------------------------------------
(* Sentinels are only written by publishers, and go with the directory.     *)
LEMMA SentinelOfStep ==
  ASSUME StoreInvariant, [Next]_vars, Undisturbed', StartFindsNothing
  PROVE  \/ sentinel' = sentinel
         \/ \E a \in Actor : WriteSentinel(a)
         \/ \E a \in Actor : RemoveRunDir(a)
<1>1. Caller \subseteq Actor
  BY ActorType
<1>2. ASSUME NEW a, Ack(a) \/ PruneTerminalRuns(a) PROVE sentinel' = sentinel
  BY <1>2 DEF Ack, PruneTerminalRuns, files
<1>3. ASSUME NEW a, NEW r, CreateRun(a, r) PROVE sentinel' = sentinel
  BY <1>3 DEF CreateRun
<1>4. ASSUME NEW a, NEW r, NEW step, NEW i, NEW kinds, Begin(a, r, step, i, kinds)
      PROVE  sentinel' = sentinel
  BY <1>4 DEF Begin, files
<1>5. ASSUME NEW a \in Actor, UnderRunLock(a) PROVE sentinel' = sentinel
  BY <1>5 DEF UnderRunLock, AcquireRunLock, BreakStaleRunLock, ReleaseRunLock, LoadForTerminal,
     WriteResult, WriteTerminalMeta, AppendTerminalEvent, LoadForUpdate, WriteUpdatedMeta, files
<1>6. ASSUME NEW a \in Actor, UnderNoteLock(a), ~WriteSentinel(a) PROVE sentinel' = sentinel
  BY <1>6 DEF UnderNoteLock, AcquireNoteLock, BreakStaleNoteLock, ReleaseNoteLock, CheckSentinel,
     ReadSequence, AppendNotification, WriteNotificationSeq, WriteAck, TruncateJournal,
     WriteKeptJournal, WriteKeptAcks, files
<1>7. CASE Startup
  <2>1. ~ReconcileNotification
    BY DEF ReconcileNotification, At, StartFindsNothing
  <2> QED
    BY <1>7, <2>1 DEF Startup, StartDaemon, ReconcileRun, FinishReconciliation, OrphanRun, Listen,
       files
<1>8. CASE UNCHANGED vars
  BY <1>8 DEF vars, files
<1> QED
  BY <1>1, <1>2, <1>3, <1>4, <1>5, <1>6, <1>7, <1>8, Steps, UndisturbedStep

(* A call that is no longer removing directories has removed all it chose. *)
LEMMA DoomedOfStep ==
  ASSUME StoreInvariant, [Next]_vars, Undisturbed', StartFindsNothing, NEW a \in Actor
  PROVE  /\ doomed'[a] = doomed[a] \/ pc[a] # "pr_rm"
         /\ \/ pc'[a] = "pr_rm"
            \/ doomed'[a] \subseteq doomed[a] /\ pc[a] # "pr_rm"
            \/ /\ doomed'[a] = doomed[a]
               /\ \A r \in doomed[a] : status'[r] = "pruned"
<1>1. /\ pc \in [Actor -> Step] /\ doomed \in [Actor -> SUBSET Run]
      /\ status \in [Run -> Status] /\ Caller \subseteq Actor
  BY DEF StoreInvariant, TypeOK, Actor
<1> DEFINE Same == doomed'[a] = doomed[a] /\ (pc'[a] = "pr_rm" <=> pc[a] = "pr_rm")
           Fewer == doomed'[a] \subseteq doomed[a] /\ pc[a] # "pr_rm"
           Chosen == pc[a] # "pr_rm" /\ pc'[a] = "pr_rm"
           Removed == doomed'[a] = doomed[a] /\ \A r \in doomed[a] : status'[r] = "pruned"
           Goes == Same \/ Fewer \/ Chosen \/ Removed
<1> USE <1>1 DEF At, Goto
<1>2. ASSUME NEW b \in Caller, Ack(b) \/ PruneTerminalRuns(b) PROVE Goes
  BY <1>2 DEF Ack, PruneTerminalRuns, local
<1>3. ASSUME NEW b, NEW r, CreateRun(b, r) PROVE Same
  BY <1>3 DEF CreateRun, local
<1>4. ASSUME NEW b \in Caller, NEW r \in Run, NEW step \in {"mt_lock", "um_lock", "nt_lock"},
             NEW i, NEW kinds, Begin(b, r, step, i, kinds)
      PROVE  Same
  BY <1>4 DEF Begin, Callable, local
<1>5. ASSUME NEW b \in Actor, UnderRunLock(b) PROVE Same
  <2>1. CASE AcquireRunLock(b) \/ BreakStaleRunLock(b) \/ ReleaseRunLock(b)
    BY <2>1 DEF AcquireRunLock, BreakStaleRunLock, ReleaseRunLock, local
  <2>2. CASE LoadForTerminal(b) \/ WriteResult(b) \/ WriteTerminalMeta(b)
    BY <2>2 DEF LoadForTerminal, AfterLoad, WriteResult, WriteTerminalMeta, local
  <2>3. CASE AppendTerminalEvent(b) \/ LoadForUpdate(b) \/ WriteUpdatedMeta(b)
    BY <2>3 DEF AppendTerminalEvent, LoadForUpdate, WriteUpdatedMeta, local
  <2> QED
    BY <1>5, <2>1, <2>2, <2>3 DEF UnderRunLock
<1>6. ASSUME NEW b \in Actor, UnderNoteLock(b) PROVE Same \/ Fewer
  <2>1. CASE ReleaseNoteLock(b)
    <3>1. CASE a = b
      BY <2>1, <3>1 DEF ReleaseNoteLock
    <3>2. CASE a # b
      BY <2>1, <3>2 DEF ReleaseNoteLock
    <3> QED
      BY <3>1, <3>2
  <2>2. CASE AcquireNoteLock(b)
    BY <2>2 DEF AcquireNoteLock, AfterLock, local
  <2>3. CASE BreakStaleNoteLock(b) \/ CheckSentinel(b) \/ ReadSequence(b)
    BY <2>3 DEF BreakStaleNoteLock, CheckSentinel, AfterCheck, ReadSequence, local
  <2>4. CASE AppendNotification(b) \/ WriteNotificationSeq(b) \/ WriteSentinel(b)
    BY <2>4 DEF AppendNotification, WriteNotificationSeq, WriteSentinel, local
  <2>5. CASE WriteAck(b) \/ TruncateJournal(b)
    BY <2>5 DEF WriteAck, TruncateJournal, local
  <2>6. CASE WriteKeptJournal(b) \/ WriteKeptAcks(b)
    BY <2>6 DEF WriteKeptJournal, WriteKeptAcks, local
  <2> QED
    BY <1>6, <2>1, <2>2, <2>3, <2>4, <2>5, <2>6 DEF UnderNoteLock
<1>7. ASSUME NEW b \in Actor, RemoveRunDir(b) PROVE Same \/ Removed
  <2>1. doomed' = doomed
    BY <1>7 DEF RemoveRunDir, local
  <2>2. CASE a # b
    BY <1>7, <2>1, <2>2 DEF RemoveRunDir
  <2>3. CASE a = b
    <3>1. PICK r \in doomed[a] :
            /\ status' = [status EXCEPT ![r] = "pruned"]
            /\ pc' = [pc EXCEPT ![a] = IF \A d \in doomed[a] \ {r} : status[d] = "pruned"
                                       THEN "pr_lock" ELSE "pr_rm"]
      BY <1>7, <2>3 DEF RemoveRunDir
    <3>2. CASE \A d \in doomed[a] \ {r} : status[d] = "pruned"
      BY <2>1, <3>1, <3>2
    <3>3. CASE ~\A d \in doomed[a] \ {r} : status[d] = "pruned"
      BY <1>7, <2>1, <2>3, <3>1, <3>3 DEF RemoveRunDir
    <3> QED
      BY <3>2, <3>3
  <2> QED
    BY <2>2, <2>3
<1>8. ASSUME Startup PROVE Goes
  <2>1. CASE StartDaemon
    BY <2>1 DEF StartDaemon, local, StoreInvariant, BootIsAlone
  <2>2. CASE ReconcileRun \/ ReconcileNotification
    BY <2>2 DEF ReconcileRun, ReconcileNotification, local
  <2>3. CASE FinishReconciliation \/ OrphanRun \/ Listen
    BY <2>3 DEF FinishReconciliation, OrphanRun, Listen, local
  <2> QED
    BY <1>8, <2>1, <2>2, <2>3 DEF Startup
<1>9. ASSUME UNCHANGED vars PROVE Goes
  BY <1>9 DEF vars, local
<1>10. Goes
  <2> HIDE DEF Same, Fewer, Chosen, Removed
  <2> QED
    BY <1>2, <1>3, <1>4, <1>5, <1>6, <1>7, <1>8, <1>9, Steps, UndisturbedStep
<1>11. CASE Same
  BY <1>11
<1> QED
  BY <1>10, <1>11

(* A pruned run stays pruned, and a step makes or removes one directory. *)
LEMMA PrunedStays ==
  ASSUME StoreInvariant, [Next]_vars, NEW r \in Run, status[r] = "pruned"
  PROVE  status'[r] = "pruned"
<1>1. status \in [Run -> Status]
  BY DEF StoreInvariant, TypeOK
<1> QED
  BY <1>1, StatusOfRun DEF Terminal, TerminalStatus
-----------------------------------------------------------------------------
LEMMA PublisherRun ==
  ASSUME StoreInvariant, NEW a \in Actor, pc[a] \in PublishSteps
  PROVE  target[a] \in Run /\ status[target[a]] \notin {"absent", "pruned"}
BY DEF StoreInvariant, CallsOnReadableRuns, Readable

(* A line is recorded when it is appended, and forgotten with its run only. *)
LEMMA RecordedOfStep ==
  ASSUME StoreInvariant, [Next]_vars, Undisturbed', StartFindsNothing, PruningIsOrdered
  PROVE  /\ \A a \in Actor : AppendNotification(a) => Recorded' = Recorded \cup {NewLine(a)}
         /\ \A a \in Actor : WriteKeptJournal(a) =>
              Recorded' = {m \in Recorded : m.run \notin doomed[a]}
         /\ \/ \E a \in Actor : AppendNotification(a) \/ WriteKeptJournal(a)
            \/ Recorded' = Recorded
<1>1. /\ pc \in [Actor -> Step] /\ rewrite \in [Actor -> SUBSET Line]
      /\ journal \subseteq issued /\ \A a \in Actor : rewrite[a] \subseteq issued
  BY DEF StoreInvariant, TypeOK, LinesTellTheTruth
<1>2. ASSUME NEW a \in Actor, pc[a] \in {"nt_append", "pr_truncate"}
      PROVE  Recorded = journal
  <2>1. \A b \in Actor : pc[b] # "pr_write"
    BY <1>2, NoteLockIsOne DEF NoteSteps
  <2> QED
    BY <1>1, <2>1 DEF Recorded
<1>3. ASSUME NEW a \in Actor, AppendNotification(a)
      PROVE  Recorded' = Recorded \cup {NewLine(a)}
  <2>1. /\ pc[a] = "nt_append" /\ pc' = [pc EXCEPT ![a] = "nt_seq"]
        /\ journal' = journal \cup {NewLine(a)} /\ issued' = issued \cup {NewLine(a)}
    BY <1>3 DEF AppendNotification, At, Goto
  <2>2. \A b \in Actor : pc'[b] # "pr_write"
    BY <1>1, <2>1, NoteLockIsOne DEF NoteSteps
  <2>3. Recorded' = journal'
    BY <1>1, <2>1, <2>2 DEF Recorded
  <2> QED
    BY <1>2, <2>1, <2>3
<1>4. ASSUME NEW a \in Actor, WriteKeptJournal(a)
      PROVE  Recorded' = {m \in Recorded : m.run \notin doomed[a]}
  <2>1. /\ pc[a] = "pr_write" /\ pc' = [pc EXCEPT ![a] = "pr_acks"] /\ issued' = issued
        /\ journal' = {m \in rewrite[a] : m.run \notin doomed[a]}
    BY <1>4 DEF WriteKeptJournal, KeptLines, At, Goto
  <2>2. \A b \in Actor : pc[b] = "pr_write" => b = a
    BY <2>1, NoteLockIsOne DEF NoteSteps
  <2>3. Recorded = rewrite[a]
    BY <1>1, <2>1, <2>2 DEF Recorded, PruningIsOrdered
  <2>4. \A b \in Actor : pc'[b] # "pr_write"
    BY <1>1, <2>1, <2>2
  <2>5. Recorded' = journal'
    BY <1>1, <2>1, <2>4 DEF Recorded
  <2> QED
    BY <2>1, <2>3, <2>5
<1>5. ASSUME NEW a \in Actor, TruncateJournal(a) PROVE Recorded' = Recorded
  <2>1. /\ pc[a] = "pr_truncate" /\ pc' = [pc EXCEPT ![a] = "pr_write"] /\ issued' = issued
        /\ journal' = {} /\ rewrite' = [rewrite EXCEPT ![a] = journal]
    BY <1>5 DEF TruncateJournal, At, Goto
  <2>2. \A b \in Actor : pc'[b] = "pr_write" <=> b = a
    BY <1>1, <2>1, NoteLockIsOne DEF NoteSteps
  <2>3. Recorded' = journal
    BY <1>1, <2>1, <2>2 DEF Recorded
  <2> QED
    BY <1>2, <2>1, <2>3
<1>6. ASSUME \A a \in Actor : ~AppendNotification(a) /\ ~WriteKeptJournal(a) /\ ~TruncateJournal(a)
      PROVE  Recorded' = Recorded
  <2>1. journal' = journal /\ issued' = issued
    BY <1>6, JournalOfStep
  <2>2. ASSUME NEW a \in Actor, pc[a] = "pr_write" \/ pc'[a] = "pr_write"
        PROVE  pc'[a] = pc[a] /\ rewrite'[a] = rewrite[a]
    BY <1>6, <2>2, PublisherOfStep DEF PublishedSteps
  <2> QED
    BY <2>1, <2>2 DEF Recorded
<1> QED
  BY <1>3, <1>4, <1>5, <1>6

LEMMA PruningNext ==
  ASSUME StoreInvariant, [Next]_vars, Undisturbed', StartFindsNothing, PruningIsOrdered
  PROVE  PruningIsOrdered'
<1>1. /\ pc \in [Actor -> Step] /\ sentinel \in [Run -> SUBSET Kind]
      /\ status \in [Run -> Status] /\ doomed \in [Actor -> SUBSET Run]
      /\ doomed' \in [Actor -> SUBSET Run]
  BY TypeNext DEF StoreInvariant, TypeOK
<1>2. ASSUME NEW r \in Run, status'[r] \in {"absent", "pruned"} PROVE sentinel'[r] = {}
  <2>1. status[r] \in {"absent", "pruned"} => sentinel[r] = {}
    BY DEF PruningIsOrdered, Readable
  <2>2. ASSUME NEW a \in Actor, RemoveRunDir(a) PROVE sentinel'[r] = {}
    <3>1. PICK d \in doomed[a] : /\ status' = [status EXCEPT ![d] = "pruned"]
                                 /\ sentinel' = [sentinel EXCEPT ![d] = {}]
      BY <2>2 DEF RemoveRunDir
    <3> QED
      BY <1>1, <1>2, <2>1, <3>1
  <2>3. ASSUME NEW a \in Actor, WriteSentinel(a) PROVE sentinel'[r] = {}
    <3>1. /\ pc[a] = "nt_sentinel" /\ status' = status
          /\ sentinel' = [sentinel EXCEPT ![target[a]] = @ \cup {Current(a)}]
      BY <2>3 DEF WriteSentinel, At
    <3>2. target[a] # r
      BY <1>2, <3>1, PublisherRun DEF PublishSteps
    <3> QED
      BY <1>1, <1>2, <2>1, <3>1, <3>2
  <2>4. ASSUME sentinel' = sentinel, \A a \in Actor : ~RemoveRunDir(a) PROVE sentinel'[r] = {}
    <3>1. ASSUME NEW a \in Actor, WriteTerminalMeta(a)
          PROVE  \E q \in Run : status' = [status EXCEPT ![q] = intent[a].status]
                                /\ intent[a].status \in TerminalStatus
      BY <3>1 DEF WriteTerminalMeta, At, StoreInvariant, CallsKnowTheirRun, KnowsItsRun,
         CallsOnReadableRuns, RunSteps, Terminal
    <3>2. status[r] \in {"absent", "pruned"}
      BY <1>1, <1>2, <2>4, <3>1, StatusOfStep DEF TerminalStatus
    <3> QED
      BY <2>1, <2>4, <3>2
  <2> QED
    BY <2>2, <2>3, <2>4, SentinelOfStep
<1>3. ASSUME NEW a \in Actor, pc'[a] # "pr_rm", NEW r \in doomed'[a] PROVE status'[r] = "pruned"
  <2>1. pc[a] # "pr_rm" => \A q \in doomed[a] : q \in Run /\ status[q] = "pruned"
    BY <1>1 DEF PruningIsOrdered
  <2> QED
    BY <1>3, <2>1, DoomedOfStep, PrunedStays
<1>4. ASSUME NEW a \in Actor, pc'[a] = "pr_write" PROVE journal' = {}
  <2>1. CASE TruncateJournal(a)
    BY <2>1 DEF TruncateJournal
  <2>2. CASE ~TruncateJournal(a)
    <3>1. pc[a] = "pr_write" /\ ~WriteKeptJournal(a)
      BY <1>1, <1>4, <2>2, PublisherOfStep DEF PublishedSteps, WriteKeptJournal, Goto
    <3>2. \A b \in Actor : ~AppendNotification(b) /\ ~WriteKeptJournal(b)
      BY <3>1, NoteLockIsOne DEF NoteSteps, AppendNotification, WriteKeptJournal, At
    <3> QED
      BY <3>1, <3>2, JournalOfStep DEF PruningIsOrdered
  <2> QED
    BY <2>1, <2>2
<1> QED
  BY <1>2, <1>3, <1>4 DEF PruningIsOrdered, Readable
-----------------------------------------------------------------------------
(* Each sentinel keeps its line: what is pruned has no sentinels any more.  *)
LEMMA BackedNext ==
  ASSUME StoreInvariant, [Next]_vars, Undisturbed', SentinelInvariant
  PROVE  SentinelsAreBacked'
<1>1. /\ StartFindsNothing /\ PruningIsOrdered /\ SentinelsAreBacked /\ PublishersAreRight
      /\ sentinel \in [Run -> SUBSET Kind] /\ doomed \in [Actor -> SUBSET Run]
  BY UndisturbedStep DEF SentinelInvariant, StoreInvariant, TypeOK
<1>2. ASSUME NEW r \in Run, NEW k \in sentinel[r], k \in sentinel'[r]
      PROVE  RecordedFor(r, k)' \/ Dooming(r)'
  <2>1. ASSUME NEW b \in Actor, r \in doomed[b] PROVE Dooming(r)'
    <3>1. pc[b] = "pr_rm"
      <4>1. pc[b] # "pr_rm" => status[r] = "pruned"
        BY <1>1, <2>1 DEF PruningIsOrdered
      <4>2. status[r] # "pruned"
        BY <1>1, <1>2 DEF PruningIsOrdered, Readable
      <4> QED
        BY <4>1, <4>2
    <3>2. doomed'[b] = doomed[b]
      BY <1>1, <3>1, DoomedOfStep
    <3> QED
      BY <2>1, <3>2 DEF Dooming
  <2>2. ASSUME NEW m \in Recorded, m.run = r, m.kind = k PROVE RecordedFor(r, k)' \/ Dooming(r)'
    <3>1. CASE m \in Recorded'
      BY <2>2, <3>1 DEF RecordedFor
    <3>2. CASE m \notin Recorded'
      <4>1. PICK a \in Actor : WriteKeptJournal(a) /\ m.run \in doomed[a]
        BY <1>1, <2>2, <3>2, RecordedOfStep
      <4> QED
        BY <2>1, <2>2, <4>1
    <3> QED
      BY <3>1, <3>2
  <2>3. RecordedFor(r, k) \/ Dooming(r)
    BY <1>1, <1>2 DEF SentinelsAreBacked
  <2> QED
    BY <2>1, <2>2, <2>3 DEF RecordedFor, Dooming
<1>3. ASSUME NEW r \in Run, NEW k, k \notin sentinel[r], k \in sentinel'[r]
      PROVE  RecordedFor(r, k)'
  <2>1. ASSUME NEW a \in Actor, RemoveRunDir(a) PROVE FALSE
    BY <1>1, <1>3, <2>1 DEF RemoveRunDir
  <2>2. PICK a \in Actor : WriteSentinel(a)
    BY <1>1, <1>3, <2>1, SentinelOfStep
  <2>3. pc[a] = "nt_sentinel" /\ r = target[a] /\ k = Current(a)
    BY <1>1, <1>3, <2>2 DEF WriteSentinel, At
  <2>4. RecordedFor(r, k)
    BY <1>1, <2>3 DEF PublishersAreRight, AppendSteps
  <2>5. Recorded' = Recorded
    <3>1. \A b \in Actor : ~AppendNotification(b) /\ ~WriteKeptJournal(b)
      BY <2>3, NoteLockIsOne DEF NoteSteps, AppendNotification, WriteKeptJournal, At
    <3> QED
      BY <1>1, <3>1, RecordedOfStep
  <2> QED
    BY <2>4, <2>5 DEF RecordedFor
<1> QED
  BY <1>2, <1>3 DEF SentinelsAreBacked

(* Each line gets its sentinel, before anybody else may append another. *)
LEMMA MarkedNext ==
  ASSUME StoreInvariant, [Next]_vars, Undisturbed', SentinelInvariant
  PROVE  LinesAreMarked'
<1>1. /\ StartFindsNothing /\ PruningIsOrdered /\ LinesAreMarked
      /\ sentinel \in [Run -> SUBSET Kind] /\ doomed \in [Actor -> SUBSET Run]
      /\ status \in [Run -> Status] /\ issued \subseteq Line
      /\ pc \in [Actor -> Step] /\ Recorded \subseteq Line
  BY UndisturbedStep DEF SentinelInvariant, StoreInvariant, TypeOK, Recorded
<1> DEFINE Marked(m) == \/ status'[m.run] = "pruned"
                        \/ m.kind \in sentinel'[m.run]
                        \/ \E a \in Actor : Vouching(a, m.run, m.kind)'
<1>2. ASSUME NEW m \in Recorded PROVE Marked(m)
  <2>1. m.run \in Run
    BY <1>1, <1>2 DEF Line
  <2>2. CASE status[m.run] = "pruned"
    BY <2>1, <2>2, PrunedStays
  <2>3. CASE m.kind \in sentinel[m.run]
    <3>1. ASSUME NEW a \in Actor, RemoveRunDir(a) PROVE Marked(m)
      BY <1>1, <2>1, <2>3, <3>1 DEF RemoveRunDir
    <3>2. ASSUME NEW a \in Actor, WriteSentinel(a) PROVE Marked(m)
      BY <1>1, <2>1, <2>3, <3>2 DEF WriteSentinel
    <3> QED
      BY <1>1, <2>3, <3>1, <3>2, SentinelOfStep
  <2>4. ASSUME NEW a \in Actor, Vouching(a, m.run, m.kind) PROVE Marked(m)
    <3>1. /\ pc[a] \in {"nt_seq", "nt_sentinel"} /\ target[a] = m.run /\ Current(a) = m.kind
      BY <2>4 DEF Vouching, AppendSteps
    <3>2. target'[a] = target[a] /\ Current(a)' = Current(a)
      BY <1>1, <3>1, PublisherOfStep, CurrentOfStep DEF PublishedSteps
    <3>3. CASE pc'[a] \in {"nt_seq", "nt_sentinel"}
      BY <3>1, <3>2, <3>3 DEF Vouching, AppendSteps
    <3>4. CASE pc'[a] \notin {"nt_seq", "nt_sentinel"}
      <4>1. WriteSentinel(a)
        BY <1>1, <3>1, <3>4, PublisherOfStep DEF PublishedSteps
      <4> QED
        BY <1>1, <2>1, <3>1, <4>1 DEF WriteSentinel
    <3> QED
      BY <3>3, <3>4
  <2> QED
    BY <1>1, <1>2, <2>2, <2>3, <2>4 DEF LinesAreMarked
<1>3. ASSUME NEW a \in Actor, AppendNotification(a), NEW m, m = NewLine(a) PROVE Marked(m)
  <2>1. /\ pc[a] = "nt_append" /\ pc'[a] = "nt_seq" /\ m.run = target[a] /\ m.kind = Current(a)
    BY <1>1, <1>3 DEF AppendNotification, NewLine, At, Goto
  <2>2. target'[a] = target[a] /\ Current(a)' = Current(a)
    BY <1>1, <2>1, PublisherOfStep, CurrentOfStep DEF PublishedSteps
  <2> QED
    BY <2>1, <2>2 DEF Vouching, AppendSteps
<1>4. \A m \in Recorded' : m \in Recorded \/ \E a \in Actor : AppendNotification(a) /\ m = NewLine(a)
  BY <1>1, RecordedOfStep
<1> HIDE DEF Marked
<1>5. \A m \in Recorded' : Marked(m)
  BY <1>2, <1>3, <1>4
<1> QED
  BY <1>5 DEF Marked, LinesAreMarked

(* Who has found no sentinel under the lock is the only one to append.      *)
LEMMA OneLineNext ==
  ASSUME StoreInvariant, [Next]_vars, Undisturbed', SentinelInvariant
  PROVE  OneLinePerKind'
<1>1. /\ StartFindsNothing /\ PruningIsOrdered /\ LinesAreMarked /\ OneLinePerKind
      /\ PublishersAreRight
  BY UndisturbedStep DEF SentinelInvariant
<1>2. ASSUME NEW a \in Actor, AppendNotification(a), NEW m \in Recorded,
             m.run = NewLine(a).run, m.kind = NewLine(a).kind
      PROVE  FALSE
  <2>1. pc[a] = "nt_append" /\ m.run = target[a] /\ m.kind = Current(a)
    BY <1>2 DEF AppendNotification, NewLine, At
  <2>2. status[m.run] # "pruned"
    BY <2>1, PublisherRun DEF PublishSteps
  <2>3. m.kind \notin sentinel[m.run]
    BY <1>1, <2>1 DEF PublishersAreRight
  <2>4. \A b \in Actor : ~Vouching(b, m.run, m.kind)
    BY <2>1, NoteLockIsOne DEF NoteSteps, Vouching, AppendSteps
  <2> QED
    BY <1>1, <1>2, <2>2, <2>3, <2>4 DEF LinesAreMarked
<1>3. CASE \E a \in Actor : AppendNotification(a)
  <2>1. PICK a \in Actor : AppendNotification(a)
    BY <1>3
  <2>2. Recorded' = Recorded \cup {NewLine(a)}
    BY <1>1, <2>1, RecordedOfStep
  <2> QED
    BY <1>1, <1>2, <2>1, <2>2 DEF OneLinePerKind
<1>4. CASE \A a \in Actor : ~AppendNotification(a)
  <2>1. Recorded' \subseteq Recorded
    BY <1>1, <1>4, RecordedOfStep
  <2> QED
    BY <1>1, <2>1 DEF OneLinePerKind
<1> QED
  BY <1>3, <1>4

(* What a publisher has read stays true while it holds the lock. *)
LEMMA PublishersNext ==
  ASSUME StoreInvariant, [Next]_vars, Undisturbed', SentinelInvariant
  PROVE  PublishersAreRight'
<1>1. /\ StartFindsNothing /\ PruningIsOrdered /\ PublishersAreRight
      /\ sentinel \in [Run -> SUBSET Kind] /\ pc \in [Actor -> Step]
  BY UndisturbedStep DEF SentinelInvariant, StoreInvariant, TypeOK
<1>2. ASSUME NEW a \in Actor, pc'[a] \in {"nt_read", "nt_append"}
      PROVE  Current(a)' \notin sentinel'[target'[a]]
  <2>1. target'[a] = target[a] /\ Current(a)' = Current(a)
    BY <1>1, <1>2, PublisherOfStep, CurrentOfStep DEF PublishedSteps
  <2>2. pc[a] \in {"nt_check", "nt_read", "nt_append"} /\ Current(a) \notin sentinel[target[a]]
    BY <1>1, <1>2, PublisherOfStep DEF PublishedSteps, PublishersAreRight
  <2>3. target[a] \in Run
    BY <2>2, PublisherRun DEF PublishSteps
  <2>4. \A b \in Actor : ~WriteSentinel(b)
    BY <2>2, NoteLockIsOne DEF NoteSteps, WriteSentinel, At
  <2>5. ASSUME NEW b \in Actor, RemoveRunDir(b) PROVE sentinel'[target[a]] \subseteq sentinel[target[a]]
    BY <1>1, <2>3, <2>5 DEF RemoveRunDir
  <2>6. sentinel'[target[a]] \subseteq sentinel[target[a]]
    BY <1>1, <2>4, <2>5, SentinelOfStep
  <2> QED
    BY <2>1, <2>2, <2>6
<1>3. ASSUME NEW a \in Actor, pc'[a] \in AppendSteps
      PROVE  \E m \in Recorded' : m.run = target'[a] /\ m.kind = Current(a)'
  <2>1. target'[a] = target[a] /\ Current(a)' = Current(a)
    BY <1>1, <1>3, PublisherOfStep, CurrentOfStep DEF PublishedSteps, AppendSteps
  <2>2. CASE pc[a] \in AppendSteps
    <3>1. \A b \in Actor : ~AppendNotification(b) /\ ~WriteKeptJournal(b)
      BY <2>2, NoteLockIsOne DEF NoteSteps, AppendSteps, AppendNotification, WriteKeptJournal, At
    <3>2. Recorded' = Recorded
      BY <1>1, <3>1, RecordedOfStep
    <3>3. \E m \in Recorded : m.run = target[a] /\ m.kind = Current(a)
      BY <1>1, <2>2 DEF PublishersAreRight, RecordedFor
    <3> QED
      BY <2>1, <3>2, <3>3
  <2>3. CASE pc[a] \notin AppendSteps
    <3>1. AppendNotification(a)
      BY <1>1, <1>3, <2>3, PublisherOfStep DEF PublishedSteps, AppendSteps
    <3>2. NewLine(a) \in Recorded'
      BY <1>1, <3>1, RecordedOfStep
    <3>3. NewLine(a).run = target[a] /\ NewLine(a).kind = Current(a)
      BY DEF NewLine
    <3> QED
      BY <2>1, <3>2, <3>3
  <2> QED
    BY <2>2, <2>3
<1> QED
  BY <1>2, <1>3 DEF PublishersAreRight, AppendSteps, RecordedFor
-----------------------------------------------------------------------------
LEMMA SentinelInit == Init => SentinelInvariant
<1> SUFFICES ASSUME Init PROVE SentinelInvariant
  OBVIOUS
<1>1. pc = [a \in Actor |-> "idle"] /\ Boot \in Actor /\ journal = {} /\ issued = {}
  BY ActorType DEF Init
<1>2. StartFindsNothing
  BY <1>1 DEF Init, StartFindsNothing
<1>3. PruningIsOrdered
  BY DEF Init, PruningIsOrdered
<1>4. Recorded = {}
  BY <1>1 DEF Recorded
<1>5. SentinelsAreBacked
  BY DEF Init, SentinelsAreBacked
<1>6. PublishersAreRight
  BY <1>1 DEF PublishersAreRight, AppendSteps
<1> QED
  BY <1>2, <1>3, <1>4, <1>5, <1>6 DEF SentinelInvariant, LinesAreMarked, OneLinePerKind

LEMMA SentinelNext == StoreInvariant /\ SentinelInvariant /\ [Next]_vars => SentinelInvariant'
<1> SUFFICES ASSUME StoreInvariant, SentinelInvariant, [Next]_vars, Undisturbed'
             PROVE  /\ StartFindsNothing' /\ PruningIsOrdered' /\ SentinelsAreBacked'
                    /\ LinesAreMarked' /\ OneLinePerKind' /\ PublishersAreRight'
  BY DEF SentinelInvariant
<1>1. StartFindsNothing /\ PruningIsOrdered
  BY UndisturbedStep DEF SentinelInvariant
<1> QED
  BY <1>1, StartNext, PruningNext, BackedNext, MarkedNext, OneLineNext, PublishersNext

(* The second invariant, about the store before the first kill and the      *)
(* first failing call, holds in every reachable state.                      *)
THEOREM SentinelInvariance == Spec => []SentinelInvariant
BY Invariance, SentinelInit, SentinelNext, PTL DEF Spec

(* A sentinel is written after its line and goes before it: as long as no   *)
(* call is killed or fails half way, whatever sentinel stops a second       *)
(* notification, the first one is in the journal or about to be put back    *)
(* there, also while the notifications of other runs are pruned.            *)
THEOREM SentinelsVouch == Spec => [](Undisturbed => SentinelHasLine)
<1>1. StoreInvariant /\ SentinelInvariant => (Undisturbed => SentinelHasLine)
  <2> SUFFICES ASSUME StoreInvariant, SentinelInvariant, Undisturbed,
                      NEW r \in Run, NEW k \in sentinel[r]
               PROVE  Journalled(r, k) \/ Rewritten(r, k) \/ Dooming(r)
    BY DEF SentinelHasLine
  <2>1. RecordedFor(r, k) \/ Dooming(r)
    BY DEF SentinelInvariant, SentinelsAreBacked
  <2> QED
    BY <2>1 DEF RecordedFor, Recorded, Journalled, Rewritten, At
<1> QED
  BY <1>1, Invariance, SentinelInvariance, PTL

(* However many errors of a run are recorded at once, and whether its end   *)
(* comes between them, one fatal_error notification is published: sentinel  *)
(* and journal are read and written under one hold of the notification lock *)
(* (appendFatalErrorNotificationIfNew), as long as nobody is killed between *)
(* the two writes and none of them fails.                                   *)
THEOREM OneFatalErrorIsPublished == Spec => [](Undisturbed => OneFatalNotification)
<1>1. StoreInvariant /\ SentinelInvariant => (Undisturbed => OneFatalNotification)
  <2> SUFFICES ASSUME StoreInvariant, SentinelInvariant, Undisturbed
               PROVE  OneFatalNotification
    OBVIOUS
  <2>1. journal \subseteq Recorded
    BY DEF StoreInvariant, LinesTellTheTruth, Recorded
  <2>2. \A m, n \in Recorded : m.run = n.run /\ m.kind = n.kind => m = n
    BY DEF SentinelInvariant, OneLinePerKind
  <2> QED
    BY <2>1, <2>2 DEF OneFatalNotification
<1> QED
  BY <1>1, Invariance, SentinelInvariance, PTL
=============================================================================
