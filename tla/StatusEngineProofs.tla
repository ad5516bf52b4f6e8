------------------------- MODULE StatusEngineProofs -------------------------
(***************************************************************************)
(* Theorems about StatusEngine, for any number of runs, signals,           *)
(* registrations, slots, overlapping recomputes and troubles: the status   *)
(* that the user's hooks were shown last is the one of now, and the        *)
(* sessions that the daemon knows are those that are there.                *)
(***************************************************************************)
EXTENDS StatusEngine, FiniteSetTheorems, TLAPS

Count == 0..Cardinality(Run)
Last == {"never", "fresh", "old"}
Entry == [waiting : BOOLEAN, turn : BOOLEAN, ended : BOOLEAN, last : Last]
Stale == {"off", "armed", "due"}
Slot == [pending : BOOLEAN, stale : Stale, key : Key \cup {NoKey}]
Busy == [at : {"runs", "notifications"}, slot : 1..MaxSlot, entry : 1..MaxEntry,
         running : Count, runs : SUBSET Run]
RunState == {"none", "created", "running", "ending", "ended", "pruned"}
CliState == [at : {"idle", "signal", "read_sidecar", "register", "retry", "applied", "lost"},
             event : Event \cup {"none"}]
-----------------------------------------------------------------------------
(* What the operators return. *)

LEMMA Bounds == MaxEntry \in Nat \ {0} /\ MaxSlot \in Nat \ {0} /\ MaxTrouble \in Nat
                /\ IsFiniteSet(Run) /\ Cardinality(Run) \in Nat
BY StatusAssumption, FS_CardinalityType

(* The two counts of collectOwnedRunSnapshot. *)
LEMMA CountsInRange ==
  /\ Running \in Count /\ Failed \in Count
  /\ \A runs \in SUBSET Run : FailedOf(runs) \in Count
<1>1. ASSUME NEW S \in SUBSET Run PROVE Cardinality(S) \in Count
  BY Bounds, FS_Subset, FS_CardinalityType DEF Count
<1>2. {r \in Listed : run[r] \in {"created", "running"}} \in SUBSET Run
  BY DEF Listed
<1>3. \A runs \in SUBSET Run : {r \in runs : fatal[r] = "unacked"} \in SUBSET Run
  OBVIOUS
<1>4. \A runs \in SUBSET Run : FailedOf(runs) \in Count
  BY <1>1, <1>3 DEF FailedOf
<1>5. Listed \in SUBSET Run
  BY DEF Listed
<1> QED
  BY <1>1, <1>2, <1>4, <1>5 DEF Running, Failed

LEMMA ZeroIsCount == 0 \in Count
BY Bounds DEF Count

LEMMA LiveStateType ==
  ASSUME NEW e \in Entry, NEW running \in Count, NEW failed \in Count
  PROVE  LiveState(e, running, failed) \in State \ {"stale"}
<1>1. running \in Nat /\ failed \in Nat
  BY Bounds DEF Count
<1>2. CASE failed > 0
  BY <1>1, <1>2 DEF LiveState, State
<1>3. CASE failed = 0 /\ running > 0
  BY <1>1, <1>3 DEF LiveState, State
<1>4. CASE failed = 0 /\ running = 0 /\ e.waiting
  BY <1>1, <1>4 DEF LiveState, State
<1>5. CASE failed = 0 /\ running = 0 /\ ~e.waiting /\ e.turn
  BY <1>1, <1>5 DEF LiveState, State
<1>6. CASE failed = 0 /\ running = 0 /\ ~e.waiting /\ ~e.turn
  BY <1>1, <1>6 DEF LiveState, State
<1> QED
  BY <1>1, <1>2, <1>3, <1>4, <1>5, <1>6

LEMMA StatusOfType ==
  ASSUME NEW e \in Entry, NEW running \in Count, NEW failed \in Count
  PROVE  StatusOf(e, running, failed) \in Key /\ StatusOf(e, running, failed) # NoKey
<1>1. StateShown(e, running, failed) \in State
  BY LiveStateType DEF StateShown, State
<1>2. StatusOf(e, running, failed) \in Key
  BY <1>1 DEF StatusOf, Key, Count
<1>3. "none" \notin State
  BY DEF State
<1>4. StatusOf(e, running, failed).state # NoKey.state
  BY <1>1, <1>3 DEF StatusOf, NoKey
<1> QED
  BY <1>2, <1>4

LEMMA NewOnes == Fresh \in Entry /\ NewSlot \in Slot /\ NoJob.slot = 0 /\ NoJob.at = "idle"
BY DEF Fresh, Entry, Last, NewSlot, Slot, Stale, NoJob

LEMMA BusyIsBusy == \A b \in Busy : b # NoJob
<1>1. \A b \in Busy : b.at # "idle"
  BY DEF Busy
<1> QED
  BY <1>1 DEF NoJob

LEMMA ArmedType ==
  ASSUME NEW e \in Entry, NEW running \in Count, NEW failed \in Count
  PROVE  /\ Armed(e, running, failed) \in Stale
         /\ e.last = "fresh" /\ ~e.ended /\ running + failed = 0 => Armed(e, running, failed) # "off"
<1>1. Armed(e, running, failed) \in Stale
  BY DEF Armed, Stale
<1>2. ASSUME e.last = "fresh", ~e.ended, running + failed = 0
      PROVE  Armed(e, running, failed) # "off"
  <2>1. StateShown(e, running, failed) # "stale"
    BY <1>2, LiveStateType DEF StateShown
  <2>2. ~(running + failed > 0)
    BY <1>2
  <2> QED
    BY <1>2, <2>1, <2>2 DEF Armed
<1> QED
  BY <1>1, <1>2

LEMMA AppliedType ==
  ASSUME NEW e \in Entry, NEW event
  PROVE  Applied(e, event) \in Entry
<1> DEFINE t == CASE event = "turn_started" -> TRUE
                  [] event \in {"turn_stopped", "session_ended"} -> FALSE
                  [] OTHER -> e.turn
           w == CASE event = "waiting_for_user" -> TRUE
                  [] event \in {"turn_started", "turn_stopped"} -> FALSE
                  [] OTHER -> e.waiting
           d == CASE event = "session_ended" -> TRUE
                  [] event = "session_active" -> FALSE
                  [] OTHER -> e.ended
<1>1. t \in BOOLEAN /\ w \in BOOLEAN /\ d \in BOOLEAN
  <2>1. e.turn \in BOOLEAN /\ e.waiting \in BOOLEAN /\ e.ended \in BOOLEAN
    BY DEF Entry
  <2> QED
    BY <2>1
<1>2. Applied(e, event) = [[[[e EXCEPT !.last = "fresh"] EXCEPT !.turn = t] EXCEPT !.waiting = w]
                             EXCEPT !.ended = d]
  BY DEF Applied, Entry
<1> HIDE DEF t, w, d
<1> QED
  BY <1>1, <1>2 DEF Entry, Last

RegistryTyped == entries \in [1..MaxEntry -> Entry] /\ entry \in 0..made /\ made \in 0..MaxEntry
EngineTyped == slots \in [1..MaxSlot -> Slot] /\ slot \in 0..slotsMade /\ slotsMade \in 0..MaxSlot
JobsTyped == job \in [Job -> Busy \cup {NoJob}]
StoreTyped == run \in [Run -> RunState] /\ fatal \in [Run -> {"none", "unacked", "acked"}]
ShownTyped == shown \in Key \cup {NoKey}
HistoryTyped == missed \in BOOLEAN /\ stray \in BOOLEAN
LauncherTyped ==
  /\ sidecar \in BOOLEAN /\ unclean \in BOOLEAN
  /\ launcher \in {"start", "register", "supervise", "killed", "remove", "gone"}
CliTyped == cli \in [Cli -> CliState]

LEMMA TypesByPart ==
  StatusTypeOK <=> /\ RegistryTyped /\ EngineTyped /\ JobsTyped /\ StoreTyped /\ ShownTyped
                   /\ HistoryTyped /\ LauncherTyped /\ CliTyped /\ troubles \in Nat
BY DEF StatusTypeOK, RegistryTyped, EngineTyped, JobsTyped, StoreTyped, ShownTyped, HistoryTyped,
   LauncherTyped, CliTyped, Entry, Last, Slot, Stale, Busy, Count, RunState, CliState

LEMMA PartsByType ==
  ASSUME RegistryTyped', EngineTyped', JobsTyped', StoreTyped', ShownTyped', HistoryTyped',
         LauncherTyped', CliTyped', troubles' \in Nat
  PROVE  StatusTypeOK'
BY DEF StatusTypeOK, RegistryTyped, EngineTyped, JobsTyped, StoreTyped, ShownTyped, HistoryTyped,
   LauncherTyped, CliTyped, Entry, Last, Slot, Stale, Busy, Count, RunState, CliState

(* A part that a step leaves alone keeps its types. *)
LEMMA PartsUnchanged ==
  ASSUME StatusTypeOK
  PROVE  /\ UNCHANGED registry => RegistryTyped'
         /\ UNCHANGED engine => EngineTyped'
         /\ UNCHANGED job => JobsTyped'
         /\ UNCHANGED store => StoreTyped'
         /\ UNCHANGED shown => ShownTyped'
         /\ UNCHANGED history => HistoryTyped'
         /\ UNCHANGED <<sidecar, launcher, unclean>> => LauncherTyped'
         /\ UNCHANGED cli => CliTyped'
         /\ UNCHANGED troubles => troubles' \in Nat
BY TypesByPart DEF RegistryTyped, EngineTyped, JobsTyped, StoreTyped, ShownTyped, HistoryTyped,
   LauncherTyped, CliTyped, registry, engine, store, history

LEMMA StatusTypesInit == StatusInit => StatusTypeOK
<1> SUFFICES ASSUME StatusInit PROVE StatusTypeOK
  OBVIOUS
<1>1. RegistryTyped /\ EngineTyped /\ JobsTyped
  BY NewOnes, Bounds DEF StatusInit, RegistryTyped, EngineTyped, JobsTyped
<1>2. StoreTyped /\ ShownTyped /\ HistoryTyped /\ LauncherTyped
  BY DEF StatusInit, StoreTyped, ShownTyped, HistoryTyped, LauncherTyped, RunState
<1>3. CliTyped /\ troubles \in Nat
  BY DEF StatusInit, CliTyped, CliState
<1> QED
  BY <1>1, <1>2, <1>3, TypesByPart
-----------------------------------------------------------------------------
(* The operators that assign primed variables keep the types of these. *)

LEMMA ScheduleTypes ==
  ASSUME EngineTyped, NEW slotsThen \in [1..MaxSlot -> Slot], Schedule(slotsThen)
  PROVE  EngineTyped' /\ slot' # 0 /\ slots'[slot'].pending
         /\ (slot # 0 => slot' = slot) /\ (slot = 0 => slots'[slot'].key = NoKey)
         /\ (slot # 0 => slots'[slot].key = slotsThen[slot].key)
<1>1. CASE slot = 0
  <2>1. /\ slotsMade < MaxSlot /\ slotsMade' = slotsMade + 1 /\ slot' = slotsMade + 1
        /\ slots' = [slotsThen EXCEPT ![slotsMade + 1] = [NewSlot EXCEPT !.pending = TRUE]]
    BY <1>1 DEF Schedule
  <2>2. [NewSlot EXCEPT !.pending = TRUE] \in Slot /\ [NewSlot EXCEPT !.pending = TRUE].pending
        /\ [NewSlot EXCEPT !.pending = TRUE].key = NoKey
    BY DEF NewSlot, Slot, Stale
  <2>3. slotsMade + 1 \in 1..MaxSlot
    BY <2>1, Bounds DEF EngineTyped
  <2> QED
    BY <1>1, <2>1, <2>2, <2>3 DEF EngineTyped
<1>2. CASE slot # 0
  <2>1. /\ slots' = [slotsThen EXCEPT ![slot] = [slotsThen[slot] EXCEPT !.pending = TRUE]]
        /\ slot' = slot /\ slotsMade' = slotsMade
    BY <1>2 DEF Schedule, EngineTyped
  <2>2. slot \in 1..MaxSlot
    BY <1>2, Bounds DEF EngineTyped
  <2>3. [slotsThen[slot] EXCEPT !.pending = TRUE] \in Slot
        /\ [slotsThen[slot] EXCEPT !.pending = TRUE].pending
        /\ [slotsThen[slot] EXCEPT !.pending = TRUE].key = slotsThen[slot].key
    BY <2>2 DEF Slot
  <2> QED
    BY <1>2, <2>1, <2>2, <2>3 DEF EngineTyped
<1> QED
  BY <1>1, <1>2

LEMMA ForgetTypes ==
  ASSUME EngineTyped, Forget
  PROVE  EngineTyped'
<1>1. ASSUME NEW k \in 1..MaxSlot
      PROVE  slots[k] \in Slot /\ [NewSlot EXCEPT !.key = slots[k].key] \in Slot
  BY <1>1 DEF EngineTyped, Slot, NewSlot, Stale
<1>2. slots' \in [1..MaxSlot -> Slot]
  BY <1>1, NewOnes DEF Forget
<1> QED
  BY <1>2, Bounds DEF Forget, EngineTyped

LEMMA OvertakenTypes ==
  ASSUME EngineTyped
  PROVE  /\ Overtaken \in [1..MaxSlot -> Slot]
         /\ \A k \in 1..MaxSlot : Overtaken[k].key = slots[k].key
<1>1. ASSUME NEW k \in 1..MaxSlot
      PROVE  /\ [slots[k] EXCEPT !.stale = IF @ = "armed" THEN "due" ELSE @] \in Slot
             /\ [slots[k] EXCEPT !.stale = IF @ = "armed" THEN "due" ELSE @].key = slots[k].key
  <2>1. slots[k] \in Slot
    BY <1>1 DEF EngineTyped
  <2>2. (IF slots[k].stale = "armed" THEN "due" ELSE slots[k].stale) \in Stale
    BY <2>1 DEF Slot, Stale
  <2> QED
    BY <2>1, <2>2 DEF Slot
<1> QED
  BY <1>1 DEF Overtaken

LEMMA TidiedTypes ==
  ASSUME RegistryTyped, NEW v
  PROVE  Tidied(v) \in [1..MaxEntry -> Entry]
BY NewOnes DEF RegistryTyped, Tidied

LEMMA RegisterTypes ==
  ASSUME RegistryTyped, EngineTyped, Register
  PROVE  RegistryTyped' /\ EngineTyped' /\ entry' # 0 /\ slot' # 0 /\ slots'[slot'].pending
<1>1. ASSUME entry # 0
      PROVE  [Fresh EXCEPT !.waiting = entries[entry].waiting, !.turn = entries[entry].turn] \in Entry
  <2>1. entries[entry] \in Entry
    BY <1>1, Bounds DEF RegistryTyped
  <2> QED
    BY <2>1 DEF Fresh, Entry, Last
<1>2. entries' \in [1..MaxEntry -> Entry]
  BY <1>1, TidiedTypes, NewOnes DEF Register
<1>3. RegistryTyped' /\ entry' # 0
  BY <1>2, Bounds DEF Register, RegistryTyped
<1>4. Schedule(slots)
  BY DEF Register, ScheduleRecompute
<1> QED
  BY <1>3, <1>4, ScheduleTypes DEF EngineTyped

LEMMA SignalTypes ==
  ASSUME RegistryTyped, EngineTyped, NEW event, SignalSupervisorEvent(event)
  PROVE  RegistryTyped' /\ EngineTyped' /\ entry' = entry /\ slot' # 0 /\ slots'[slot'].pending
<1>1. entries' \in [1..MaxEntry -> Entry]
  <2>1. CASE entry = 0
    BY <2>1 DEF SignalSupervisorEvent, RegistryTyped
  <2>2. CASE entry # 0
    <3>1. entry \in 1..MaxEntry /\ entries[entry] \in Entry
      BY <2>2, Bounds DEF RegistryTyped
    <3> QED
      BY <2>2, <3>1, AppliedType DEF SignalSupervisorEvent, RegistryTyped
  <2> QED
    BY <2>1, <2>2
<1>2. RegistryTyped' /\ entry' = entry
  BY <1>1 DEF SignalSupervisorEvent, RegistryTyped
<1>3. (IF entry = 0 THEN slots ELSE Overtaken) \in [1..MaxSlot -> Slot]
  BY OvertakenTypes DEF EngineTyped
<1>4. Schedule(IF entry = 0 THEN slots ELSE Overtaken)
  BY DEF SignalSupervisorEvent
<1> QED
  BY <1>2, <1>3, <1>4, ScheduleTypes

(* Of a registered orchestrator a new recompute begins. *)
LEMMA BeginsWith ==
  ASSUME StatusTypeOK, NEW k \in 1..MaxSlot, Begins(k), entry # 0
  PROVE  \E i \in Job :
           /\ job[i] = NoJob
           /\ job' = [job EXCEPT ![i] = [at |-> "runs", slot |-> k, entry |-> entry,
                                         running |-> 0, runs |-> {}]]
           /\ missed' = ((\E j \in Job : job[j] # NoJob) \/ (k # slot /\ missed))
BY DEF Begins

LEMMA BeginsTypes ==
  ASSUME StatusTypeOK, NEW k \in 1..MaxSlot, Begins(k), UNCHANGED stray
  PROVE  JobsTyped' /\ HistoryTyped'
<1>1. CASE entry = 0
  BY <1>1, TypesByPart DEF Begins, JobsTyped, HistoryTyped, history
<1>2. CASE entry # 0
  <2>1. entry \in 1..MaxEntry
    BY <1>2, TypesByPart, Bounds DEF RegistryTyped
  <2>2. [at |-> "runs", slot |-> k, entry |-> entry, running |-> 0, runs |-> {}] \in Busy
    BY <2>1, ZeroIsCount DEF Busy
  <2> QED
    BY <1>2, <2>2, BeginsWith, TypesByPart DEF JobsTyped, HistoryTyped
<1> QED
  BY <1>1, <1>2

LEMMA FinishesTypes ==
  ASSUME StatusTypeOK, NEW j \in Job, job[j] # NoJob, NEW running \in Count, NEW failed \in Count,
         Finishes(j, running, failed), UNCHANGED <<slot, slotsMade, missed>>
  PROVE  EngineTyped' /\ JobsTyped' /\ ShownTyped' /\ HistoryTyped'
<1> DEFINE k == job[j].slot
           e == entries[job[j].entry]
           key == StatusOf(e, running, failed)
<1>1. k \in 1..MaxSlot /\ e \in Entry /\ slots[k] \in Slot
  <2>1. job[j] \in Busy
    BY TypesByPart DEF JobsTyped
  <2> QED
    BY <2>1, TypesByPart DEF Busy, RegistryTyped, EngineTyped
<1>2. key \in Key /\ Armed(e, running, failed) \in Stale
  BY <1>1, StatusOfType, ArmedType
<1>3. /\ slots' = [slots EXCEPT ![k] = [slots[k] EXCEPT !.stale = Armed(e, running, failed), !.key = key]]
      /\ shown' = (IF key = slots[k].key THEN shown ELSE key)
      /\ job' = [job EXCEPT ![j] = NoJob]
      /\ stray' = (stray \/ (k # slot /\ key # slots[k].key))
  BY <1>1, TypesByPart DEF Finishes, EngineTyped
<1> HIDE DEF k, e, key
<1>4. [slots[k] EXCEPT !.stale = Armed(e, running, failed), !.key = key] \in Slot
  BY <1>1, <1>2 DEF Slot
<1>5. EngineTyped'
  BY <1>1, <1>3, <1>4, TypesByPart DEF EngineTyped
<1>6. JobsTyped'
  BY <1>3, TypesByPart DEF JobsTyped
<1>7. ShownTyped'
  BY <1>2, <1>3, TypesByPart DEF ShownTyped
<1>8. HistoryTyped'
  BY <1>3, TypesByPart DEF HistoryTyped
<1> QED
  BY <1>5, <1>6, <1>7, <1>8
-----------------------------------------------------------------------------
(* Each action keeps the types. *)

LEMMA RunAppearsTypes ==
  ASSUME StatusTypeOK, NEW r \in Run, RunAppears(r)
  PROVE  StatusTypeOK'
<1>1. StoreTyped'
  BY TypesByPart DEF RunAppears, StoreTyped, RunState
<1>2. HistoryTyped'
  BY TypesByPart DEF RunAppears, HistoryTyped, history
<1> QED
  BY <1>1, <1>2, PartsUnchanged, PartsByType DEF RunAppears

LEMMA FatalNotifiedTypes ==
  ASSUME StatusTypeOK, NEW r \in Run, FatalNotified(r)
  PROVE  StatusTypeOK'
<1>1. StoreTyped'
  BY TypesByPart DEF FatalNotified, StoreTyped, RunState
<1>2. HistoryTyped'
  BY TypesByPart DEF FatalNotified, HistoryTyped, history
<1> QED
  BY <1>1, <1>2, PartsUnchanged, PartsByType DEF FatalNotified

LEMMA RunEndsTypes ==
  ASSUME StatusTypeOK, NEW r \in Run, RunEnds(r)
  PROVE  StatusTypeOK'
<1>1. StoreTyped'
  BY TypesByPart DEF RunEnds, StoreTyped, RunState
<1>2. HistoryTyped'
  BY TypesByPart DEF RunEnds, HistoryTyped, history
<1> QED
  BY <1>1, <1>2, PartsUnchanged, PartsByType DEF RunEnds

LEMMA PruneRunsTypes ==
  ASSUME StatusTypeOK, NEW r \in Run, PruneRuns(r)
  PROVE  StatusTypeOK'
<1>1. StoreTyped'
  BY TypesByPart DEF PruneRuns, StoreTyped, RunState
<1>2. HistoryTyped'
  BY TypesByPart DEF PruneRuns, HistoryTyped, history
<1> QED
  BY <1>1, <1>2, PartsUnchanged, PartsByType DEF PruneRuns

LEMMA RunStartedTypes ==
  ASSUME StatusTypeOK, NEW r \in Run, RunStarted(r)
  PROVE  StatusTypeOK'
<1>1. EngineTyped'
  BY ScheduleTypes, TypesByPart DEF RunStarted, ScheduleRecompute, EngineTyped
<1>2. StoreTyped'
  BY TypesByPart DEF RunStarted, StoreTyped, RunState
<1> QED
  BY <1>1, <1>2, PartsUnchanged, PartsByType DEF RunStarted

LEMMA TerminalAnnouncedTypes ==
  ASSUME StatusTypeOK, NEW r \in Run, TerminalAnnounced(r)
  PROVE  StatusTypeOK'
<1>1. EngineTyped'
  BY ScheduleTypes, TypesByPart DEF TerminalAnnounced, ScheduleRecompute, EngineTyped
<1>2. StoreTyped'
  BY TypesByPart DEF TerminalAnnounced, StoreTyped, RunState
<1> QED
  BY <1>1, <1>2, PartsUnchanged, PartsByType DEF TerminalAnnounced

LEMMA AckRunNotificationTypes ==
  ASSUME StatusTypeOK, NEW r \in Run, AckRunNotification(r)
  PROVE  StatusTypeOK'
<1>1. EngineTyped'
  BY ScheduleTypes, TypesByPart DEF AckRunNotification, WakeRegistered, ScheduleRecompute,
     EngineTyped, engine
<1>2. StoreTyped'
  BY TypesByPart DEF AckRunNotification, StoreTyped
<1> QED
  BY <1>1, <1>2, PartsUnchanged, PartsByType DEF AckRunNotification

LEMMA DebounceFiresTypes ==
  ASSUME StatusTypeOK, NEW k \in 1..MaxSlot, DebounceFires(k)
  PROVE  StatusTypeOK'
<1>1. [slots[k] EXCEPT !.pending = FALSE] \in Slot
  BY TypesByPart DEF EngineTyped, Slot, Stale
<1>2. slots' = [slots EXCEPT ![k] = [slots[k] EXCEPT !.pending = FALSE]]
  BY TypesByPart DEF DebounceFires, EngineTyped
<1>3. EngineTyped'
  BY <1>1, <1>2, TypesByPart DEF DebounceFires, EngineTyped
<1>4. JobsTyped' /\ HistoryTyped'
  BY BeginsTypes DEF DebounceFires
<1> QED
  BY <1>3, <1>4, PartsUnchanged, PartsByType DEF DebounceFires

LEMMA StaleFiresTypes ==
  ASSUME StatusTypeOK, NEW k \in 1..MaxSlot, StaleFires(k)
  PROVE  StatusTypeOK'
<1>1. [slots[k] EXCEPT !.stale = "off"] \in Slot
  BY TypesByPart DEF EngineTyped, Slot, Stale
<1>2. slots' = [slots EXCEPT ![k] = [slots[k] EXCEPT !.stale = "off"]]
  BY TypesByPart DEF StaleFires, EngineTyped
<1>3. EngineTyped'
  BY <1>1, <1>2, TypesByPart DEF StaleFires, EngineTyped
<1>4. JobsTyped' /\ HistoryTyped'
  BY BeginsTypes DEF StaleFires
<1> QED
  BY <1>3, <1>4, PartsUnchanged, PartsByType DEF StaleFires

LEMMA ReadsRuns ==
  ASSUME StatusTypeOK, NEW j \in Job, job[j].at = "runs", Listed # {}, JobReadsRuns(j)
  PROVE  /\ job' = [job EXCEPT ![j] = [job[j] EXCEPT !.at = "notifications", !.running = Running,
                                                      !.runs = Listed]]
         /\ [job[j] EXCEPT !.at = "notifications", !.running = Running, !.runs = Listed] \in Busy
         /\ UNCHANGED <<slots, shown, stray>>
<1>1. job[j] \in Busy
  BY NewOnes, TypesByPart DEF JobsTyped
<1>2. [job[j] EXCEPT !.at = "notifications", !.running = Running, !.runs = Listed] \in Busy
  BY <1>1, CountsInRange DEF Busy, Listed
<1> QED
  BY <1>2, TypesByPart DEF JobReadsRuns, JobsTyped

LEMMA JobReadsRunsTypes ==
  ASSUME StatusTypeOK, NEW j \in Job, JobReadsRuns(j)
  PROVE  StatusTypeOK'
<1>0. job[j] # NoJob
  BY NewOnes DEF JobReadsRuns
<1>1. CASE Listed = {}
  <2>1. EngineTyped' /\ JobsTyped' /\ ShownTyped' /\ HistoryTyped'
    BY <1>0, <1>1, FinishesTypes, ZeroIsCount DEF JobReadsRuns
  <2> QED
    BY <2>1, PartsUnchanged, PartsByType DEF JobReadsRuns
<1>2. CASE Listed # {}
  <2>1. JobsTyped' /\ UNCHANGED <<slots, shown, stray>>
    BY <1>2, ReadsRuns, TypesByPart DEF JobReadsRuns, JobsTyped
  <2> QED
    BY <2>1, PartsUnchanged, PartsByType DEF JobReadsRuns, engine, history
<1> QED
  BY <1>1, <1>2

LEMMA JobReadsNotificationsTypes ==
  ASSUME StatusTypeOK, NEW j \in Job, JobReadsNotifications(j)
  PROVE  StatusTypeOK'
<1>1. job[j] # NoJob
  BY NewOnes DEF JobReadsNotifications
<1>2. job[j].running \in Count /\ FailedOf(job[j].runs) \in Count
  <2>1. job[j] \in Busy
    BY <1>1, TypesByPart DEF JobsTyped
  <2> QED
    BY <2>1, CountsInRange DEF Busy
<1>3. EngineTyped' /\ JobsTyped' /\ ShownTyped' /\ HistoryTyped'
  BY <1>1, <1>2, FinishesTypes DEF JobReadsNotifications
<1> QED
  BY <1>3, PartsUnchanged, PartsByType DEF JobReadsNotifications

LEMMA JobFailsTypes ==
  ASSUME StatusTypeOK, NEW j \in Job, JobFails(j)
  PROVE  StatusTypeOK'
<1>1. JobsTyped'
  BY TypesByPart DEF JobFails, JobsTyped
<1>2. HistoryTyped' /\ troubles' \in Nat
  BY TypesByPart DEF JobFails, Trouble, HistoryTyped
<1> QED
  BY <1>1, <1>2, PartsUnchanged, PartsByType DEF JobFails

LEMMA TimePassesTypes ==
  ASSUME StatusTypeOK, TimePasses
  PROVE  StatusTypeOK'
<1>1. ASSUME NEW v \in 1..MaxEntry
      PROVE  [entries[v] EXCEPT !.last = IF @ = "fresh" THEN "old" ELSE @] \in Entry
  <2>1. entries[v] \in Entry
    BY <1>1, TypesByPart DEF RegistryTyped
  <2>2. (IF entries[v].last = "fresh" THEN "old" ELSE entries[v].last) \in Last
    BY <2>1 DEF Entry, Last
  <2> QED
    BY <2>1, <2>2 DEF Entry
<1>2. RegistryTyped'
  BY <1>1, TypesByPart DEF TimePasses, RegistryTyped
<1>3. slots' = Overtaken
  BY DEF TimePasses, Overtaken
<1>4. EngineTyped'
  BY <1>3, OvertakenTypes, TypesByPart DEF TimePasses, EngineTyped
<1> QED
  BY <1>2, <1>4, PartsUnchanged, PartsByType DEF TimePasses

LEMMA UnregisterTypes ==
  ASSUME RegistryTyped, EngineTyped, Unregister
  PROVE  RegistryTyped' /\ EngineTyped'
<1>1. EngineTyped'
  BY ForgetTypes DEF Unregister
<1>2. RegistryTyped'
  BY TidiedTypes DEF Unregister, RegistryTyped
<1> QED
  BY <1>1, <1>2

LEMMA WriteSidecarTypes ==
  ASSUME StatusTypeOK, WriteSidecar
  PROVE  StatusTypeOK'
<1>1. LauncherTyped'
  BY TypesByPart DEF WriteSidecar, LauncherTyped
<1>3. troubles' \in Nat
  BY TypesByPart DEF WriteSidecar, Trouble
<1> QED
  BY <1>1, <1>3, PartsUnchanged, PartsByType DEF WriteSidecar

LEMMA RemoveOrchestratorSidecarTypes ==
  ASSUME StatusTypeOK, RemoveOrchestratorSidecar
  PROVE  StatusTypeOK'
<1>1. LauncherTyped'
  BY TypesByPart DEF RemoveOrchestratorSidecar, LauncherTyped
<1>3. troubles' \in Nat
  BY TypesByPart DEF RemoveOrchestratorSidecar, Trouble
<1> QED
  BY <1>1, <1>3, PartsUnchanged, PartsByType DEF RemoveOrchestratorSidecar

LEMMA RegisterOrchestratorTypes ==
  ASSUME StatusTypeOK, RegisterOrchestrator
  PROVE  StatusTypeOK'
<1>1. RegistryTyped' /\ EngineTyped'
  BY RegisterTypes, PartsUnchanged, TypesByPart DEF RegisterOrchestrator
<1>2. LauncherTyped'
  BY TypesByPart DEF RegisterOrchestrator, LauncherTyped
<1>3. troubles' \in Nat
  BY TypesByPart DEF RegisterOrchestrator, Trouble
<1> QED
  BY <1>1, <1>2, <1>3, PartsUnchanged, PartsByType DEF RegisterOrchestrator

LEMMA UnregisterOrchestratorTypes ==
  ASSUME StatusTypeOK, UnregisterOrchestrator
  PROVE  StatusTypeOK'
<1>1. RegistryTyped' /\ EngineTyped'
  BY UnregisterTypes, PartsUnchanged, TypesByPart DEF UnregisterOrchestrator
<1>2. LauncherTyped'
  BY TypesByPart DEF UnregisterOrchestrator, LauncherTyped
<1>3. troubles' \in Nat
  BY TypesByPart DEF UnregisterOrchestrator, Trouble
<1> QED
  BY <1>1, <1>2, <1>3, PartsUnchanged, PartsByType DEF UnregisterOrchestrator

LEMMA LauncherKilledTypes ==
  ASSUME StatusTypeOK, LauncherKilled
  PROVE  StatusTypeOK'
<1>1. LauncherTyped'
  BY TypesByPart DEF LauncherKilled, LauncherTyped
<1>3. troubles' \in Nat
  BY TypesByPart DEF LauncherKilled, Trouble
<1> QED
  BY <1>1, <1>3, PartsUnchanged, PartsByType DEF LauncherKilled

LEMMA DaemonRestartsTypes ==
  ASSUME StatusTypeOK, DaemonRestarts
  PROVE  StatusTypeOK'
<1>1. RegistryTyped' /\ EngineTyped' /\ JobsTyped'
  BY NewOnes, Bounds DEF DaemonRestarts, RegistryTyped, EngineTyped, JobsTyped
<1>2. run' \in [Run -> RunState]
  <2>1. ASSUME NEW r \in Run
        PROVE  (CASE run[r] \in {"created", "running", "ending"} -> "ended" [] OTHER -> run[r])
                 \in RunState
    <3>1. run[r] \in RunState
      BY TypesByPart DEF StoreTyped
    <3> QED
      BY <3>1 DEF RunState
  <2> QED
    BY <2>1 DEF DaemonRestarts
<1>3. StoreTyped' /\ troubles' \in Nat
  BY <1>2, TypesByPart DEF DaemonRestarts, Trouble, StoreTyped
<1> QED
  BY <1>1, <1>3, PartsUnchanged, PartsByType DEF DaemonRestarts

LEMMA CliMovesTypes ==
  ASSUME CliTyped, NEW c \in Cli,
         NEW at \in {"read_sidecar", "register", "retry", "applied", "lost"}, CliMoves(c, at)
  PROVE  CliTyped' /\ cli'[c].at = at /\ \A d \in Cli \ {c} : cli'[d] = cli[d]
<1> DEFINE next == [at |-> at, event |-> IF at \in {"applied", "lost"} THEN "none"
                                        ELSE cli[c].event]
<1>1. next \in CliState /\ next.at = at
  <2>1. cli[c].event \in Event \cup {"none"}
    BY DEF CliTyped, CliState
  <2> QED
    BY <2>1 DEF CliState
<1>2. cli' = [cli EXCEPT ![c] = next]
  BY DEF CliMoves, CliTyped
<1> HIDE DEF next
<1> QED
  BY <1>1, <1>2 DEF CliTyped

LEMMA SignalStartsTypes ==
  ASSUME StatusTypeOK, NEW c \in Cli, SignalStarts(c)
  PROVE  StatusTypeOK'
<1>1. \A event \in Event : [at |-> "signal", event |-> event] \in CliState
  BY DEF CliState
<1>2. CliTyped'
  BY <1>1, TypesByPart DEF SignalStarts, CliTyped
<1> QED
  BY <1>2, PartsUnchanged, PartsByType DEF SignalStarts

LEMMA SignalSentTypes ==
  ASSUME StatusTypeOK, NEW c \in Cli, SignalSent(c)
  PROVE  StatusTypeOK'
<1>1. RegistryTyped' /\ EngineTyped'
  BY SignalTypes, TypesByPart DEF SignalSent
<1>2. CliTyped'
  BY CliMovesTypes, TypesByPart DEF SignalSent, OnUnknown
<1> QED
  BY <1>1, <1>2, PartsUnchanged, PartsByType DEF SignalSent

LEMMA SignalRetriedTypes ==
  ASSUME StatusTypeOK, NEW c \in Cli, SignalRetried(c)
  PROVE  StatusTypeOK'
<1>1. RegistryTyped' /\ EngineTyped'
  BY SignalTypes, TypesByPart DEF SignalRetried
<1>2. CliTyped'
  BY CliMovesTypes, TypesByPart DEF SignalRetried, OnUnknown
<1> QED
  BY <1>1, <1>2, PartsUnchanged, PartsByType DEF SignalRetried

LEMMA ReadOrchestratorSidecarTypes ==
  ASSUME StatusTypeOK, NEW c \in Cli, ReadOrchestratorSidecar(c)
  PROVE  StatusTypeOK'
<1>1. CliTyped'
  BY CliMovesTypes, TypesByPart DEF ReadOrchestratorSidecar
<1> QED
  BY <1>1, PartsUnchanged, PartsByType DEF ReadOrchestratorSidecar

LEMMA ReregisterFromSidecarTypes ==
  ASSUME StatusTypeOK, NEW c \in Cli, ReregisterFromSidecar(c)
  PROVE  StatusTypeOK'
<1>1. RegistryTyped' /\ EngineTyped'
  BY RegisterTypes, TypesByPart DEF ReregisterFromSidecar
<1>2. CliTyped'
  BY CliMovesTypes, TypesByPart DEF ReregisterFromSidecar
<1>3. LauncherTyped'
  BY TypesByPart DEF ReregisterFromSidecar, LauncherTyped
<1> QED
  BY <1>1, <1>2, <1>3, PartsUnchanged, PartsByType DEF ReregisterFromSidecar

LEMMA SignalFailsTypes ==
  ASSUME StatusTypeOK, NEW c \in Cli, SignalFails(c)
  PROVE  StatusTypeOK'
<1>1. CliTyped'
  BY CliMovesTypes, TypesByPart DEF SignalFails
<1>2. troubles' \in Nat
  BY TypesByPart DEF SignalFails, Trouble
<1>4. LauncherTyped'
  BY TypesByPart DEF SignalFails, LauncherTyped
<1>3. RegistryTyped' /\ EngineTyped'
  BY RegisterTypes, PartsUnchanged, TypesByPart DEF SignalFails
<1> QED
  BY <1>1, <1>2, <1>3, <1>4, PartsUnchanged, PartsByType DEF SignalFails

LEMMA StatusTypesNext == StatusTypeOK /\ [StatusNext]_statusVars => StatusTypeOK'
<1> SUFFICES ASSUME StatusTypeOK, [StatusNext]_statusVars PROVE StatusTypeOK'
  OBVIOUS
<1>1. ASSUME NEW j \in Job, JobReadsRuns(j) \/ JobReadsNotifications(j) \/ JobFails(j)
      PROVE  StatusTypeOK'
  BY <1>1, JobReadsRunsTypes, JobReadsNotificationsTypes, JobFailsTypes
<1>2. ASSUME NEW k \in 1..MaxSlot, DebounceFires(k) \/ StaleFires(k)
      PROVE  StatusTypeOK'
  BY <1>2, DebounceFiresTypes, StaleFiresTypes
<1>3. ASSUME NEW r \in Run, RunAppears(r) \/ RunStarted(r) \/ FatalNotified(r) \/ RunEnds(r)
                            \/ TerminalAnnounced(r) \/ AckRunNotification(r) \/ PruneRuns(r)
      PROVE  StatusTypeOK'
  BY <1>3, RunAppearsTypes, RunStartedTypes, FatalNotifiedTypes, RunEndsTypes,
     TerminalAnnouncedTypes, AckRunNotificationTypes, PruneRunsTypes
<1>4. ASSUME NEW c \in Cli, SignalStarts(c) \/ SignalSent(c) \/ ReadOrchestratorSidecar(c)
                            \/ ReregisterFromSidecar(c) \/ SignalRetried(c) \/ SignalFails(c)
      PROVE  StatusTypeOK'
  BY <1>4, SignalStartsTypes, SignalSentTypes, ReadOrchestratorSidecarTypes,
     ReregisterFromSidecarTypes, SignalRetriedTypes, SignalFailsTypes
<1>5. CASE WriteSidecar \/ RegisterOrchestrator \/ UnregisterOrchestrator
           \/ RemoveOrchestratorSidecar \/ LauncherKilled \/ DaemonRestarts \/ TimePasses
  BY <1>5, WriteSidecarTypes, RegisterOrchestratorTypes, UnregisterOrchestratorTypes,
     RemoveOrchestratorSidecarTypes, LauncherKilledTypes, DaemonRestartsTypes, TimePassesTypes
<1>6. CASE UNCHANGED statusVars
  BY <1>6, PartsUnchanged, PartsByType DEF statusVars
<1> QED
  BY <1>1, <1>2, <1>3, <1>4, <1>5, <1>6 DEF StatusNext, JobStep, TimerFires, RunStep, CliStep,
     LauncherStep
-----------------------------------------------------------------------------
(* The sessions: of a supervisor that goes on, a missing registration or a  *)
(* missing sidecar tells of a trouble, and both missing of two; of one that *)
(* has ended, a registration or a sidecar tells of an unclean end.          *)

GoesOn == launcher \in {"supervise", "killed"}

SidecarFollows ==
  /\ launcher = "start" => ~sidecar
  /\ launcher = "register" /\ ~sidecar => troubles > 0
  /\ launcher = "gone" /\ sidecar => unclean

EntryFollows ==
  /\ launcher \in {"start", "register"} => entry = 0
  /\ GoesOn /\ entry = 0 => troubles > 0
  /\ GoesOn /\ ~sidecar => troubles > 0
  /\ GoesOn /\ entry = 0 /\ ~sidecar => troubles > 1
  /\ launcher \in {"remove", "gone"} /\ entry # 0 => unclean

SignalIsPlaced(c) == cli[c].at # "idle" => GoesOn \/ launcher \in {"remove", "gone"}

TroubleExplains(c) ==
  GoesOn =>
    /\ cli[c].at \in {"read_sidecar", "register", "retry"} => troubles > 0
    /\ cli[c].at = "read_sidecar" /\ ~sidecar => troubles > 1
    /\ cli[c].at = "retry" /\ entry = 0 => troubles > 1

SessionsInvariant ==
  /\ SidecarFollows /\ EntryFollows
  /\ \A c \in Cli : SignalIsPlaced(c) /\ TroubleExplains(c)

LEMMA SessionsInit == StatusInit => SessionsInvariant
BY DEF StatusInit, SessionsInvariant, SidecarFollows, EntryFollows, SignalIsPlaced,
   TroubleExplains, GoesOn

(* Steps that change nothing the sessions depend on, or only add a trouble. *)
LEMMA SessionsUnchanged ==
  ASSUME StatusTypeOK, SessionsInvariant, UNCHANGED <<sidecar, launcher, unclean, entry, cli>>,
         troubles' \in {troubles, troubles + 1}
  PROVE  SessionsInvariant'
<1>1. troubles \in Nat
  BY TypesByPart
<1> QED
  BY <1>1 DEF SessionsInvariant, SidecarFollows, EntryFollows, SignalIsPlaced, TroubleExplains,
     GoesOn

(* A step of one signal command: it leaves the registration alone, or it    *)
(* registers, which makes an end unclean.                                   *)
LEMMA SessionsByCli ==
  ASSUME StatusTypeOK, SessionsInvariant, UNCHANGED <<sidecar, launcher>>, NEW c \in Cli,
         \A d \in Cli \ {c} : cli'[d] = cli[d],
         \/ entry' = entry /\ unclean' = unclean
         \/ entry' # 0 /\ unclean' = (unclean \/ launcher \in {"remove", "gone"})
              /\ launcher \notin {"start", "register"},
         troubles' \in {troubles, troubles + 1},
         SignalIsPlaced(c)', TroubleExplains(c)'
  PROVE  SessionsInvariant'
<1>1. troubles \in Nat
  BY TypesByPart
<1>2. ASSUME NEW d \in Cli \ {c} PROVE SignalIsPlaced(d)' /\ TroubleExplains(d)'
  BY <1>1 DEF SessionsInvariant, SignalIsPlaced, TroubleExplains, GoesOn
<1>3. unclean => unclean'
  OBVIOUS
<1>4. troubles > 0 => troubles' > 0
  BY <1>1
<1>5. troubles > 1 => troubles' > 1
  BY <1>1
<1>6. SidecarFollows'
  BY <1>3, <1>4 DEF SessionsInvariant, SidecarFollows
<1>7. (GoesOn' <=> GoesOn) /\ (sidecar' <=> sidecar) /\ launcher' = launcher
  BY DEF GoesOn
<1>8. entry' = 0 => entry = 0
  OBVIOUS
<1>9. launcher \in {"start", "register"} => entry' = 0
  BY DEF SessionsInvariant, EntryFollows
<1>10. launcher \in {"remove", "gone"} /\ entry' # 0 => unclean'
  BY <1>3 DEF SessionsInvariant, EntryFollows
<1>11. /\ GoesOn' /\ entry' = 0 => troubles' > 0
       /\ GoesOn' /\ ~sidecar' => troubles' > 0
       /\ GoesOn' /\ entry' = 0 /\ ~sidecar' => troubles' > 1
  BY <1>4, <1>5, <1>7, <1>8 DEF SessionsInvariant, EntryFollows
<1>12. EntryFollows'
  BY <1>7, <1>9, <1>10, <1>11 DEF EntryFollows
<1> QED
  BY <1>2, <1>6, <1>12 DEF SessionsInvariant

LEMMA SignalStartsSessions ==
  ASSUME StatusTypeOK, SessionsInvariant, NEW c \in Cli, SignalStarts(c)
  PROVE  SessionsInvariant'
<1>1. cli'[c].at = "signal" /\ \A d \in Cli \ {c} : cli'[d] = cli[d]
  BY TypesByPart DEF SignalStarts, CliTyped
<1>2. UNCHANGED <<sidecar, launcher, unclean, entry, troubles>> /\ GoesOn
  BY DEF SignalStarts, registry, GoesOn
<1>3. SignalIsPlaced(c)' /\ TroubleExplains(c)'
  BY <1>1, <1>2 DEF SignalIsPlaced, TroubleExplains, GoesOn
<1> QED
  BY <1>1, <1>2, <1>3, SessionsByCli

LEMMA SignalSentSessions ==
  ASSUME StatusTypeOK, SessionsInvariant, NEW c \in Cli, SignalSent(c)
  PROVE  SessionsInvariant'
<1>1. /\ cli'[c].at = (IF entry = 0 THEN "read_sidecar" ELSE "applied")
      /\ \A d \in Cli \ {c} : cli'[d] = cli[d]
  BY TypesByPart, CliMovesTypes DEF SignalSent, OnUnknown
<1>2. UNCHANGED <<sidecar, launcher, unclean, entry, troubles>> /\ cli[c].at = "signal"
  BY DEF SignalSent, SignalSupervisorEvent
<1>3. SignalIsPlaced(c)' /\ TroubleExplains(c)'
  BY <1>1, <1>2 DEF SessionsInvariant, EntryFollows, SignalIsPlaced, TroubleExplains, GoesOn
<1> QED
  BY <1>1, <1>2, <1>3, SessionsByCli

LEMMA ReadOrchestratorSidecarSessions ==
  ASSUME StatusTypeOK, SessionsInvariant, NEW c \in Cli, ReadOrchestratorSidecar(c)
  PROVE  SessionsInvariant' /\ cli'[c].at = (IF sidecar THEN "register" ELSE "lost")
         /\ \A d \in Cli \ {c} : cli'[d] = cli[d]
<1>1. /\ cli'[c].at = (IF sidecar THEN "register" ELSE "lost")
      /\ \A d \in Cli \ {c} : cli'[d] = cli[d]
  BY TypesByPart, CliMovesTypes DEF ReadOrchestratorSidecar
<1>2. UNCHANGED <<sidecar, launcher, unclean, entry, troubles>> /\ cli[c].at = "read_sidecar"
  BY DEF ReadOrchestratorSidecar, registry
<1>3. SignalIsPlaced(c)' /\ TroubleExplains(c)'
  BY <1>1, <1>2 DEF SessionsInvariant, SignalIsPlaced, TroubleExplains, GoesOn
<1> QED
  BY <1>1, <1>2, <1>3, SessionsByCli

LEMMA ReregisterFromSidecarSessions ==
  ASSUME StatusTypeOK, SessionsInvariant, NEW c \in Cli, ReregisterFromSidecar(c)
  PROVE  SessionsInvariant' /\ cli'[c].at = "retry" /\ \A d \in Cli \ {c} : cli'[d] = cli[d]
<1>1. cli'[c].at = "retry" /\ \A d \in Cli \ {c} : cli'[d] = cli[d]
  BY TypesByPart, CliMovesTypes DEF ReregisterFromSidecar
<1>2. /\ UNCHANGED <<sidecar, launcher, troubles>> /\ cli[c].at = "register" /\ entry' # 0
      /\ unclean' = (unclean \/ launcher \in {"remove", "gone"})
  BY RegisterTypes, TypesByPart DEF ReregisterFromSidecar
<1>3. SignalIsPlaced(c)' /\ TroubleExplains(c)'
  BY <1>1, <1>2 DEF SessionsInvariant, SignalIsPlaced, TroubleExplains, GoesOn
<1>4. launcher \notin {"start", "register"}
  BY <1>2 DEF SessionsInvariant, SignalIsPlaced, GoesOn
<1> QED
  BY <1>1, <1>2, <1>3, <1>4, SessionsByCli

LEMMA SignalRetriedSessions ==
  ASSUME StatusTypeOK, SessionsInvariant, NEW c \in Cli, SignalRetried(c)
  PROVE  SessionsInvariant' /\ cli'[c].at = (IF entry = 0 THEN "lost" ELSE "applied")
         /\ \A d \in Cli \ {c} : cli'[d] = cli[d]
<1>1. /\ cli'[c].at = (IF entry = 0 THEN "lost" ELSE "applied")
      /\ \A d \in Cli \ {c} : cli'[d] = cli[d]
  BY TypesByPart, CliMovesTypes DEF SignalRetried
<1>2. UNCHANGED <<sidecar, launcher, unclean, entry, troubles>> /\ cli[c].at = "retry"
  BY DEF SignalRetried, SignalSupervisorEvent
<1>3. SignalIsPlaced(c)' /\ TroubleExplains(c)'
  BY <1>1, <1>2 DEF SessionsInvariant, SignalIsPlaced, TroubleExplains, GoesOn
<1> QED
  BY <1>1, <1>2, <1>3, SessionsByCli

LEMMA SignalFailsSessions ==
  ASSUME StatusTypeOK, SessionsInvariant, NEW c \in Cli, SignalFails(c)
  PROVE  SessionsInvariant' /\ cli'[c].at = "lost" /\ \A d \in Cli \ {c} : cli'[d] = cli[d]
<1>1. cli'[c].at = "lost" /\ \A d \in Cli \ {c} : cli'[d] = cli[d]
  BY TypesByPart, CliMovesTypes DEF SignalFails
<1>2. /\ UNCHANGED <<sidecar, launcher>> /\ troubles' = troubles + 1
      /\ cli[c].at \in {"signal", "read_sidecar", "register", "retry"}
  BY DEF SignalFails, Trouble
<1>3. \/ entry' = entry /\ unclean' = unclean
      \/ entry' # 0 /\ unclean' = (unclean \/ launcher \in {"remove", "gone"})
  BY RegisterTypes, TypesByPart DEF SignalFails, registry
<1>4. SignalIsPlaced(c)' /\ TroubleExplains(c)'
  BY <1>1, <1>2 DEF SessionsInvariant, SignalIsPlaced, TroubleExplains, GoesOn
<1>5. launcher \notin {"start", "register"}
  BY <1>2 DEF SessionsInvariant, SignalIsPlaced, GoesOn
<1> QED
  BY <1>1, <1>2, <1>3, <1>4, <1>5, SessionsByCli

(* The launcher's steps, and a restart of the daemon. *)
LEMMA LauncherSessions ==
  ASSUME StatusTypeOK, SessionsInvariant, LauncherStep
  PROVE  SessionsInvariant'
<1>1. troubles \in Nat /\ UNCHANGED cli
  BY TypesByPart DEF LauncherStep, WriteSidecar, RegisterOrchestrator, UnregisterOrchestrator,
     RemoveOrchestratorSidecar, LauncherKilled
<1>2. CASE WriteSidecar
  <2>1. /\ launcher = "start" /\ launcher' = "register" /\ entry' = entry /\ unclean' = unclean
        /\ sidecar' \/ troubles' = troubles + 1
    BY <1>2 DEF WriteSidecar, Trouble, registry
  <2>2. entry = 0 /\ \A c \in Cli : cli'[c].at = "idle"
    BY <1>1, <2>1 DEF SessionsInvariant, EntryFollows, SignalIsPlaced, GoesOn
  <2> QED
    BY <1>1, <2>1, <2>2 DEF SessionsInvariant, SidecarFollows, EntryFollows, SignalIsPlaced,
       TroubleExplains, GoesOn
<1>3. CASE RegisterOrchestrator
  <2>1. /\ launcher = "register" /\ launcher' = "supervise" /\ UNCHANGED <<sidecar, unclean>>
        /\ \/ entry' # 0 /\ troubles' = troubles
           \/ entry' = entry /\ troubles' = troubles + 1
    BY <1>3, RegisterTypes, TypesByPart DEF RegisterOrchestrator, Trouble, registry
  <2>2. \A c \in Cli : cli'[c].at = "idle"
    BY <1>1, <2>1 DEF SessionsInvariant, SignalIsPlaced, GoesOn
  <2> QED
    BY <1>1, <2>1, <2>2 DEF SessionsInvariant, SidecarFollows, EntryFollows, SignalIsPlaced,
       TroubleExplains, GoesOn
<1>4. CASE UnregisterOrchestrator
  <2>1. /\ launcher = "supervise" /\ launcher' = "remove" /\ UNCHANGED sidecar
        /\ entry' = 0 \/ unclean'
    BY <1>4 DEF UnregisterOrchestrator, Unregister
  <2> QED
    BY <1>1, <2>1 DEF SessionsInvariant, SidecarFollows, EntryFollows, SignalIsPlaced,
       TroubleExplains, GoesOn
<1>5. CASE RemoveOrchestratorSidecar
  <2>1. /\ launcher = "remove" /\ launcher' = "gone" /\ entry' = entry
        /\ (~sidecar' /\ unclean' = unclean) \/ unclean'
    BY <1>5 DEF RemoveOrchestratorSidecar, registry
  <2> QED
    BY <1>1, <2>1 DEF SessionsInvariant, SidecarFollows, EntryFollows, SignalIsPlaced,
       TroubleExplains, GoesOn
<1>6. CASE LauncherKilled
  <2>1. /\ \/ launcher = "supervise" /\ launcher' = "killed"
           \/ launcher \in {"register", "remove"} /\ launcher' = "gone"
        /\ UNCHANGED <<sidecar, entry>> /\ unclean' /\ troubles' = troubles + 1
    BY <1>6 DEF LauncherKilled, Trouble, registry
  <2> QED
    BY <1>1, <2>1 DEF SessionsInvariant, SidecarFollows, EntryFollows, SignalIsPlaced,
       TroubleExplains, GoesOn
<1> QED
  BY <1>2, <1>3, <1>4, <1>5, <1>6 DEF LauncherStep

LEMMA RestartSessions ==
  ASSUME StatusTypeOK, SessionsInvariant, DaemonRestarts
  PROVE  SessionsInvariant'
<1>1. troubles \in Nat
  BY TypesByPart
<1>2. UNCHANGED <<sidecar, launcher, unclean, cli>> /\ troubles' = troubles + 1 /\ entry' = 0
  BY DEF DaemonRestarts, Trouble
<1> QED
  BY <1>1, <1>2 DEF SessionsInvariant, SidecarFollows, EntryFollows, SignalIsPlaced,
     TroubleExplains, GoesOn

(* The other steps are no concern of the sessions. *)
Elsewhere ==
  \/ \E j \in Job : JobStep(j) \/ JobFails(j)
  \/ \E k \in 1..MaxSlot : TimerFires(k)
  \/ \E r \in Run : RunStep(r)
  \/ TimePasses

LEMMA ElsewhereSame ==
  ASSUME Elsewhere
  PROVE  /\ UNCHANGED <<sidecar, launcher, unclean, entry, cli>>
         /\ troubles' \in {troubles, troubles + 1}
<1>1. ASSUME NEW j \in Job, JobStep(j) \/ JobFails(j)
      PROVE  /\ UNCHANGED <<sidecar, launcher, unclean, entry, cli>>
             /\ troubles' \in {troubles, troubles + 1}
  BY <1>1 DEF JobStep, JobReadsRuns, JobReadsNotifications, JobFails, Trouble, registry
<1>2. ASSUME NEW k \in 1..MaxSlot, TimerFires(k)
      PROVE  /\ UNCHANGED <<sidecar, launcher, unclean, entry, cli>>
             /\ troubles' \in {troubles, troubles + 1}
  BY <1>2 DEF TimerFires, DebounceFires, StaleFires, registry
<1>3. ASSUME NEW r \in Run, RunStep(r)
      PROVE  /\ UNCHANGED <<sidecar, launcher, unclean, entry, cli>>
             /\ troubles' \in {troubles, troubles + 1}
  BY <1>3 DEF RunStep, RunAppears, RunStarted, FatalNotified, RunEnds, TerminalAnnounced,
     AckRunNotification, PruneRuns, registry
<1>4. CASE TimePasses
  BY <1>4 DEF TimePasses
<1> QED
  BY <1>1, <1>2, <1>3, <1>4 DEF Elsewhere

LEMMA StatusNextByPart ==
  StatusNext => \/ \E c \in Cli : SignalStarts(c) \/ CliStep(c) \/ SignalFails(c)
                \/ LauncherStep \/ DaemonRestarts \/ Elsewhere
BY DEF StatusNext, Elsewhere

(* What a step may do to the sessions. *)
EventIsExplained ==
  \A c \in Cli : cli'[c].at = "lost" /\ cli[c].at # "lost"
    => launcher \in {"remove", "gone"} \/ troubles' > troubles \/ troubles > 1

SessionStepsRight == (GoneForGood => GoneForGood') /\ EventIsExplained

LEMMA SessionsNext ==
  StatusTypeOK /\ SessionsInvariant /\ [StatusNext]_statusVars =>
    SessionsInvariant' /\ [SessionStepsRight]_statusVars
<1> SUFFICES ASSUME StatusTypeOK, SessionsInvariant, [StatusNext]_statusVars
             PROVE  SessionsInvariant' /\ [SessionStepsRight]_statusVars
  OBVIOUS
<1>1. ASSUME NEW c \in Cli, SignalStarts(c) \/ CliStep(c) \/ SignalFails(c)
      PROVE  SessionsInvariant' /\ SessionStepsRight
  <2>1. SessionsInvariant'
    BY <1>1, SignalStartsSessions, SignalSentSessions, ReadOrchestratorSidecarSessions,
       ReregisterFromSidecarSessions, SignalRetriedSessions, SignalFailsSessions DEF CliStep
  <2>2. GoneForGood => GoneForGood'
    <3> SUFFICES ASSUME GoneForGood PROVE GoneForGood'
      OBVIOUS
    <3>1. ~sidecar /\ ~ReregisterFromSidecar(c) /\ ~SignalStarts(c) /\ cli[c].at # "register"
      BY DEF GoneForGood, ReregisterFromSidecar, SignalStarts
    <3>2. /\ UNCHANGED <<launcher, sidecar>> /\ entry' = entry
          /\ cli'[c].at # "register" /\ \A d \in Cli \ {c} : cli'[d] = cli[d]
      <4>1. CASE SignalSent(c)
        BY <4>1, CliMovesTypes, TypesByPart DEF SignalSent, OnUnknown, SignalSupervisorEvent
      <4>2. CASE ReadOrchestratorSidecar(c)
        BY <3>1, <4>2, ReadOrchestratorSidecarSessions DEF ReadOrchestratorSidecar, registry
      <4>3. CASE SignalRetried(c)
        BY <4>3, SignalRetriedSessions DEF SignalRetried, SignalSupervisorEvent
      <4>4. CASE SignalFails(c)
        BY <3>1, <4>4, SignalFailsSessions DEF SignalFails, registry
      <4> QED
        BY <1>1, <3>1, <4>1, <4>2, <4>3, <4>4 DEF CliStep
    <3> QED
      BY <3>2 DEF GoneForGood
  <2>3. ASSUME NEW d \in Cli, cli'[d].at = "lost", cli[d].at # "lost"
        PROVE  launcher \in {"remove", "gone"} \/ troubles' > troubles \/ troubles > 1
    <3>1. CASE SignalStarts(c)
      BY <2>3, <3>1, TypesByPart DEF SignalStarts, CliTyped
    <3>2. CASE SignalSent(c)
      BY <2>3, <3>2, CliMovesTypes, TypesByPart DEF SignalSent, OnUnknown
    <3>3. CASE ReadOrchestratorSidecar(c)
      <4>1. d = c /\ ~sidecar /\ cli[c].at = "read_sidecar"
        BY <2>3, <3>3, ReadOrchestratorSidecarSessions DEF ReadOrchestratorSidecar
      <4> QED
        BY <4>1 DEF SessionsInvariant, SignalIsPlaced, TroubleExplains
    <3>4. CASE ReregisterFromSidecar(c)
      BY <2>3, <3>4, ReregisterFromSidecarSessions
    <3>5. CASE SignalRetried(c)
      <4>1. d = c /\ entry = 0 /\ cli[c].at = "retry"
        BY <2>3, <3>5, SignalRetriedSessions DEF SignalRetried
      <4> QED
        BY <4>1 DEF SessionsInvariant, SignalIsPlaced, TroubleExplains
    <3>6. CASE SignalFails(c)
      BY <3>6, TypesByPart DEF SignalFails, Trouble
    <3> QED
      BY <1>1, <3>1, <3>2, <3>3, <3>4, <3>5, <3>6 DEF CliStep
  <2> QED
    BY <2>1, <2>2, <2>3 DEF SessionStepsRight, EventIsExplained
<1>2. CASE LauncherStep
  <2>1. UNCHANGED cli /\ launcher # "gone"
    BY <1>2 DEF LauncherStep, WriteSidecar, RegisterOrchestrator, UnregisterOrchestrator,
       RemoveOrchestratorSidecar, LauncherKilled
  <2> QED
    BY <1>2, <2>1, LauncherSessions DEF SessionStepsRight, EventIsExplained, GoneForGood
<1>3. CASE DaemonRestarts
  BY <1>3, RestartSessions DEF SessionStepsRight, EventIsExplained, GoneForGood, DaemonRestarts
<1>4. CASE Elsewhere
  <2>1. /\ UNCHANGED <<sidecar, launcher, unclean, entry, cli>>
        /\ troubles' \in {troubles, troubles + 1}
    BY <1>4, ElsewhereSame
  <2> QED
    BY <2>1, SessionsUnchanged DEF SessionStepsRight, EventIsExplained, GoneForGood
<1>5. CASE UNCHANGED statusVars
  BY <1>5, SessionsUnchanged DEF statusVars, registry
<1> QED
  BY <1>1, <1>2, <1>3, <1>4, <1>5, StatusNextByPart

LEMMA GhostsExplained == SessionsInvariant => GhostIsExplained
BY DEF SessionsInvariant, SidecarFollows, EntryFollows, GhostIsExplained
-----------------------------------------------------------------------------
(* The status: of a registered orchestrator either something is under way   *)
(* that will look at the inputs as they are, or the slot holds the status   *)
(* of now and, where silence can make that stale, a timer for it.           *)

Unsettled == \E r \in Run : run[r] \in {"created", "ending"}

RightJob(j) ==
  /\ job[j] # NoJob /\ job[j].slot = slot /\ job[j].entry = entry
  /\ job[j].at = "notifications" => job[j].running = Running /\ FailedOf(job[j].runs) = Failed

UpToDate ==
  /\ slots[slot].key = StatusOf(entries[entry], Running, Failed)
  /\ entries[entry].last = "fresh" /\ ~entries[entry].ended /\ Running + Failed = 0
       => slots[slot].stale # "off"

IsFollowed ==
  entry # 0 /\ slot # 0 /\ ~missed =>
    \/ slots[slot].pending \/ Unsettled \/ \E j \in Job : RightJob(j)
    \/ /\ \A j \in Job : job[j] = NoJob \/ job[j].slot # slot
       /\ slots[slot].stale = "due" \/ UpToDate

OneJob == ~missed => \A i, j \in Job : job[i] # NoJob /\ job[j] # NoJob => i = j

ShownIsKey == ~stray /\ slot # 0 /\ slots[slot].key # NoKey => shown = slots[slot].key

StatusInvariant == IsFollowed /\ OneJob /\ ShownIsKey

LEMMA FollowInit == StatusInit => StatusInvariant
BY DEF StatusInit, StatusInvariant, IsFollowed, OneJob, ShownIsKey

LEMMA CountsUnchanged ==
  ASSUME UNCHANGED store
  PROVE  /\ Running' = Running /\ Failed' = Failed
         /\ \A runs \in SUBSET Run : FailedOf(runs)' = FailedOf(runs)
BY DEF store, Running, Failed, FailedOf, Listed

(* Nothing changes that the status depends on. *)
LEMMA FollowSame ==
  ASSUME StatusInvariant, UNCHANGED <<registry, engine, job, store, shown, history>>
  PROVE  StatusInvariant'
<1>1. UNCHANGED <<entries, entry, slots, slot, job, run, shown, missed, stray>>
  BY DEF registry, engine, store, history
<1>2. Running' = Running /\ Failed' = Failed
      /\ \A j \in Job : FailedOf(job[j].runs)' = FailedOf(job[j].runs)
  BY <1>1, CountsUnchanged DEF store, FailedOf
<1>3. UpToDate' = UpToDate /\ Unsettled' = Unsettled /\ \A j \in Job : RightJob(j)' = RightJob(j)
  BY <1>1, <1>2 DEF UpToDate, Unsettled, RightJob
<1>4. IsFollowed'
  BY <1>1, <1>3 DEF StatusInvariant, IsFollowed
<1> QED
  BY <1>1, <1>4 DEF StatusInvariant, OneJob, ShownIsKey

(* A change of which the engine is not told is excused. *)
LEMMA FollowMissed ==
  ASSUME StatusInvariant, missed', UNCHANGED <<slots, slot, shown, stray>>
  PROVE  StatusInvariant'
BY DEF StatusInvariant, IsFollowed, OneJob, ShownIsKey

(* A run is on disk, its lifecycle event is to come. *)
LEMMA FollowUnsettled ==
  ASSUME StatusInvariant, Unsettled', UNCHANGED <<slots, slot, job, shown, missed, stray>>
  PROVE  StatusInvariant'
BY DEF StatusInvariant, IsFollowed, OneJob, ShownIsKey

(* An event that asks for a recompute. *)
LEMMA FollowScheduled ==
  ASSUME StatusTypeOK, StatusInvariant, NEW slotsThen \in [1..MaxSlot -> Slot],
         \A k \in 1..MaxSlot : slotsThen[k].key = slots[k].key,
         Schedule(slotsThen), UNCHANGED <<job, shown, missed, stray>>
  PROVE  StatusInvariant'
<1>1. /\ slot' # 0 /\ slots'[slot'].pending
      /\ (slot # 0 => slot' = slot) /\ (slot = 0 => slots'[slot'].key = NoKey)
      /\ (slot # 0 => slots'[slot].key = slotsThen[slot].key)
  BY TypesByPart, ScheduleTypes
<1>2. slot # 0 => slot \in 1..MaxSlot
  BY TypesByPart, Bounds DEF EngineTyped
<1>3. ShownIsKey'
  BY <1>1, <1>2 DEF StatusInvariant, ShownIsKey
<1> QED
  BY <1>1, <1>3 DEF StatusInvariant, IsFollowed, OneJob

(* The engine forgets the orchestrator. *)
LEMMA FollowForgotten ==
  ASSUME StatusInvariant, entry' = 0, slot' = 0, UNCHANGED missed,
         job' = job \/ job' = [j \in Job |-> NoJob]
  PROVE  StatusInvariant'
BY DEF StatusInvariant, IsFollowed, OneJob, ShownIsKey

(* A timer fires: a recompute of the engine's slot looks at the inputs as   *)
(* they are; one of a forgotten slot is no help, and does not hide the      *)
(* need of another.                                                         *)
LEMMA FollowBegins ==
  ASSUME StatusTypeOK, StatusInvariant, NEW k \in 1..MaxSlot, Begins(k),
         slots'[k].key = slots[k].key, \A m \in 1..MaxSlot \ {k} : slots'[m] = slots[m],
         UNCHANGED <<registry, slot, store, shown, stray>>
  PROVE  StatusInvariant'
<1>1. UNCHANGED <<entries, entry, run>> /\ Running' = Running /\ Failed' = Failed
  BY CountsUnchanged DEF registry, store
<1>2. slot # 0 => slot \in 1..MaxSlot
  BY TypesByPart, Bounds DEF EngineTyped
<1>3. ShownIsKey'
  BY <1>2 DEF StatusInvariant, ShownIsKey
<1>4. CASE entry = 0
  BY <1>1, <1>3, <1>4 DEF Begins, history, StatusInvariant, IsFollowed, OneJob
<1>5. CASE entry # 0
  <2> DEFINE begun == [at |-> "runs", slot |-> k, entry |-> entry, running |-> 0, runs |-> {}]
  <2>1. PICK i \in Job :
          /\ job[i] = NoJob
          /\ job' = [job EXCEPT ![i] = begun]
          /\ missed' = ((\E j \in Job : job[j] # NoJob) \/ (k # slot /\ missed))
    BY <1>5, BeginsWith
  <2>2. begun # NoJob /\ begun.at = "runs" /\ begun.slot = k /\ begun.entry = entry
    BY DEF NoJob
  <2> HIDE DEF begun
  <2>3. job'[i] = begun /\ \A j \in Job \ {i} : job'[j] = job[j]
    BY <2>1, TypesByPart DEF JobsTyped
  <2>4. ~missed' => \A j \in Job : job[j] = NoJob
    BY <2>1
  <2>5. OneJob'
    BY <2>3, <2>4 DEF OneJob
  <2>6. ASSUME slot # 0, ~missed', k = slot
        PROVE  RightJob(i)'
    BY <1>1, <2>2, <2>3, <2>6 DEF RightJob
  <2>7. ASSUME slot # 0, ~missed', k # slot
        PROVE  IsFollowed'
    <3>1. ~missed /\ slots'[slot] = slots[slot]
      BY <1>2, <2>1, <2>7
    <3>2. \A j \in Job : job'[j] = NoJob \/ job'[j].slot # slot
      BY <2>2, <2>3, <2>4, <2>7
    <3>3. slots[slot].pending \/ Unsettled \/ slots[slot].stale = "due" \/ UpToDate
      BY <1>5, <2>4, <2>7, <3>1 DEF StatusInvariant, IsFollowed, RightJob
    <3>4. UpToDate => UpToDate'
      BY <1>1, <3>1 DEF UpToDate
    <3>5. Unsettled => Unsettled'
      BY <1>1 DEF Unsettled
    <3> QED
      BY <3>1, <3>2, <3>3, <3>4, <3>5 DEF IsFollowed
  <2>8. IsFollowed'
    BY <2>6, <2>7 DEF IsFollowed
  <2> QED
    BY <1>3, <2>5, <2>8 DEF StatusInvariant
<1> QED
  BY <1>4, <1>5

(* A recompute has read all it wanted: if it was the right one, the slot    *)
(* holds the status of now.                                                 *)
LEMMA FollowFinishes ==
  ASSUME StatusTypeOK, StatusInvariant, NEW j \in Job, job[j] # NoJob,
         NEW running \in Count, NEW failed \in Count, Finishes(j, running, failed),
         RightJob(j) => running = Running /\ failed = Failed,
         UNCHANGED <<registry, slot, store, missed>>
  PROVE  StatusInvariant'
<1> DEFINE k == job[j].slot
           e == entries[job[j].entry]
           key == StatusOf(e, running, failed)
<1>1. k \in 1..MaxSlot /\ e \in Entry /\ slots[k] \in Slot
  <2>1. job[j] \in Busy
    BY TypesByPart DEF JobsTyped
  <2> QED
    BY <2>1, TypesByPart DEF Busy, RegistryTyped, EngineTyped
<1>2. UNCHANGED <<entries, entry, run>> /\ Running' = Running /\ Failed' = Failed
  BY CountsUnchanged DEF registry, store
<1>3. slot # 0 => slot \in 1..MaxSlot
  BY TypesByPart, Bounds DEF EngineTyped
<1>4. key # NoKey
  BY <1>1, StatusOfType
<1>5. /\ slots' = [slots EXCEPT ![k] = [slots[k] EXCEPT !.stale = Armed(e, running, failed), !.key = key]]
      /\ shown' = (IF key = slots[k].key THEN shown ELSE key)
      /\ job' = [job EXCEPT ![j] = NoJob]
      /\ stray' = (stray \/ (k # slot /\ key # slots[k].key))
  BY <1>1, TypesByPart DEF Finishes, EngineTyped
<1>6. e.last = "fresh" /\ ~e.ended /\ running + failed = 0 => Armed(e, running, failed) # "off"
  BY <1>1, ArmedType
<1>7. RightJob(j) => k = slot /\ e = entries[entry]
  BY DEF RightJob
<1> HIDE DEF e, key
<1>8. /\ slots'[k].key = key /\ slots'[k].stale = Armed(e, running, failed)
      /\ slots'[k].pending = slots[k].pending
      /\ \A m \in 1..MaxSlot \ {k} : slots'[m] = slots[m]
  BY <1>1, <1>5, TypesByPart DEF EngineTyped, Slot
<1>9. job'[j] = NoJob /\ \A i \in Job \ {j} : job'[i] = job[i]
  BY <1>5, TypesByPart DEF JobsTyped
<1> HIDE DEF k
<1>10. OneJob'
  BY <1>9 DEF StatusInvariant, OneJob
<1>11. ShownIsKey'
  <2>1. CASE k = slot
    BY <1>4, <1>5, <1>8, <2>1 DEF StatusInvariant, ShownIsKey
  <2>2. CASE k # slot
    BY <1>3, <1>5, <1>8, <2>2 DEF StatusInvariant, ShownIsKey
  <2> QED
    BY <2>1, <2>2
<1>12. ASSUME slot # 0, RightJob(j), ~missed
       PROVE  UpToDate' /\ \A i \in Job : job'[i] = NoJob
  <2>1. key = StatusOf(entries[entry], Running, Failed)
    BY <1>7, <1>12 DEF key
  <2>2. UpToDate'
    BY <1>2, <1>6, <1>7, <1>8, <1>12, <2>1 DEF UpToDate
  <2> QED
    BY <1>9, <1>12, <2>2 DEF StatusInvariant, OneJob
<1>13. ASSUME entry # 0, slot # 0, ~missed, ~RightJob(j)
       PROVE  IsFollowed'
  <2>1. /\ slots'[slot].pending = slots[slot].pending
        /\ k # slot => slots'[slot] = slots[slot]
    BY <1>3, <1>8, <1>13
  <2>2. \A i \in Job : ~RightJob(i)
    BY <1>13 DEF StatusInvariant, OneJob, RightJob
  <2>3. slots[slot].pending \/ Unsettled
        \/ /\ \A i \in Job : job[i] = NoJob \/ job[i].slot # slot
           /\ slots[slot].stale = "due" \/ UpToDate
    BY <1>13, <2>2 DEF StatusInvariant, IsFollowed
  <2>4. Unsettled => Unsettled'
    BY <1>2 DEF Unsettled
  <2>5. CASE k # slot
    <3>1. UpToDate => UpToDate'
      BY <1>2, <2>1, <2>5 DEF UpToDate
    <3> QED
      BY <1>9, <2>1, <2>3, <2>4, <2>5, <3>1 DEF IsFollowed
  <2>6. CASE k = slot
    BY <2>1, <2>3, <2>4, <2>6 DEF IsFollowed, k
  <2> QED
    BY <2>5, <2>6
<1>14. IsFollowed'
  BY <1>2, <1>12, <1>13 DEF IsFollowed
<1> QED
  BY <1>10, <1>11, <1>14 DEF StatusInvariant

(* Of an orchestrator without runs both counts are zero. *)
LEMMA NothingListed ==
  ASSUME Listed = {}
  PROVE  Running = 0 /\ Failed = 0
<1>1. {r \in Listed : run[r] \in {"created", "running"}} = {}
      /\ {r \in Listed : fatal[r] = "unacked"} = {}
  OBVIOUS
<1> QED
  BY <1>1, FS_EmptySet DEF Running, Failed, FailedOf

LEMMA JobFollows ==
  ASSUME StatusTypeOK, StatusInvariant, NEW j \in Job, JobStep(j) \/ JobFails(j)
  PROVE  StatusInvariant'
<1>1. CASE JobReadsRuns(j) /\ Listed = {}
  <2>1. job[j] # NoJob /\ Finishes(j, 0, 0) /\ UNCHANGED <<registry, slot, store, missed>>
    BY <1>1, NewOnes DEF JobReadsRuns
  <2> QED
    BY <1>1, <2>1, NothingListed, ZeroIsCount, FollowFinishes
<1>2. CASE JobReadsRuns(j) /\ Listed # {}
  <2> DEFINE read == [job[j] EXCEPT !.at = "notifications", !.running = Running, !.runs = Listed]
  <2>1. job[j].at = "runs" /\ job[j] # NoJob
    BY <1>2, NewOnes DEF JobReadsRuns
  <2>2. job' = [job EXCEPT ![j] = read] /\ read \in Busy /\ UNCHANGED <<slots, shown, stray>>
    BY <1>2, <2>1, ReadsRuns
  <2>3. /\ UNCHANGED <<entries, entry, slot, run, fatal, missed>>
        /\ Running' = Running /\ Failed' = Failed
    BY <1>2, CountsUnchanged DEF JobReadsRuns, registry, store
  <2>4. read.slot = job[j].slot /\ read.entry = job[j].entry /\ read.running = Running
        /\ read.runs = Listed /\ read # NoJob
    <3>1. job[j] \in Busy
      BY <2>1, TypesByPart DEF JobsTyped
    <3> QED
      BY <2>2, <3>1, BusyIsBusy DEF Busy
  <2> HIDE DEF read
  <2>5. job'[j] = read /\ \A i \in Job \ {j} : job'[i] = job[i]
    BY <2>2, TypesByPart DEF JobsTyped
  <2>6. ASSUME NEW i \in Job, RightJob(i) PROVE RightJob(i)'
    <3>1. CASE i = j
      <4>1. FailedOf(job[i].runs)' = Failed
        BY <2>3, <2>4, <2>5, <3>1 DEF Failed, FailedOf
      <4> QED
        BY <2>3, <2>4, <2>5, <2>6, <3>1, <4>1 DEF RightJob
    <3>2. CASE i # j
      <4>1. FailedOf(job[i].runs)' = FailedOf(job[i].runs)
        BY <2>3, <2>5, <3>2 DEF FailedOf
      <4> QED
        BY <2>3, <2>5, <2>6, <3>2, <4>1 DEF RightJob
    <3> QED
      BY <3>1, <3>2
  <2>7. \A i \in Job : /\ job'[i] = NoJob <=> job[i] = NoJob
                       /\ job'[i].slot = job[i].slot
    BY <2>1, <2>4, <2>5
  <2>8. OneJob' /\ ShownIsKey'
    BY <2>2, <2>3, <2>7 DEF StatusInvariant, OneJob, ShownIsKey
  <2>9. (UpToDate => UpToDate') /\ (Unsettled => Unsettled')
    BY <2>2, <2>3 DEF UpToDate, Unsettled
  <2>10. IsFollowed'
    BY <2>2, <2>3, <2>6, <2>7, <2>9 DEF StatusInvariant, IsFollowed
  <2> QED
    BY <2>8, <2>10 DEF StatusInvariant
<1>3. CASE JobReadsNotifications(j)
  <2>1. job[j] # NoJob
    BY <1>3, NewOnes DEF JobReadsNotifications
  <2>2. job[j].running \in Count /\ FailedOf(job[j].runs) \in Count
    <3>1. job[j] \in Busy
      BY <2>1, TypesByPart DEF JobsTyped
    <3> QED
      BY <3>1, CountsInRange DEF Busy
  <2>3. RightJob(j) => job[j].running = Running /\ FailedOf(job[j].runs) = Failed
    BY <1>3 DEF JobReadsNotifications, RightJob
  <2>4. Finishes(j, job[j].running, FailedOf(job[j].runs))
        /\ UNCHANGED <<registry, slot, store, missed>>
    BY <1>3 DEF JobReadsNotifications
  <2> QED
    BY <2>1, <2>2, <2>3, <2>4, FollowFinishes
<1>4. CASE JobFails(j)
  BY <1>4, FollowMissed DEF JobFails, engine
<1> QED
  BY <1>1, <1>2, <1>3, <1>4 DEF JobStep

LEMMA TimerFollows ==
  ASSUME StatusTypeOK, StatusInvariant, NEW k \in 1..MaxSlot, TimerFires(k)
  PROVE  StatusInvariant'
<1>1. Begins(k) /\ UNCHANGED <<registry, slot, store, shown, stray>>
  BY DEF TimerFires, DebounceFires, StaleFires
<1>2. slots[k] \in Slot
  BY TypesByPart DEF EngineTyped
<1>3. /\ [slots[k] EXCEPT !.pending = FALSE].key = slots[k].key
      /\ [slots[k] EXCEPT !.stale = "off"].key = slots[k].key
  BY <1>2 DEF Slot
<1>4. \/ slots' = [slots EXCEPT ![k] = [slots[k] EXCEPT !.pending = FALSE]]
      \/ slots' = [slots EXCEPT ![k] = [slots[k] EXCEPT !.stale = "off"]]
  BY TypesByPart DEF TimerFires, DebounceFires, StaleFires, EngineTyped
<1>5. slots'[k].key = slots[k].key /\ \A m \in 1..MaxSlot \ {k} : slots'[m] = slots[m]
  BY <1>3, <1>4, TypesByPart DEF EngineTyped
<1> QED
  BY <1>1, <1>5, FollowBegins

LEMMA RunFollows ==
  ASSUME StatusTypeOK, StatusInvariant, NEW r \in Run, RunStep(r)
  PROVE  StatusInvariant'
<1>1. slots \in [1..MaxSlot -> Slot] /\ run \in [Run -> RunState]
  BY TypesByPart DEF EngineTyped, StoreTyped
<1>2. CASE RunAppears(r) \/ RunEnds(r)
  <2>1. Unsettled'
    BY <1>1, <1>2 DEF RunAppears, RunEnds, Unsettled
  <2> QED
    BY <1>2, <2>1, FollowUnsettled DEF RunAppears, RunEnds, engine, history
<1>3. CASE RunStarted(r) \/ TerminalAnnounced(r)
  BY <1>1, <1>3, FollowScheduled DEF RunStarted, TerminalAnnounced, ScheduleRecompute, history
<1>4. CASE FatalNotified(r)
  BY <1>4, FollowMissed DEF FatalNotified, engine
<1>5. CASE AckRunNotification(r)
  <2>1. CASE entry = 0
    <3>1. UNCHANGED <<entry, slots, slot, job, shown, missed, stray>>
      BY <1>5, <2>1 DEF AckRunNotification, WakeRegistered, registry, engine, history
    <3> QED
      BY <2>1, <3>1 DEF StatusInvariant, IsFollowed, OneJob, ShownIsKey
  <2>2. CASE entry # 0
    BY <1>1, <1>5, <2>2, FollowScheduled DEF AckRunNotification, WakeRegistered,
       ScheduleRecompute, history
  <2> QED
    BY <2>1, <2>2
<1>6. CASE PruneRuns(r)
  <2>1. CASE fatal[r] = "unacked"
    BY <1>6, <2>1, FollowMissed DEF PruneRuns, engine
  <2>2. CASE fatal[r] # "unacked"
    <3>1. UNCHANGED <<entries, entry, slots, slot, job, shown, stray>> /\ missed' = missed
      BY <1>6, <2>2, TypesByPart DEF PruneRuns, registry, engine, HistoryTyped
    <3>2. run[r] = "ended" /\ run'[r] = "pruned" /\ fatal'[r] = "none"
          /\ \A q \in Run \ {r} : run'[q] = run[q] /\ fatal'[q] = fatal[q]
      BY <1>6, TypesByPart DEF PruneRuns, StoreTyped
    <3>3. {q \in Listed : run[q] \in {"created", "running"}}'
            = {q \in Listed : run[q] \in {"created", "running"}}
      BY <3>2 DEF Listed
    <3>4. {q \in Listed : fatal[q] = "unacked"}' = {q \in Listed : fatal[q] = "unacked"}
      BY <2>2, <3>2 DEF Listed
    <3>5. Running' = Running /\ Failed' = Failed
      BY <3>3, <3>4 DEF Running, Failed, FailedOf
    <3>8. ASSUME NEW j \in Job, RightJob(j) PROVE RightJob(j)'
      <4>1. CASE job[j].at = "notifications"
        <5>1. job[j].runs \in SUBSET Run
          BY <4>1, NewOnes, TypesByPart DEF JobsTyped, Busy
        <5>2. {q \in job[j].runs : fatal[q] = "unacked"}
                = {q \in job[j].runs : fatal'[q] = "unacked"}
          BY <2>2, <3>2, <5>1
        <5>3. FailedOf(job[j].runs)' = FailedOf(job[j].runs)
          BY <3>1, <5>2 DEF FailedOf
        <5> QED
          BY <3>1, <3>5, <3>8, <5>3 DEF RightJob
      <4>2. CASE job[j].at # "notifications"
        BY <3>1, <3>8, <4>2 DEF RightJob
      <4> QED
        BY <4>1, <4>2
    <3>6. (UpToDate => UpToDate') /\ (Unsettled => Unsettled')
          /\ \A j \in Job : RightJob(j) => RightJob(j)'
      BY <3>1, <3>2, <3>5, <3>8 DEF UpToDate, Unsettled
    <3>7. IsFollowed'
      BY <3>1, <3>6 DEF StatusInvariant, IsFollowed
    <3> QED
      BY <3>1, <3>7 DEF StatusInvariant, OneJob, ShownIsKey
  <2> QED
    BY <2>1, <2>2
<1> QED
  BY <1>2, <1>3, <1>4, <1>5, <1>6 DEF RunStep

(* The supervisor falls silent: the timer of a status that this makes stale *)
(* is due.                                                                  *)
LEMMA TimeFollows ==
  ASSUME StatusTypeOK, StatusInvariant, TimePasses
  PROVE  StatusInvariant'
<1>1. /\ UNCHANGED <<entry, slot, job, run, fatal, shown, missed, stray>>
      /\ Running' = Running /\ Failed' = Failed
  BY CountsUnchanged DEF TimePasses, store, history
<1>2. slot # 0 => slot \in 1..MaxSlot
  BY TypesByPart, Bounds DEF EngineTyped
<1>3. ASSUME NEW k \in 1..MaxSlot
      PROVE  /\ slots'[k].key = slots[k].key /\ slots'[k].pending = slots[k].pending
             /\ slots'[k].stale = (IF slots[k].stale = "armed" THEN "due" ELSE slots[k].stale)
             /\ slots[k].stale \in Stale
  <2>1. slots[k] \in Slot
    BY TypesByPart DEF EngineTyped
  <2> QED
    BY <2>1 DEF TimePasses, Slot
<1>4. ShownIsKey'
  BY <1>1, <1>2, <1>3 DEF StatusInvariant, ShownIsKey
<1>5. ASSUME entry # 0, slot # 0, UpToDate
      PROVE  slots'[slot].stale = "due" \/ UpToDate'
  <2> DEFINE e == entries[entry]
  <2>1. e \in Entry /\ entry \in 1..MaxEntry
    BY <1>5, TypesByPart, Bounds DEF RegistryTyped
  <2>2. entries'[entry] = [e EXCEPT !.last = IF e.last = "fresh" THEN "old" ELSE e.last]
    BY <2>1 DEF TimePasses
  <2>3. CASE e.last = "fresh" /\ ~e.ended /\ Running + Failed = 0
    BY <1>2, <1>3, <1>5, <2>3 DEF UpToDate, Stale
  <2>4. CASE e.last # "fresh"
    <3>1. entries'[entry] = e
      BY <2>1, <2>2, <2>4 DEF Entry
    <3> QED
      BY <1>1, <1>2, <1>3, <1>5, <2>4, <3>1 DEF UpToDate
  <2>5. CASE e.last = "fresh" /\ (e.ended \/ Running + Failed # 0)
    <3>1. /\ entries'[entry].ended = e.ended /\ entries'[entry].last = "old"
          /\ entries'[entry].waiting = e.waiting /\ entries'[entry].turn = e.turn
      BY <2>1, <2>2, <2>5 DEF Entry
    <3>2. LiveState(entries'[entry], Running, Failed) = LiveState(e, Running, Failed)
      BY <3>1 DEF LiveState
    <3>3. StateShown(entries'[entry], Running, Failed) = StateShown(e, Running, Failed)
      BY <2>5, <3>1, <3>2 DEF StateShown
    <3>4. StatusOf(entries'[entry], Running, Failed) = StatusOf(e, Running, Failed)
      BY <3>3 DEF StatusOf
    <3>5. StatusOf(entries[entry], Running, Failed)' = StatusOf(entries'[entry], Running, Failed)
      BY <1>1
    <3> QED
      BY <1>1, <1>2, <1>3, <1>5, <3>1, <3>4, <3>5 DEF UpToDate
  <2> QED
    BY <2>3, <2>4, <2>5
<1>6. (Unsettled => Unsettled') /\ \A j \in Job : RightJob(j) => RightJob(j)'
  <2>1. \A j \in Job : FailedOf(job[j].runs)' = FailedOf(job[j].runs)
    BY <1>1 DEF FailedOf
  <2> QED
    BY <1>1, <2>1 DEF Unsettled, RightJob
<1>7. IsFollowed'
  <2> SUFFICES ASSUME entry # 0, slot # 0, ~missed PROVE IsFollowed'
    BY <1>1 DEF IsFollowed
  <2>1. slots'[slot].pending = slots[slot].pending
        /\ (slots[slot].stale = "due" => slots'[slot].stale = "due")
    BY <1>2, <1>3
  <2>2. \/ slots[slot].pending \/ Unsettled \/ \E j \in Job : RightJob(j)
        \/ /\ \A j \in Job : job[j] = NoJob \/ job[j].slot # slot
           /\ slots[slot].stale = "due" \/ UpToDate
    BY DEF StatusInvariant, IsFollowed
  <2> QED
    BY <1>1, <1>5, <1>6, <2>1, <2>2 DEF IsFollowed
<1> QED
  BY <1>1, <1>4, <1>7 DEF StatusInvariant, OneJob

(* The launcher, the signal commands and a restart of the daemon. *)
LEMMA SignalFollows ==
  ASSUME StatusTypeOK, StatusInvariant, NEW event, SignalSupervisorEvent(event),
         UNCHANGED <<job, shown, history>>
  PROVE  StatusInvariant'
<1> DEFINE then == IF entry = 0 THEN slots ELSE Overtaken
<1>1. then \in [1..MaxSlot -> Slot] /\ \A k \in 1..MaxSlot : then[k].key = slots[k].key
  BY OvertakenTypes, TypesByPart DEF EngineTyped
<1>2. Schedule(then)
  BY DEF SignalSupervisorEvent
<1> HIDE DEF then
<1> QED
  BY <1>1, <1>2, FollowScheduled DEF history

LEMMA RegisterFollows ==
  ASSUME StatusTypeOK, StatusInvariant, Register, UNCHANGED <<job, shown, history>>
  PROVE  StatusInvariant'
BY TypesByPart, FollowScheduled DEF Register, ScheduleRecompute, EngineTyped, history

LEMMA CliFollows ==
  ASSUME StatusTypeOK, StatusInvariant, NEW c \in Cli,
         SignalStarts(c) \/ CliStep(c) \/ SignalFails(c)
  PROVE  StatusInvariant'
<1>1. CASE SignalStarts(c) \/ ReadOrchestratorSidecar(c)
  BY <1>1, FollowSame DEF SignalStarts, ReadOrchestratorSidecar
<1>2. CASE SignalSent(c) \/ SignalRetried(c)
  BY <1>2, SignalFollows DEF SignalSent, SignalRetried
<1>3. CASE ReregisterFromSidecar(c)
  BY <1>3, RegisterFollows DEF ReregisterFromSidecar
<1>4. CASE SignalFails(c)
  BY <1>4, FollowSame, RegisterFollows DEF SignalFails
<1> QED
  BY <1>1, <1>2, <1>3, <1>4 DEF CliStep

LEMMA LauncherFollows ==
  ASSUME StatusTypeOK, StatusInvariant, LauncherStep \/ DaemonRestarts
  PROVE  StatusInvariant'
<1>1. CASE WriteSidecar \/ RemoveOrchestratorSidecar \/ LauncherKilled
  BY <1>1, FollowSame DEF WriteSidecar, RemoveOrchestratorSidecar, LauncherKilled
<1>2. CASE RegisterOrchestrator
  BY <1>2, FollowSame, RegisterFollows DEF RegisterOrchestrator
<1>3. CASE UnregisterOrchestrator
  <2>1. CASE Unregister
    BY <1>3, <2>1, FollowForgotten DEF UnregisterOrchestrator, Unregister, Forget, history
  <2>2. CASE UNCHANGED <<registry, engine>>
    BY <1>3, <2>2, FollowSame DEF UnregisterOrchestrator
  <2> QED
    BY <1>3, <2>1, <2>2 DEF UnregisterOrchestrator
<1>4. CASE DaemonRestarts
  BY <1>4, FollowForgotten DEF DaemonRestarts, history
<1> QED
  BY <1>1, <1>2, <1>3, <1>4 DEF LauncherStep

LEMMA StatusFollowsNext ==
  StatusTypeOK /\ StatusInvariant /\ [StatusNext]_statusVars => StatusInvariant'
<1> SUFFICES ASSUME StatusTypeOK, StatusInvariant, [StatusNext]_statusVars
             PROVE  StatusInvariant'
  OBVIOUS
<1>1. ASSUME NEW j \in Job, JobStep(j) \/ JobFails(j) PROVE StatusInvariant'
  BY <1>1, JobFollows
<1>2. ASSUME NEW k \in 1..MaxSlot, TimerFires(k) PROVE StatusInvariant'
  BY <1>2, TimerFollows
<1>3. ASSUME NEW r \in Run, RunStep(r) PROVE StatusInvariant'
  BY <1>3, RunFollows
<1>4. ASSUME NEW c \in Cli, SignalStarts(c) \/ CliStep(c) \/ SignalFails(c)
      PROVE  StatusInvariant'
  BY <1>4, CliFollows
<1>5. CASE LauncherStep \/ DaemonRestarts
  BY <1>5, LauncherFollows
<1>6. CASE TimePasses
  BY <1>6, TimeFollows
<1>7. CASE UNCHANGED statusVars
  BY <1>7, FollowSame DEF statusVars
<1> QED
  BY <1>1, <1>2, <1>3, <1>4, <1>5, <1>6, <1>7 DEF StatusNext

LEMMA FollowedIsRight ==
  StatusTypeOK /\ StatusInvariant => StatusIsRight
<1> SUFFICES ASSUME StatusTypeOK, StatusInvariant, Settled, ~missed, ~stray
             PROVE  shown = StatusOf(entries[entry], Running, Failed)
  BY DEF StatusIsRight, SettledStatusIsRight
<1>1. entry # 0 /\ slot # 0 /\ ~slots[slot].pending /\ slots[slot].stale # "due"
  BY DEF Settled
<1>2. ~Unsettled /\ \A j \in Job : ~RightJob(j)
  BY DEF Settled, Unsettled, RightJob
<1>3. UpToDate
  BY <1>1, <1>2 DEF StatusInvariant, IsFollowed
<1>4. entries[entry] \in Entry
  BY <1>1, TypesByPart, Bounds DEF RegistryTyped
<1>5. slots[slot].key = StatusOf(entries[entry], Running, Failed) /\ slots[slot].key # NoKey
  BY <1>3, <1>4, StatusOfType, CountsInRange DEF UpToDate
<1> QED
  BY <1>1, <1>5 DEF StatusInvariant, ShownIsKey
-----------------------------------------------------------------------------
(* The inductive invariant: what is under way for a registered              *)
(* orchestrator, what its slot holds, and where the launcher and every      *)
(* signal command stand.                                                    *)
THEOREM StatusInvariance ==
  StatusSpec => [](StatusTypeOK /\ StatusInvariant /\ SessionsInvariant)
<1>1. StatusInit => StatusTypeOK /\ StatusInvariant /\ SessionsInvariant
  BY StatusTypesInit, FollowInit, SessionsInit
<1>2. StatusTypeOK /\ StatusInvariant /\ SessionsInvariant /\ [StatusNext]_statusVars =>
        (StatusTypeOK /\ StatusInvariant /\ SessionsInvariant)'
  BY StatusTypesNext, StatusFollowsNext, SessionsNext
<1> QED
  BY <1>1, <1>2, PTL DEF StatusSpec

(* StatusIsRight of orchestratorStatus.ts: no lifecycle event is lost in    *)
(* the debounce, in an overlap of a recompute with a change of its inputs,  *)
(* or in the silence of a supervisor: at rest the hooks were shown the      *)
(* status of now.                                                           *)
THEOREM StatusIsAlwaysRight == StatusSpec => []StatusIsRight
<1>1. StatusTypeOK /\ StatusInvariant /\ SessionsInvariant => StatusIsRight
  BY FollowedIsRight
<1> QED
  BY <1>1, StatusInvariance, PTL

(* SessionsAreFollowed of the launcher, runSignal and the registry, with    *)
(* launchers that are killed and calls that fail, any number of them: a     *)
(* registration or a sidecar that outlives its supervisor has a cause the   *)
(* launcher or a signal in progress gave, none that is gone altogether is   *)
(* registered again, and no trouble alone, but the failing call of a signal *)
(* itself, costs an event of a supervisor that goes on.                     *)
THEOREM SessionsAreAlwaysFollowed == StatusSpec => SessionsAreFollowed
<1>1. StatusTypeOK /\ SessionsInvariant /\ [StatusNext]_statusVars =>
        [GoneForGood => GoneForGood']_statusVars
  BY SessionsNext DEF SessionStepsRight
<1>2. StatusTypeOK /\ SessionsInvariant /\ [StatusNext]_statusVars =>
        [EventIsExplained]_statusVars
  BY SessionsNext DEF SessionStepsRight
<1>3. StatusSpec => [][EventIsExplained]_statusVars
  BY <1>2, StatusInvariance, PTL DEF StatusSpec
<1>4. StatusSpec => EventsSurviveRestart
  BY <1>3 DEF EventIsExplained, EventsSurviveRestart
<1>5. StatusSpec => [][GoneForGood => GoneForGood']_statusVars
  BY <1>1, StatusInvariance, PTL DEF StatusSpec
<1>6. StatusSpec => []GhostIsExplained
  BY GhostsExplained, StatusInvariance, PTL
<1> QED
  BY <1>4, <1>5, <1>6 DEF SessionsAreFollowed, NoGhostOrchestrator
=============================================================================
