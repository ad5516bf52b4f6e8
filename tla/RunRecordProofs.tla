-------------------------- MODULE RunRecordProofs ---------------------------
(***************************************************************************)
(* Theorems about the two records a run keeps for whoever comes after it.  *)
(* Its event log (EventLog): what holds of the numbers whatever crashes    *)
(* and whichever summaries are read, and that appends alone, under the     *)
(* lock, number the events consecutively.  Its meta.json (RunTree): what a *)
(* run has from the runs it follows, for any number of runs, follow-ups in *)
(* progress and prunes.                                                    *)
(***************************************************************************)
EXTENDS EventLog, RunTree, FiniteSetTheorems, WellFoundedInduction, TLAPS

-----------------------------------------------------------------------------
(* The numbers of a run's events *)

(* Every number a call remembers is the number of some event, or 0. *)
Known(n) == n = 0 \/ \E i \in 1..Len(log) : log[i] = n

NumberingInvariant ==
  /\ EventTypeOK
  /\ NumbersNeverJump
  /\ counter = Torn \/ Known(counter)
  /\ \A a \in Actor : Known(last[a])

LEMMA LogSequenceKnown ==
  ASSUME EventTypeOK
  PROVE  LogSequence \in Nat /\ Known(LogSequence)
BY DEF EventTypeOK, LogSequence, Known

LEMMA NumberingInit == EventInit => NumberingInvariant
BY DEF EventInit, NumberingInvariant, EventTypeOK, EventStep, NumbersNeverJump, Known

LEMMA AppendingKeepsNumbers ==
  ASSUME log \in Seq(Nat), NumbersNeverJump, NEW m \in Nat, Known(m),
         log' = Append(log, m + 1)
  PROVE  /\ NumbersNeverJump'
         /\ \A n \in Nat : Known(n) \/ n = m + 1 => Known(n)'
<1>1. /\ Len(log) \in Nat /\ Len(log') = Len(log) + 1 /\ log'[Len(log) + 1] = m + 1
      /\ \A i \in 1..Len(log) : log'[i] = log[i] /\ log[i] \in Nat
  OBVIOUS
<1>2. \A n \in Nat : Known(n) \/ n = m + 1 => Known(n)'
  BY <1>1 DEF Known
<1>3. NumbersNeverJump'
  <2> SUFFICES ASSUME NEW i \in 1..(Len(log) + 1)
               PROVE  log'[i] = 1 \/ \E j \in 1..(i - 1) : log'[j] + 1 = log'[i]
    BY <1>1 DEF NumbersNeverJump
  <2>1. CASE i = Len(log) + 1
    BY <1>1, <2>1 DEF Known
  <2>2. CASE i # Len(log) + 1
    <3>1. i \in 1..Len(log)
      BY <1>1, <2>2
    <3>2. CASE log[i] = 1
      BY <1>1, <3>1, <3>2
    <3>3. CASE \E j \in 1..(i - 1) : log[j] + 1 = log[i]
      <4>1. PICK j \in 1..(i - 1) : log[j] + 1 = log[i]
        BY <3>3
      <4>2. j \in 1..Len(log)
        BY <1>1, <3>1
      <4>3. log'[j] = log[j] /\ log'[i] = log[i]
        BY <1>1, <3>1, <4>2
      <4> QED
        BY <4>1, <4>3
    <3> QED
      BY <3>1, <3>2, <3>3 DEF NumbersNeverJump
  <2> QED
    BY <2>1, <2>2
<1> QED
  BY <1>2, <1>3

LEMMA NumberingNext ==
  NumberingInvariant /\ [EventNext]_eventVars => NumberingInvariant'
<1> SUFFICES ASSUME NumberingInvariant, [EventNext]_eventVars PROVE NumberingInvariant'
  OBVIOUS
<1> USE DEF NumberingInvariant, EventTypeOK, EventStep, Move, Remember, clients, history
<1>1. LogSequence \in Nat /\ Known(LogSequence)
  BY LogSequenceKnown
(* All steps but one leave the log alone, and remember known numbers. *)
<1>2. ASSUME log' = log, \A a \in Actor : last'[a] \in {0, last[a], LogSequence, counter},
             \A a \in Actor : last'[a] # Torn,
             counter' \in {counter, Torn} \/ \E a \in Actor : counter' = last[a]
      PROVE  /\ NumbersNeverJump'
             /\ (counter = Torn \/ Known(counter))'
             /\ (\A a \in Actor : Known(last[a]))'
  <2>1. NumbersNeverJump'
    BY <1>2 DEF NumbersNeverJump
  <2>2. \A n : Known(n) => Known(n)'
    BY <1>2 DEF Known
  <2>3. Known(0)
    BY DEF Known
  <2>4. ASSUME NEW a \in Actor PROVE Known(last[a])'
    <3>1. last'[a] = counter => counter # Torn
      BY <1>2
    <3> QED
      BY <1>1, <1>2, <2>2, <2>3, <3>1
  <2>5. (counter = Torn \/ Known(counter))'
    BY <1>2, <2>2
  <2> QED
    BY <2>1, <2>4, <2>5
<1>3. ASSUME NEW a \in Actor, AcquireLock(a) \/ BreakStaleLock(a) \/ ReadEventSummary(a)
      PROVE  NumberingInvariant'
  <2>1. CASE AcquireLock(a)
    BY <1>2, <2>1, EventLogAssumption DEF AcquireLock
  <2>2. CASE BreakStaleLock(a)
    BY <1>2, <2>2, EventLogAssumption DEF BreakStaleLock
  <2>3. CASE ReadEventSummary(a)
    BY <1>2, <2>3, EventLogAssumption DEF ReadEventSummary
  <2> QED
    BY <1>3, <2>1, <2>2, <2>3
<1>4. ASSUME NEW a \in Actor, ReadCounter(a) PROVE NumberingInvariant'
  <2>0. log' = log /\ counter' = counter /\ UNCHANGED lock /\ UNCHANGED history
        /\ UNCHANGED cursor /\ UNCHANGED delivered
    BY <1>4 DEF ReadCounter
  <2>1. CASE CounterIsNumber
    <3>1. /\ Move(a, "read", IF a \in Appender THEN "append" ELSE "compare")
          /\ Remember(a, counter)
      BY <1>4, <2>1 DEF ReadCounter
    <3> QED
      BY <1>2, <2>0, <2>1, <3>1, EventLogAssumption DEF CounterIsNumber
  <2>2. CASE ~CounterIsNumber
    <3>1. Move(a, "read", "read_log") /\ UNCHANGED last
      BY <1>4, <2>2 DEF ReadCounter
    <3> QED
      BY <1>2, <2>0, <3>1, EventLogAssumption
  <2> QED
    BY <2>1, <2>2
<1>5. ASSUME NEW a \in Actor, ReadLog(a) PROVE NumberingInvariant'
  BY <1>1, <1>2, <1>5, EventLogAssumption DEF ReadLog
<1>6. ASSUME NEW a \in Actor, CompareLog(a) PROVE NumberingInvariant'
  <2>1. /\ log' = log /\ counter' = counter /\ UNCHANGED lock /\ UNCHANGED history
        /\ UNCHANGED cursor /\ UNCHANGED delivered
        /\ \/ Move(a, "compare", "repair_torn") /\ Remember(a, LogSequence)
           \/ Move(a, "compare", "idle") /\ Remember(a, 0)
    BY <1>6 DEF CompareLog
  <2>2. CASE Move(a, "compare", "repair_torn") /\ Remember(a, LogSequence)
    BY <1>1, <1>2, <2>1, <2>2, EventLogAssumption
  <2>3. CASE Move(a, "compare", "idle") /\ Remember(a, 0)
    BY <1>1, <1>2, <2>1, <2>3, EventLogAssumption
  <2> QED
    BY <2>1, <2>2, <2>3
<1>7. ASSUME NEW a \in Actor, TruncateCounter(a) PROVE NumberingInvariant'
  <2>1. /\ counter' = Torn /\ UNCHANGED log /\ UNCHANGED lock /\ UNCHANGED last /\ UNCHANGED clients
        /\ UNCHANGED history
    BY <1>7 DEF TruncateCounter
  <2>2. pc' \in [Actor -> EventStep]
    BY <1>7 DEF TruncateCounter
  <2> QED
    BY <1>2, <2>1, <2>2, EventLogAssumption
<1>8. ASSUME NEW a \in Actor, RepairCounter(a) PROVE NumberingInvariant'
  <2>1. /\ log' = log /\ counter' = last[a] /\ UNCHANGED lock /\ UNCHANGED history
        /\ UNCHANGED cursor /\ UNCHANGED delivered
        /\ \/ Move(a, "repair", "append") /\ UNCHANGED last
           \/ Move(a, "repair", "idle") /\ Remember(a, 0)
    BY <1>8 DEF RepairCounter, RepairedCount
  <2>2. CASE Move(a, "repair", "append") /\ UNCHANGED last
    BY <1>2, <2>1, <2>2, EventLogAssumption
  <2>3. CASE Move(a, "repair", "idle") /\ Remember(a, 0)
    BY <1>2, <2>1, <2>3, EventLogAssumption
  <2> QED
    BY <2>1, <2>2, <2>3
<1>9. ASSUME NEW a \in Actor, AppendEvent(a) PROVE NumberingInvariant'
  <2>1. NextNumber(a) \in Nat /\ Known(last[a]) /\ NextNumber(a) = last[a] + 1
    BY DEF NextNumber
  <2>2. NumbersNeverJump' /\ \A n \in Nat : Known(n) \/ n = NextNumber(a) => Known(n)'
    BY <1>9, <2>1, AppendingKeepsNumbers DEF AppendEvent
  <2>3. /\ counter' = counter
        /\ \A b \in Actor : last'[b] \in {last[b], NextNumber(a)} /\ last'[b] \in Nat
    BY <1>9, <2>1 DEF AppendEvent
  <2>4. (counter = Torn \/ Known(counter))'
    BY <2>2, <2>3
  <2>5. \A b \in Actor : Known(last[b])'
    BY <2>2, <2>3
  <2>6. EventTypeOK'
    BY <1>9, <2>1 DEF AppendEvent
  <2> QED
    BY <2>2, <2>4, <2>5, <2>6
<1>10. ASSUME NEW a \in Actor, WriteCounter(a) PROVE NumberingInvariant'
  BY <1>2, <1>10, EventLogAssumption DEF WriteCounter
<1>11. ASSUME NEW a \in Actor, ReleaseLock(a) PROVE NumberingInvariant'
  BY <1>2, <1>11, EventLogAssumption DEF ReleaseLock
<1>12. ASSUME NEW c \in Client, ReadEventsPage(c) PROVE NumberingInvariant'
  <2>1. Page(c) \subseteq 1..Len(log)
    BY DEF Page, Above
  <2>2. PICK i \in Page(c) : cursor' = [cursor EXCEPT ![c] = NextSequence(i)]
    BY <1>12 DEF ReadEventsPage
  <2>3. NextSequence(i) \in Nat
    BY <2>1 DEF NextSequence
  <2>4. EventTypeOK'
    BY <1>12, <2>1, <2>2, <2>3 DEF ReadEventsPage
  <2> QED
    BY <1>2, <1>12, <2>4, EventLogAssumption DEF ReadEventsPage
<1>13. CASE CrashDaemon
  BY <1>2, <1>13, EventLogAssumption DEF CrashDaemon
<1>14. CASE UNCHANGED eventVars
  BY <1>2, <1>14, EventLogAssumption DEF eventVars
<1> QED
  BY <1>3, <1>4, <1>5, <1>6, <1>7, <1>8, <1>9, <1>10, <1>11, <1>12, <1>13, <1>14 DEF EventNext

THEOREM Numbering == EventSpec => []NumberingInvariant
<1>1. NumberingInvariant /\ UNCHANGED eventVars => NumberingInvariant'
  BY NumberingNext
<1> QED
  BY NumberingInit, NumberingNext, PTL DEF EventSpec

(* The variables keep their types; in particular no counter that is torn is *)
(* ever taken for a number.                                                 *)
THEOREM EventTypesHold == EventSpec => []EventTypeOK
<1>1. NumberingInvariant => EventTypeOK
  BY DEF NumberingInvariant
<1> QED
  BY Numbering, <1>1, PTL

(* No event number jumps ahead, however often the daemon is killed between  *)
(* the append and the counter, and however many summaries repair it.        *)
THEOREM NoJump == EventSpec => []NumbersNeverJump
<1>1. NumberingInvariant => NumbersNeverJump
  BY DEF NumberingInvariant
<1> QED
  BY Numbering, <1>1, PTL

(* The counter names the number of some event of the log, or is torn. *)
THEOREM CounterIsBacked == EventSpec => []CounterNeverAhead
<1>1. NumberingInvariant => CounterNeverAhead
  BY DEF NumberingInvariant, CounterNeverAhead, Known
<1> QED
  BY Numbering, <1>1, PTL
-----------------------------------------------------------------------------
(* While nothing has interfered only the owner of the lock is at            *)
(* work: the counter is the length of the log unless the owner has appended *)
(* and not yet counted, and a client has been given all up to its cursor.   *)
AtWork == {"read", "append", "count_torn", "count", "unlock"}

InOrder == \A i \in 1..Len(log) : log[i] = i

Serial ==
  /\ lock # Stale
  /\ \A a \in Actor \ Appender : pc[a] = "idle"
  /\ \A a \in Appender : pc[a] \in {"idle"} \cup AtWork
  /\ \A a \in Appender : pc[a] # "idle" <=> lock = a
  /\ InOrder
  /\ (\A a \in Appender : pc[a] \notin {"count_torn", "count"}) => counter = Len(log)
  /\ \A a \in Appender : pc[a] \in {"append", "count_torn", "count"} => last[a] = Len(log)
  /\ \A c \in Client : cursor[c] <= Len(log) /\ 1..cursor[c] \subseteq delivered[c]

SerialInvariant == EventTypeOK /\ (Undisturbed => Serial)

LEMMA SerialInit == EventInit => SerialInvariant
BY EventLogAssumption
DEF EventInit, SerialInvariant, Serial, Undisturbed, EventTypeOK, EventStep, Actor, AtWork, InOrder

(* A page has no holes: what lies between the cursor and the page's last    *)
(* event is on the page.                                                    *)
LEMMA PageIsPrefix ==
  ASSUME EventTypeOK, InOrder, NEW c \in Client,
         NEW i \in Page(c), NEW j \in Nat, cursor[c] < j, j <= i
  PROVE  j \in Page(c)
<1> USE DEF EventTypeOK
<1>1. /\ Page(c) \subseteq Above(c) /\ Above(c) \subseteq 1..Len(log)
      /\ Len(log) \in Nat /\ cursor[c] \in Nat
  BY DEF Page, Above
<1>2. j \in Above(c) /\ i \in Nat
  BY <1>1 DEF Above, InOrder
<1> DEFINE Upto(n) == {k \in Above(c) : k <= n}
<1>3. IsFiniteSet(Upto(i))
  <2>1. IsFiniteSet(1..Len(log))
    BY <1>1, FS_Interval
  <2>2. Upto(i) \subseteq 1..Len(log)
    BY <1>1
  <2> QED
    BY <2>1, <2>2, FS_Subset
<1>4. Upto(j) \subseteq Upto(i)
  BY <1>1, <1>2
<1>5. /\ Cardinality(Upto(j)) \in Nat /\ Cardinality(Upto(i)) \in Nat
      /\ Cardinality(Upto(j)) <= Cardinality(Upto(i))
  BY <1>3, <1>4, FS_Subset, FS_CardinalityType
<1>6. Cardinality(Upto(i)) <= Limit
  BY DEF Page
<1>7. Limit \in Nat
  BY EventLogAssumption
<1>8. Cardinality(Upto(j)) <= Limit
  <2> HIDE DEF Upto
  <2> QED
    BY <1>5, <1>6, <1>7
<1> QED
  BY <1>2, <1>8 DEF Page

LEMMA SerialNext ==
  ASSUME EventTypeOK, EventTypeOK', Undisturbed => Serial, [EventNext]_eventVars
  PROVE  (Undisturbed => Serial)'
<1> SUFFICES ASSUME Undisturbed' PROVE Serial'
  OBVIOUS
<1> USE EventLogAssumption DEF Serial, EventTypeOK, EventStep, Move, Remember, clients, history, AtWork
<1>0. Serial /\ ~CrashDaemon /\ \A a \in Actor : ~ReadEventSummary(a)
  <2>1. crashes \in Nat /\ ~CrashDaemon /\ \A a \in Actor : ~ReadEventSummary(a)
    BY DEF Undisturbed, CrashDaemon, ReadEventSummary
  <2>2. crashes' = crashes /\ summarized' = summarized
    <3> HIDE DEF EventTypeOK, EventStep, Serial, Move, Remember, AtWork
    <3>1. ASSUME NEW a \in Actor, AcquireLock(a) \/ BreakStaleLock(a) \/ ReadCounter(a) \/ ReadLog(a)
                                  \/ CompareLog(a) \/ TruncateCounter(a) \/ RepairCounter(a)
                                  \/ AppendEvent(a) \/ WriteCounter(a) \/ ReleaseLock(a)
          PROVE  UNCHANGED history
      BY <3>1 DEF AcquireLock, BreakStaleLock, ReadCounter, ReadLog, CompareLog,
                  TruncateCounter, RepairCounter, AppendEvent, WriteCounter, ReleaseLock
    <3>2. ASSUME NEW c \in Client, ReadEventsPage(c) PROVE UNCHANGED history
      BY <3>2 DEF ReadEventsPage
    <3> QED
      BY <2>1, <3>1, <3>2 DEF EventNext, eventVars
  <2> QED
    BY <2>1, <2>2 DEF Undisturbed
<1> USE <1>0
<1>1. ASSUME NEW a \in Actor, AcquireLock(a) PROVE Serial'
  BY <1>1 DEF AcquireLock, LockFree, InOrder
<1>2. ASSUME NEW a \in Actor PROVE ~BreakStaleLock(a) /\ ~ReadLog(a)
                                    /\ ~CompareLog(a) /\ ~RepairCounter(a)
  BY DEF Actor, BreakStaleLock, ReadLog, CompareLog, RepairCounter
<1>3. ASSUME NEW a \in Actor, ReadCounter(a) PROVE Serial'
  <2>1. pc[a] = "read"
    BY <1>3 DEF ReadCounter
  <2>2. counter = Len(log) /\ Len(log) \in Nat
    <3>1. lock = a
      BY <2>1
    <3>2. \A b \in Appender : b # a => pc[b] = "idle"
      BY <3>1
    <3>3. \A b \in Appender : pc[b] \notin {"count_torn", "count"}
      BY <2>1, <3>2
    <3>4. counter = Len(log)
      BY <3>3
    <3> QED
      BY <3>4
  <2>3. /\ Move(a, "read", "append") /\ Remember(a, counter)
        /\ log' = log /\ counter' = counter /\ UNCHANGED lock /\ UNCHANGED history
        /\ UNCHANGED cursor /\ UNCHANGED delivered
    BY <1>3, <2>2 DEF ReadCounter, CounterIsNumber
  <2> QED
    BY <2>2, <2>3 DEF InOrder
<1>4. ASSUME NEW a \in Actor, TruncateCounter(a) PROVE Serial'
  <2>1. counter' = Torn /\ UNCHANGED log /\ UNCHANGED lock /\ UNCHANGED last /\ UNCHANGED clients
    BY <1>4 DEF TruncateCounter
  <2>2. Move(a, "count_torn", "count")
    BY <1>4 DEF TruncateCounter, Actor
  <2>3. pc[a] = "count_torn" /\ pc' = [pc EXCEPT ![a] = "count"]
    BY <2>2
  <2>4. \A b \in Appender : (pc'[b] # "idle" <=> lock' = b) /\ (b # a => pc'[b] = pc[b])
    BY <2>1, <2>3
  <2> QED
    BY <2>1, <2>3, <2>4 DEF InOrder
<1>5. ASSUME NEW a \in Actor, AppendEvent(a) PROVE Serial'
  <2>1. /\ pc[a] = "append" /\ lock = a /\ last[a] = Len(log) /\ Len(log) \in Nat
    BY <1>5 DEF AppendEvent
  <2>2. log' = Append(log, Len(log) + 1) /\ last' = [last EXCEPT ![a] = Len(log) + 1]
    BY <1>5, <2>1 DEF AppendEvent, NextNumber
  <2>3. /\ log' \in Seq(Nat) /\ Len(log') = Len(log) + 1
        /\ log'[Len(log) + 1] = Len(log) + 1
        /\ \A i \in 1..Len(log) : log'[i] = log[i]
    BY <2>1, <2>2
  <2>4. InOrder'
    <3> SUFFICES ASSUME NEW i \in 1..(Len(log) + 1) PROVE log'[i] = i
      BY <2>3 DEF InOrder
    <3>1. CASE i \in 1..Len(log)
      BY <2>3, <3>1 DEF InOrder
    <3>2. CASE i = Len(log) + 1
      BY <2>3, <3>2
    <3> QED
      BY <2>1, <3>1, <3>2
  <2>5. \A b \in Appender : b # a => pc[b] = "idle"
    BY <2>1
  <2>6. /\ pc' = [pc EXCEPT ![a] = "count_torn"] /\ counter' = counter
        /\ UNCHANGED lock /\ UNCHANGED history /\ UNCHANGED cursor /\ UNCHANGED delivered
    BY <1>5 DEF AppendEvent
  <2>7. EventTypeOK'
    BY <2>1, <2>2, <2>3, <2>6
  <2>8. \A b \in Appender : pc'[b] \in {"append", "count_torn", "count"} => last'[b] = Len(log')
    BY <2>1, <2>2, <2>3, <2>5, <2>6
  <2>9. \A c \in Client : cursor'[c] <= Len(log') /\ 1..cursor'[c] \subseteq delivered'[c]
    BY <2>1, <2>3, <2>6
  <2>10. \A b \in Appender : pc'[b] # "idle" <=> lock' = b
    BY <2>1, <2>6
  <2> QED
    BY <2>1, <2>4, <2>5, <2>6, <2>7, <2>8, <2>9, <2>10
<1>6. ASSUME NEW a \in Actor, WriteCounter(a) PROVE Serial'
  BY <1>6 DEF WriteCounter, InOrder
<1>7. ASSUME NEW a \in Actor, ReleaseLock(a) PROVE Serial'
  <2>1. /\ pc[a] = "unlock" /\ pc' = [pc EXCEPT ![a] = "idle"] /\ lock' = Free
        /\ last' = [last EXCEPT ![a] = 0] /\ UNCHANGED log /\ UNCHANGED counter /\ UNCHANGED clients
    BY <1>7 DEF ReleaseLock
  <2>2. a \in Appender /\ lock = a /\ \A b \in Appender : b # a => pc[b] = "idle"
    BY <2>1 DEF Actor
  <2>3. counter = Len(log)
    BY <2>1, <2>2
  <2>4. \A b \in Actor : pc'[b] = "idle"
    BY <2>1, <2>2
  <2> QED
    BY <2>1, <2>3, <2>4 DEF InOrder, Actor
<1>8. ASSUME NEW c \in Client, ReadEventsPage(c) PROVE Serial'
  <2>1. PICK i \in Page(c) : cursor' = [cursor EXCEPT ![c] = NextSequence(i)]
    BY <1>8 DEF ReadEventsPage
  <2>2. Page(c) \subseteq 1..Len(log) /\ Len(log) \in Nat
    BY DEF Page, Above
  <2>3. NextSequence(i) = i
    BY <2>2 DEF NextSequence, InOrder
  <2>4. 1..i \subseteq delivered[c] \cup Page(c)
    <3> SUFFICES ASSUME NEW j \in 1..i PROVE j \in delivered[c] \cup Page(c)
      OBVIOUS
    <3>1. i \in Nat
      BY <2>1, <2>2
    <3>2. cursor[c] \in Nat /\ 1..cursor[c] \subseteq delivered[c]
      OBVIOUS
    <3> HIDE <1>0 DEF Serial, EventTypeOK
    <3>3. CASE j <= cursor[c]
      BY <3>1, <3>2, <3>3
    <3>4. CASE cursor[c] < j
      BY <3>1, <3>2, <3>4, <1>0, PageIsPrefix DEF Serial
    <3> QED
      BY <3>1, <3>2, <3>3, <3>4
  <2>5. /\ delivered' = [delivered EXCEPT ![c] = @ \cup Page(c)]
        /\ UNCHANGED log /\ UNCHANGED counter /\ UNCHANGED lock /\ UNCHANGED pc
        /\ UNCHANGED last /\ UNCHANGED history
    BY <1>8 DEF ReadEventsPage
  <2>6. EventTypeOK'
    BY <2>1, <2>2, <2>3, <2>5
  <2>7. \A d \in Client : cursor'[d] <= Len(log') /\ 1..cursor'[d] \subseteq delivered'[d]
    BY <2>1, <2>2, <2>3, <2>4, <2>5
  <2> QED
    BY <2>5, <2>6, <2>7 DEF InOrder
<1>9. CASE UNCHANGED eventVars
  BY <1>9 DEF eventVars, InOrder
<1> QED
  BY <1>1, <1>2, <1>3, <1>4, <1>5, <1>6, <1>7, <1>8, <1>9 DEF EventNext

THEOREM SerialHolds == EventSpec => []SerialInvariant
<1>1. EventInit => SerialInvariant
  BY SerialInit
<1>2. NumberingInvariant /\ NumberingInvariant' /\ SerialInvariant /\ [EventNext]_eventVars => SerialInvariant'
  BY SerialNext DEF SerialInvariant, NumberingInvariant
<1> QED
  BY <1>1, <1>2, Numbering, PTL DEF EventSpec

(* Any number of concurrent appends under the run lock number the events of *)
(* a run 1, 2, 3, ... as long as no summary is read and no crash happens.   *)
THEOREM AppendsAreConsecutive ==
  EventSpec => []SequencesAreConsecutive
<1>1. SerialInvariant => SequencesAreConsecutive
  BY DEF SerialInvariant, Serial, InOrder, SequencesAreConsecutive
<1> QED
  BY SerialHolds, <1>1, PTL

(* Under the same conditions a client that goes on where its last page      *)
(* ended is given every event, whatever the size of its pages.              *)
THEOREM PagingSkipsNothing ==
  EventSpec => []ReaderSkipsNothing
<1>1. SerialInvariant => ReaderSkipsNothing
  BY DEF SerialInvariant, Serial, InOrder, ReaderSkipsNothing, EventTypeOK
<1> QED
  BY SerialHolds, <1>1, PTL
-----------------------------------------------------------------------------
(* What a run has from the runs it follows *)

(* Who asked for a run, and where it descends from. *)
Said == [owner : Owner, network : Network \cup {Unset}, profile : BOOLEAN]
Origin == [run : Run, whole : BOOLEAN]

(* What a follow-up has from its parent, which has ended and stays as it is. *)
Follows(m, who) ==
  LET p == meta[m.parent] IN
  /\ m.parent \in 1..created /\ p.status = "ended"
  /\ m.backend = p.backend
  /\ m.network = Given(who.network, p.network)
  /\ m.requested # None => m.requested = Effective(p)
  /\ m.session # None /\ m.observed = None => m.requested = m.session

Starts(m) == m.requested = None /\ (m.observed = None => m.session = None)

(* The network of a profile start comes down to the runs that descend from  *)
(* it as long as the chain was whole when they were asked for.              *)
KeepsNetwork(m, from) ==
  /\ from.run \in 1..created
  /\ said[from.run].profile /\ from.whole => m.network = meta[from.run].network

Descends(m, who, from) ==
  /\ m \in Meta /\ who \in Said /\ from \in Origin
  /\ m.network = Unset <=> m.backend = "claude"
  /\ m.owner = who.owner
  /\ who.profile => m.profile
  /\ IF m.parent = None THEN Starts(m) ELSE Follows(m, who)
  /\ KeepsNetwork(m, from)

Within(m, n) == m.session <= n /\ m.requested <= n /\ m.observed <= n

RunIsRight(r) == Descends(meta[r], said[r], origin[r]) /\ Within(meta[r], r)

Pending(c) ==
  /\ call[c].at = "create"
  /\ Descends(call[c].meta, call[c].said, call[c].from)
  /\ Within(call[c].meta, created)
  /\ call[c].meta.observed = None /\ call[c].meta.parent # None

TreeInvariant ==
  /\ RunTreeTypeOK
  /\ said \in [1..created -> Said] /\ origin \in [1..created -> Origin]
  /\ \A r \in 1..created : RunIsRight(r)
  /\ DOMAIN call = Call
  /\ \A c \in Call : call[c].at = "idle" \/ Pending(c)
-----------------------------------------------------------------------------
(* A step makes a run, or changes one that is running, and nothing else of  *)
(* the runs there are.                                                      *)
Grows ==
  /\ created' \in Nat /\ created <= created'
  /\ \A r \in 1..created :
       /\ said'[r] = said[r] /\ origin'[r] = origin[r]
       /\ meta'[r].network = meta[r].network
       /\ meta[r].status = "ended" => meta'[r] = meta[r]

LEMMA TreeConstants ==
  /\ MaxRun \in Nat /\ None \notin Run /\ Unset \notin Network
  /\ 0..MaxRun = Run \cup {None}
BY RunTreeAssumption DEF None, Run, Unset, Network

LEMMA DescendsKept ==
  ASSUME TreeInvariant, Grows, NEW m, NEW who, NEW from, Descends(m, who, from)
  PROVE  Descends(m, who, from)'
<1>1. created \in Nat /\ m \in Meta /\ from \in Origin
  BY TreeConstants DEF TreeInvariant, RunTreeTypeOK, Descends
<1>2. ASSUME m.parent # None PROVE Follows(m, who)'
  <2>1. Follows(m, who)
    BY <1>2 DEF Descends
  <2>2. meta'[m.parent] = meta[m.parent] /\ m.parent \in 1..created'
    BY <1>1, <2>1 DEF Follows, Grows
  <2> QED
    BY <2>1, <2>2 DEF Follows
<1>3. KeepsNetwork(m, from)'
  <2>1. KeepsNetwork(m, from)
    BY DEF Descends
  <2> QED
    BY <1>1, <2>1 DEF KeepsNetwork, Grows
<1> QED
  BY <1>2, <1>3 DEF Descends, Starts
-----------------------------------------------------------------------------
LEMMA TreeInit == Init => TreeInvariant
<1> SUFFICES ASSUME Init PROVE TreeInvariant
  OBVIOUS
<1>1. created = 0 /\ 1..created = {}
  BY DEF Init
<1>2. RunTreeTypeOK
  BY <1>1, TreeConstants, RunTreeAssumption DEF Init, RunTreeTypeOK, IdleCall
<1>3. said \in [1..created -> Said] /\ origin \in [1..created -> Origin]
  BY <1>1 DEF Init
<1> QED
  BY <1>1, <1>2, <1>3 DEF Init, TreeInvariant, IdleCall

(* A run that a step leaves alone stays right. *)
LEMMA RunKept ==
  ASSUME TreeInvariant, Grows, NEW r \in 1..created, meta'[r] = meta[r]
  PROVE  RunIsRight(r)'
<1>1. PICK m, who, from : m = meta[r] /\ who = said[r] /\ from = origin[r]
  OBVIOUS
<1>2. Descends(m, who, from) /\ Within(m, r)
  BY <1>1 DEF TreeInvariant, RunIsRight
<1>3. Descends(m, who, from)'
  BY <1>2, DescendsKept
<1>4. m = meta'[r] /\ who = said'[r] /\ from = origin'[r]
  BY <1>1 DEF Grows
<1> QED
  BY <1>2, <1>3, <1>4 DEF RunIsRight, Within

LEMMA PendingKept ==
  ASSUME TreeInvariant, Grows, NEW c \in Call, Pending(c), call'[c] = call[c]
  PROVE  Pending(c)'
<1>1. PICK m, who, from : m = call[c].meta /\ who = call[c].said /\ from = call[c].from
  OBVIOUS
<1>2. Descends(m, who, from)'
  BY <1>1, DescendsKept DEF Pending
<1>3. m = call'[c].meta /\ who = call'[c].said /\ from = call'[c].from
  BY <1>1
<1>4. Within(call'[c].meta, created')
  <2>1. /\ Within(m, created) /\ created \in Nat /\ created' \in Nat /\ created <= created'
        /\ m \in Meta
    BY <1>1, TreeConstants DEF Pending, TreeInvariant, RunTreeTypeOK, Grows, Descends
  <2>2. m.session \in Nat /\ m.requested \in Nat /\ m.observed \in Nat
    BY <2>1, TreeConstants DEF Meta, Run, None
  <2> QED
    BY <1>3, <2>1, <2>2 DEF Within
<1>5. Descends(call[c].meta, call[c].said, call[c].from)'
  BY <1>2, <1>3
<1> QED
  BY <1>4, <1>5 DEF Pending

(* A new run, started or following another. *)
LEMMA CreateStep ==
  ASSUME TreeInvariant, NEW m \in Meta, NEW who \in Said, NEW from, Create(m, who, from)
  PROVE  /\ Grows
         /\ created \in Nat /\ created' = created + 1 /\ created' \in Run
         /\ \A r \in 1..created : meta'[r] = meta[r]
         /\ meta'[created'] = m /\ said'[created'] = who
         /\ origin'[created'] = IF from.run = None THEN [run |-> created', whole |-> TRUE] ELSE from
         /\ DOMAIN meta' = 1..created' /\ DOMAIN said' = 1..created' /\ DOMAIN origin' = 1..created'
<1>1. created \in Nat /\ created' = created + 1 /\ created' \in Run /\ 1..created \subseteq 1..created'
  BY TreeConstants DEF TreeInvariant, RunTreeTypeOK, Create, Run
<1>2. created' \in 1..created' /\ ~(created' <= created)
  BY <1>1
<1>3. \A r \in 1..created : r \in 1..created' /\ r <= created
  BY <1>1
<1>4. /\ DOMAIN meta' = 1..created'
      /\ meta'[created'] = m
      /\ \A r \in 1..created : meta'[r] = meta[r]
  BY <1>2, <1>3 DEF Create
<1>5. /\ DOMAIN said' = 1..created'
      /\ said'[created'] = who
      /\ \A r \in 1..created : said'[r] = said[r]
  BY <1>2, <1>3 DEF Create
<1>6. /\ DOMAIN origin' = 1..created'
      /\ origin'[created'] = IF from.run = None THEN [run |-> created', whole |-> TRUE] ELSE from
      /\ \A r \in 1..created : origin'[r] = origin[r]
  BY <1>2, <1>3 DEF Create
<1> QED
  BY <1>1, <1>4, <1>5, <1>6 DEF Grows

(* The invariant after a step that makes a run which is right. *)
LEMMA CreateNext ==
  ASSUME TreeInvariant, NEW m \in Meta, NEW who \in Said, NEW from, Create(m, who, from),
         RunIsRight(created)', pruned' = pruned,
         \A r \in 1..created' : meta'[r].parent < r,
         DOMAIN call' = Call, \A c \in Call : call'[c] = call[c] \/ call'[c] = IdleCall
  PROVE  TreeInvariant'
<1>1. /\ Grows
      /\ created \in Nat /\ created' = created + 1 /\ created' \in Run
      /\ \A r \in 1..created : meta'[r] = meta[r]
      /\ DOMAIN meta' = 1..created' /\ DOMAIN said' = 1..created' /\ DOMAIN origin' = 1..created'
  BY CreateStep
<1>2. \A r \in 1..created' : r \in 1..created \/ r = created'
  BY <1>1
<1>3. \A r \in 1..created' : RunIsRight(r)'
  <2>1. ASSUME NEW r \in 1..created PROVE RunIsRight(r)'
    BY <1>1, <2>1, RunKept
  <2>2. ASSUME NEW r, r = created' PROVE RunIsRight(r)'
    BY <2>2 DEF RunIsRight
  <2> QED
    BY <1>2, <2>1, <2>2
<1>4. \A r \in 1..created' : /\ meta'[r] \in Meta /\ said'[r] \in Said /\ origin'[r] \in Origin
                             /\ Within(meta'[r], r)
                             /\ meta'[r].network = Unset <=> meta'[r].backend = "claude"
  BY <1>3 DEF RunIsRight, Descends
<1>5. /\ meta' \in [1..created' -> Meta]
      /\ said' \in [1..created' -> Said] /\ origin' \in [1..created' -> Origin]
  <2>1. /\ meta' = [r \in 1..created' |-> meta'[r]] /\ said' = [r \in 1..created' |-> said'[r]]
        /\ origin' = [r \in 1..created' |-> origin'[r]]
    BY <1>1 DEF Create
  <2> QED
    BY <1>4, <2>1
<1>6. onDisk' \subseteq 1..created' /\ created' \in 0..MaxRun /\ pruned' \in 0..MaxPrune
  <2>1. onDisk' = onDisk \cup {created'} /\ onDisk \subseteq 1..created
    BY DEF Create, TreeInvariant, RunTreeTypeOK
  <2>2. 1..created \subseteq 1..created' /\ created' \in 1..created' /\ created' \in 0..MaxRun
    BY <1>1, TreeConstants DEF Run
  <2> QED
    BY <2>1, <2>2 DEF TreeInvariant, RunTreeTypeOK
<1>7. \A c \in Call : (call'[c].at = "idle" \/ Pending(c)') /\ call'[c].at \in {"idle", "create"}
  <2> SUFFICES ASSUME NEW c \in Call
               PROVE  (call'[c].at = "idle" \/ Pending(c)') /\ call'[c].at \in {"idle", "create"}
    OBVIOUS
  <2>1. CASE call'[c] = call[c]
    <3>1. Pending(c) => Pending(c)'
      BY <1>1, <2>1, PendingKept
    <3> QED
      BY <2>1, <3>1 DEF TreeInvariant, RunTreeTypeOK
  <2>2. CASE call'[c] = IdleCall
    BY <2>2 DEF IdleCall
  <2> QED
    BY <2>1, <2>2
<1> QED
  BY <1>3, <1>4, <1>5, <1>6, <1>7 DEF TreeInvariant, RunTreeTypeOK, Within
-----------------------------------------------------------------------------
(* start_run *)
LEMMA StartRunNext == TreeInvariant /\ StartRun => TreeInvariant'
<1> SUFFICES ASSUME TreeInvariant, StartRun PROVE TreeInvariant'
  OBVIOUS
<1>1. PICK backend \in Backend, network \in Network \cup {Unset}, byProfile \in BOOLEAN, a \in Asked :
        /\ network # Unset => backend = "codex"
        /\ Create([status |-> "running", parent |-> None, backend |-> backend,
                   network |-> FreshNetwork(backend, network), profile |-> byProfile \/ a.profile,
                   owner |-> Stamp(a.pinned, a.owner), session |-> None, requested |-> None,
                   observed |-> None],
                  [owner |-> a.pinned, network |-> Unset, profile |-> byProfile],
                  [run |-> None, whole |-> TRUE])
  BY DEF StartRun
<1>2. a \in Metadata
  BY RunTreeAssumption
<1> DEFINE net == FreshNetwork(backend, network)
           marked == byProfile \/ a.profile
           m == [status |-> "running", parent |-> None, backend |-> backend, network |-> net,
                 profile |-> marked, owner |-> a.pinned, session |-> None, requested |-> None,
                 observed |-> None]
           who == [owner |-> a.pinned, network |-> Unset, profile |-> byProfile]
           from == [run |-> None, whole |-> TRUE]
<1>3. net \in Network \cup {Unset} /\ (net = Unset <=> backend = "claude")
  BY <1>1 DEF FreshNetwork, Given, Backend, Network, Unset
<1>4. marked \in BOOLEAN /\ (byProfile => marked) /\ a.pinned \in Owner
  BY <1>2 DEF Metadata
<1> HIDE DEF net, marked
<1>5. m \in Meta /\ who \in Said
  BY <1>3, <1>4 DEF Meta, Said
<1>6. Create(m, who, from) /\ UNCHANGED <<call, pruned>>
  BY <1>1 DEF Stamp, net, marked, StartRun
<1>7. /\ created' = created + 1 /\ created' \in Run /\ created \in Nat
      /\ \A r \in 1..created : meta'[r] = meta[r]
      /\ meta'[created'] = m /\ said'[created'] = who
      /\ origin'[created'] = [run |-> created', whole |-> TRUE]
  BY <1>5, <1>6, CreateStep
<1>8. RunIsRight(created)'
  <2>1. KeepsNetwork(meta[created], origin[created])'
    BY <1>7 DEF KeepsNetwork
  <2>2. Starts(meta[created])' /\ Within(meta[created], created)'
    BY <1>7, TreeConstants DEF Starts, Within, None
  <2>3. origin'[created'] \in Origin
    BY <1>7 DEF Origin
  <2> QED
    BY <1>3, <1>4, <1>5, <1>7, <2>1, <2>2, <2>3 DEF RunIsRight, Descends
<1>9. \A r \in 1..created' : meta'[r].parent < r
  <2>1. \A r \in 1..created' : r \in 1..created \/ r = created'
    BY <1>7
  <2>2. \A r \in 1..created : meta[r].parent < r
    BY DEF TreeInvariant, RunTreeTypeOK
  <2> QED
    BY <1>7, <2>1, <2>2, TreeConstants DEF None
<1> QED
  BY <1>5, <1>6, <1>8, <1>9, CreateNext DEF TreeInvariant

(* The second step of send_followup: the run is created as it was checked.  *)
LEMMA CreateFollowupNext ==
  ASSUME TreeInvariant, NEW c \in Call, CreateFollowup(c)
  PROVE  TreeInvariant'
<1>1. PICK m, who, from : m = call[c].meta /\ who = call[c].said /\ from = call[c].from
  OBVIOUS
<1>2. /\ Descends(m, who, from) /\ Within(m, created) /\ m.observed = None /\ m.parent # None
      /\ m \in Meta /\ who \in Said /\ from \in Origin
  BY <1>1 DEF CreateFollowup, TreeInvariant, Pending, Descends
<1>3. Create(m, who, from) /\ call' = [call EXCEPT ![c] = IdleCall] /\ pruned' = pruned
  BY <1>1 DEF CreateFollowup
<1>4. from.run # None
  BY <1>2, TreeConstants DEF Origin
<1>5. /\ Grows
      /\ created' = created + 1 /\ created' \in Run /\ created \in Nat
      /\ \A r \in 1..created : meta'[r] = meta[r]
      /\ meta'[created'] = m /\ said'[created'] = who /\ origin'[created'] = from
  BY <1>2, <1>3, <1>4, CreateStep
<1>6. Descends(m, who, from)'
  BY <1>2, <1>5, DescendsKept
<1>7. RunIsRight(created)'
  <2>1. m.session \in Nat /\ m.requested \in Nat /\ m.observed \in Nat
    BY <1>2, TreeConstants DEF Meta, Run, None
  <2>2. Within(meta'[created'], created')
    BY <1>2, <1>5, <2>1 DEF Within
  <2> QED
    BY <1>5, <1>6, <2>2 DEF RunIsRight, Within
<1>8. \A r \in 1..created' : meta'[r].parent < r
  <2>1. \A r \in 1..created' : r \in 1..created \/ r = created'
    BY <1>5
  <2>2. \A r \in 1..created : meta[r].parent < r
    BY DEF TreeInvariant, RunTreeTypeOK
  <2>3. m.parent \in 1..created
    BY <1>2 DEF Descends, Follows
  <2> QED
    BY <1>5, <2>1, <2>2, <2>3
<1> QED
  BY <1>2, <1>3, <1>7, <1>8, CreateNext DEF TreeInvariant
-----------------------------------------------------------------------------
LEMMA EffectiveType ==
  ASSUME TreeInvariant, NEW p \in 1..created
  PROVE  Effective(meta[p]) \in Run \cup {None} /\ Effective(meta[p]) <= p
<1>1. meta[p] \in Meta /\ Within(meta[p], p)
  BY DEF TreeInvariant, RunIsRight, Descends
<1> QED
  BY <1>1, TreeConstants DEF Effective, Meta, Within

(* The network of a follow-up, however its settings are made. *)
LEMMA FollowupNetworkIs ==
  ASSUME TreeInvariant, NEW p \in 1..created, NEW network \in Network \cup {Unset},
         NEW rebuild \in BOOLEAN, network # Unset => meta[p].backend = "codex"
  PROVE  /\ FollowupNetwork(p, network, rebuild) = Given(network, meta[p].network)
         /\ Given(network, meta[p].network) \in Network \cup {Unset}
         /\ Given(network, meta[p].network) = Unset <=> meta[p].backend = "claude"
<1>1. /\ meta[p] \in Meta
      /\ meta[p].network = Unset <=> meta[p].backend = "claude"
  BY DEF TreeInvariant, RunIsRight, Descends
<1>2. meta[p].network \in Network \cup {Unset} /\ meta[p].backend \in {"codex", "claude"}
  BY <1>1 DEF Meta, Backend
<1> QED
  BY <1>1, <1>2, TreeConstants DEF FollowupNetwork, FreshNetwork, Given

(* The first step of send_followup: what the new run will be is right, and  *)
(* stays so until it is created, since its parent has ended.                *)
LEMMA CheckFollowupNext ==
  ASSUME TreeInvariant, NEW c \in Call, CheckFollowup(c)
  PROVE  TreeInvariant'
<1>1. PICK p \in onDisk, network \in Network \cup {Unset}, rebuild \in BOOLEAN, a \in Asked :
        /\ MayFollow(p)
        /\ network # Unset => ~ChainIsProfileMode(p) /\ meta[p].backend = "codex"
        /\ \E s \in Resumes(p) \cup Rotates(p) : LET inherited == MetadataForFollowup(p, a) IN
             call' = [call EXCEPT ![c] =
               [at |-> "create",
                meta |-> [status |-> "running", parent |-> p, backend |-> meta[p].backend,
                          network |-> FollowupNetwork(p, network, rebuild),
                          profile |-> inherited.profile,
                          owner |-> Stamp(inherited.pinned, inherited.owner),
                          session |-> s.session, requested |-> s.requested, observed |-> None],
                said |-> [owner |-> a.pinned, network |-> network, profile |-> FALSE],
                from |-> [run |-> origin[p].run,
                          whole |-> origin[p].whole /\ origin[p].run \in Ancestors(p)]]]
  BY DEF CheckFollowup
<1>2. PICK s \in Resumes(p) \cup Rotates(p) :
        call' = [call EXCEPT ![c] =
          [at |-> "create",
           meta |-> [status |-> "running", parent |-> p, backend |-> meta[p].backend,
                     network |-> FollowupNetwork(p, network, rebuild),
                     profile |-> MetadataForFollowup(p, a).profile,
                     owner |-> Stamp(MetadataForFollowup(p, a).pinned,
                                     MetadataForFollowup(p, a).owner),
                     session |-> s.session, requested |-> s.requested, observed |-> None],
           said |-> [owner |-> a.pinned, network |-> network, profile |-> FALSE],
           from |-> [run |-> origin[p].run,
                     whole |-> origin[p].whole /\ origin[p].run \in Ancestors(p)]]]
  BY <1>1
<1>3. /\ p \in 1..created /\ created \in Nat /\ p \in Run /\ p \in Nat
      /\ RunIsRight(p) /\ meta[p] \in Meta /\ origin[p] \in Origin /\ meta[p].status = "ended"
      /\ a \in Metadata /\ DOMAIN call = Call
  <2>1. onDisk \subseteq 1..created /\ created \in 0..MaxRun
    BY DEF TreeInvariant, RunTreeTypeOK
  <2> QED
    BY <1>1, <2>1, RunTreeAssumption, TreeConstants
       DEF TreeInvariant, RunIsRight, Descends, MayFollow, Run
<1>4. /\ s.session \in {None, s.requested} /\ s.requested \in {None, Effective(meta[p])}
      /\ Effective(meta[p]) \in Run \cup {None} /\ Effective(meta[p]) <= p
  BY <1>2, <1>3, EffectiveType DEF Resumes, Rotates
<1> DEFINE net == Given(network, meta[p].network)
           m == [status |-> "running", parent |-> p, backend |-> meta[p].backend,
                 network |-> net, profile |-> a.profile, owner |-> a.pinned,
                 session |-> s.session, requested |-> s.requested, observed |-> None]
           who == [owner |-> a.pinned, network |-> network, profile |-> FALSE]
           whole == origin[p].whole /\ origin[p].run \in Ancestors(p)
           from == [run |-> origin[p].run, whole |-> whole]
<1>5. /\ net = FollowupNetwork(p, network, rebuild)
      /\ net \in Network \cup {Unset} /\ (net = Unset <=> meta[p].backend = "claude")
  BY <1>1, <1>3, FollowupNetworkIs
<1>6. call' = [call EXCEPT ![c] = [at |-> "create", meta |-> m, said |-> who, from |-> from]]
  <2>1. /\ MetadataForFollowup(p, a).profile = a.profile
        /\ Stamp(MetadataForFollowup(p, a).pinned, MetadataForFollowup(p, a).owner) = a.pinned
    BY <1>3 DEF MetadataForFollowup, Stamp, Metadata
  <2> QED
    BY <1>2, <1>5, <2>1
<1>7. KeepsNetwork(m, from)
  <2>1. /\ origin[p].run \in 1..created
        /\ said[origin[p].run].profile /\ origin[p].whole
             => meta[p].network = meta[origin[p].run].network
    BY <1>3 DEF RunIsRight, Descends, KeepsNetwork
  <2>2. ASSUME said[origin[p].run].profile, whole PROVE net = meta[origin[p].run].network
    <3>1. meta[origin[p].run].profile
      BY <2>1, <2>2 DEF TreeInvariant, RunIsRight, Descends
    <3>2. ChainIsProfileMode(p)
      BY <2>2, <3>1 DEF ChainIsProfileMode
    <3>3. network = Unset
      BY <1>1, <3>2
    <3> QED
      BY <2>1, <2>2, <3>3 DEF Given
  <2> QED
    BY <2>1, <2>2 DEF KeepsNetwork
<1>8. m \in Meta /\ who \in Said /\ from \in Origin
  <2>1. /\ meta[p].backend \in Backend /\ a.profile \in BOOLEAN /\ a.pinned \in Owner
        /\ s.session \in Run \cup {None} /\ s.requested \in Run \cup {None}
    BY <1>3, <1>4 DEF Meta, Metadata
  <2>2. origin[p].run \in Run /\ whole \in BOOLEAN
    BY <1>3 DEF Origin
  <2> HIDE DEF net, whole
  <2> QED
    BY <1>3, <1>5, <2>1, <2>2 DEF Meta, Said, Origin
<1>9. Descends(m, who, from)
  <2>1. Follows(m, who)
    BY <1>3, <1>4 DEF Follows
  <2> HIDE DEF net, whole
  <2> QED
    BY <1>3, <1>5, <1>7, <1>8, <2>1, TreeConstants DEF Descends
<1>10. Within(m, created)
  BY <1>3, <1>4, TreeConstants DEF Within, None, Run
<1>11. Grows /\ UNCHANGED <<created, onDisk, meta, said, origin, pruned>>
  BY <1>3 DEF CheckFollowup, Grows
<1>12. Pending(c)'
  <2>1. PICK m1, who1, from1 : m1 = m /\ who1 = who /\ from1 = from
    OBVIOUS
  <2>2. Descends(m1, who1, from1)'
    BY <1>9, <1>11, <2>1, DescendsKept
  <2>3. /\ call'[c].at = "create" /\ call'[c].meta = m1 /\ call'[c].said = who1
        /\ call'[c].from = from1
    BY <1>3, <1>6, <2>1
  <2>4. Descends(call[c].meta, call[c].said, call[c].from)'
    BY <2>2, <2>3
  <2>5. m1.observed = None /\ m1.parent # None /\ Within(m1, created)
    BY <1>3, <1>10, <2>1, TreeConstants
  <2> HIDE DEF m, who, from
  <2> QED
    BY <1>11, <2>3, <2>4, <2>5 DEF Pending, Within
<1>13. ASSUME NEW b \in Call, b # c, Pending(b) PROVE Pending(b)'
  <2>1. call'[b] = call[b]
    BY <1>3, <1>6, <1>13
  <2> QED
    BY <1>11, <1>13, <2>1, PendingKept
<1>14. \A b \in Call : (call'[b].at = "idle" \/ Pending(b)') /\ call'[b].at \in {"idle", "create"}
  <2> HIDE DEF m, who, from
  <2> QED
    BY <1>3, <1>6, <1>12, <1>13 DEF TreeInvariant, RunTreeTypeOK, Pending
<1>15. \A r \in 1..created' : RunIsRight(r)'
  BY <1>11, RunKept
<1>16. DOMAIN call' = Call
  <2> HIDE DEF m, who, from
  <2> QED
    BY <1>3, <1>6
<1> QED
  BY <1>11, <1>14, <1>15, <1>16 DEF TreeInvariant, RunTreeTypeOK
-----------------------------------------------------------------------------
(* What a worker tells changes only its own run, which nobody follows yet.  *)
LEMMA ChangeNext ==
  ASSUME TreeInvariant, NEW r \in onDisk, meta[r].status = "running",
         NEW m \in Meta, meta' = [meta EXCEPT ![r] = m],
         UNCHANGED <<created, onDisk, call, said, origin, pruned>>,
         m.network = meta[r].network, m.backend = meta[r].backend, m.parent = meta[r].parent,
         m.owner = meta[r].owner, m.profile = meta[r].profile, m.requested = meta[r].requested,
         Within(m, r), m.observed = None => meta[r].observed = None /\ m.session = meta[r].session
  PROVE  TreeInvariant'
<1>1. r \in 1..created /\ DOMAIN meta = 1..created /\ created \in Nat
  BY TreeConstants DEF TreeInvariant, RunTreeTypeOK
<1>2. /\ meta'[r] = m /\ DOMAIN meta' = 1..created
      /\ \A q \in 1..created : q # r => meta'[q] = meta[q]
  BY <1>1
<1>3. Grows
  BY <1>1, <1>2 DEF Grows
<1>4. \A q \in 1..created : q # r => RunIsRight(q)'
  BY <1>2, <1>3, RunKept
<1>5. RunIsRight(r)'
  <2>1. PICK who, from : who = said[r] /\ from = origin[r]
    OBVIOUS
  <2>2. Descends(meta[r], who, from)
    BY <1>1, <2>1 DEF TreeInvariant, RunIsRight
  <2>3. m.parent = None => Starts(m)
    BY <2>2 DEF Descends, Starts
  <2>4. m.parent # None => Follows(m, who)
    BY <2>2 DEF Descends, Follows
  <2>5. KeepsNetwork(m, from)
    BY <2>2 DEF Descends, KeepsNetwork
  <2>6. Descends(m, who, from)
    BY <2>2, <2>3, <2>4, <2>5 DEF Descends
  <2>7. Descends(m, who, from)'
    BY <1>3, <2>6, DescendsKept
  <2>8. m = meta'[r] /\ who = said'[r] /\ from = origin'[r]
    BY <1>2, <2>1
  <2> QED
    BY <2>7, <2>8 DEF RunIsRight, Within
<1>6. \A q \in 1..created' : RunIsRight(q)'
  BY <1>4, <1>5
<1>7. \A c \in Call : Pending(c) => Pending(c)'
  BY <1>3, PendingKept
<1>8. RunTreeTypeOK'
  <2>1. meta' \in [1..created' -> Meta]
    BY <1>1 DEF TreeInvariant, RunTreeTypeOK
  <2>2. \A q \in 1..created' : /\ Within(meta'[q], q) /\ meta'[q].parent = meta[q].parent
                               /\ meta'[q].network = Unset <=> meta'[q].backend = "claude"
    BY <1>2, <1>6 DEF RunIsRight, Descends
  <2> QED
    BY <2>1, <2>2 DEF TreeInvariant, RunTreeTypeOK, Within
<1>9. \A c \in Call : call'[c].at = "idle" \/ Pending(c)'
  BY <1>7 DEF TreeInvariant
<1> QED
  BY <1>6, <1>8, <1>9 DEF TreeInvariant

LEMMA ObserveNext ==
  ASSUME TreeInvariant, NEW r \in onDisk, Observe(r)
  PROVE  TreeInvariant'
<1>1. PICK s \in {r} \cup ({meta[r].requested} \ {None}) :
        meta' = [meta EXCEPT ![r].observed = s, ![r].session = IF @ = None THEN s ELSE @]
  BY DEF Observe
<1>2. /\ r \in 1..created /\ r \in Run /\ r \in Nat /\ DOMAIN meta = 1..created
      /\ meta[r] \in Meta /\ Within(meta[r], r)
  <2>1. created \in 0..MaxRun /\ r \in 1..created /\ DOMAIN meta = 1..created
    BY DEF TreeInvariant, RunTreeTypeOK
  <2>2. meta[r] \in Meta /\ Within(meta[r], r)
    BY <2>1 DEF TreeInvariant, RunIsRight, Descends
  <2> QED
    BY <2>1, <2>2, TreeConstants DEF Run
<1>3. s \in Run /\ s <= r /\ s # None
  BY <1>2, TreeConstants DEF Meta, Within
<1> DEFINE session == IF meta[r].session = None THEN s ELSE meta[r].session
           m == [meta[r] EXCEPT !.observed = s, !.session = session]
<1>4. session \in Run \cup {None} /\ session <= r
  BY <1>2, <1>3 DEF Meta, Within
<1>5. meta' = [meta EXCEPT ![r] = m]
  BY <1>1, <1>2 DEF Meta
<1> HIDE DEF session
<1>6. /\ m \in Meta /\ m.observed = s /\ m.session = session
      /\ m.network = meta[r].network /\ m.backend = meta[r].backend /\ m.parent = meta[r].parent
      /\ m.owner = meta[r].owner /\ m.profile = meta[r].profile
      /\ m.requested = meta[r].requested
  BY <1>2, <1>3, <1>4 DEF Meta
<1>7. Within(m, r)
  BY <1>2, <1>3, <1>4, <1>6 DEF Within
<1> HIDE DEF m
<1> QED
  BY <1>3, <1>5, <1>6, <1>7, ChangeNext DEF Observe

LEMMA EndNext ==
  ASSUME TreeInvariant, NEW r \in onDisk, End(r)
  PROVE  TreeInvariant'
<1>1. r \in 1..created /\ DOMAIN meta = 1..created /\ meta[r] \in Meta /\ Within(meta[r], r)
  BY DEF TreeInvariant, RunTreeTypeOK, RunIsRight
<1> DEFINE m == [meta[r] EXCEPT !.status = "ended"]
<1>2. meta' = [meta EXCEPT ![r] = m]
  BY <1>1 DEF End
<1>3. /\ m \in Meta /\ m.observed = meta[r].observed /\ m.session = meta[r].session
      /\ m.network = meta[r].network /\ m.backend = meta[r].backend /\ m.parent = meta[r].parent
      /\ m.owner = meta[r].owner /\ m.profile = meta[r].profile
      /\ m.requested = meta[r].requested
  BY <1>1 DEF Meta
<1>4. Within(m, r)
  BY <1>1, <1>3 DEF Within
<1> HIDE DEF m
<1> QED
  BY <1>2, <1>3, <1>4, ChangeNext DEF End

(* prune_runs takes a directory away; what the runs were stays true.        *)
LEMMA PruneNext ==
  ASSUME TreeInvariant, NEW r \in onDisk, Prune(r)
  PROVE  TreeInvariant'
<1>1. /\ onDisk' \subseteq 1..created /\ pruned' \in 0..MaxPrune
      /\ UNCHANGED <<created, meta, call, said, origin>>
  <2>1. onDisk \subseteq 1..created /\ pruned \in 0..MaxPrune
    BY DEF TreeInvariant, RunTreeTypeOK
  <2>2. onDisk' = onDisk \ {r} /\ pruned < MaxPrune /\ pruned' = pruned + 1
    BY DEF Prune
  <2>3. pruned' \in 0..MaxPrune
    BY <2>1, <2>2, RunTreeAssumption
  <2> QED
    BY <2>1, <2>2, <2>3 DEF Prune
<1>2. Grows
  BY <1>1, TreeConstants DEF Grows, TreeInvariant, RunTreeTypeOK
<1>3. \A q \in 1..created' : RunIsRight(q)'
  BY <1>1, <1>2, RunKept
<1>4. \A c \in Call : call'[c].at = "idle" \/ Pending(c)'
  BY <1>1, <1>2, PendingKept DEF TreeInvariant
<1> QED
  BY <1>1, <1>3, <1>4 DEF TreeInvariant, RunTreeTypeOK

LEMMA TreeStutters ==
  ASSUME TreeInvariant, UNCHANGED runTreeVars
  PROVE  TreeInvariant'
<1>1. UNCHANGED <<created, onDisk, meta, call, said, origin, pruned>>
  BY DEF runTreeVars
<1>2. Grows
  BY <1>1, TreeConstants DEF Grows, TreeInvariant, RunTreeTypeOK
<1>3. \A q \in 1..created' : RunIsRight(q)'
  BY <1>1, <1>2, RunKept
<1>4. \A c \in Call : call'[c].at = "idle" \/ Pending(c)'
  BY <1>1, <1>2, PendingKept DEF TreeInvariant
<1> QED
  BY <1>1, <1>3, <1>4 DEF TreeInvariant, RunTreeTypeOK

LEMMA TreeNext == TreeInvariant /\ [Next]_runTreeVars => TreeInvariant'
<1> SUFFICES ASSUME TreeInvariant, [Next]_runTreeVars PROVE TreeInvariant'
  OBVIOUS
<1>1. CASE StartRun
  BY <1>1, StartRunNext
<1>2. ASSUME NEW c \in Call, CheckFollowup(c) PROVE TreeInvariant'
  BY <1>2, CheckFollowupNext
<1>3. ASSUME NEW c \in Call, CreateFollowup(c) PROVE TreeInvariant'
  BY <1>3, CreateFollowupNext
<1>4. ASSUME NEW r \in onDisk, Observe(r) PROVE TreeInvariant'
  BY <1>4, ObserveNext
<1>5. ASSUME NEW r \in onDisk, End(r) PROVE TreeInvariant'
  BY <1>5, EndNext
<1>6. ASSUME NEW r \in onDisk, Prune(r) PROVE TreeInvariant'
  BY <1>6, PruneNext
<1>7. CASE UNCHANGED runTreeVars
  BY <1>7, TreeStutters
<1> QED
  BY <1>1, <1>2, <1>3, <1>4, <1>5, <1>6, <1>7 DEF Next
-----------------------------------------------------------------------------
(* For any number of runs, follow-ups in progress and prunes: what a run    *)
(* was created with is what its caller and the runs it follows make it,     *)
(* also when its parent was checked long before it was created              *)
(* (startRun and sendFollowup, orchestratorService.ts).                     *)
THEOREM TreeInvariance == RunTreeSpec => []TreeInvariant
<1> QED
  BY TreeInit, TreeNext, PTL DEF RunTreeSpec
-----------------------------------------------------------------------------
(* The chain of a run's ancestors, followed n times up. *)
IsChain(up, r, n) ==
  up = [k \in 0..n |-> IF k = 0 THEN r ELSE IF up[k - 1] = None THEN None ELSE Parent(up[k - 1])]

(* Every chain is there: a shortest one that is not would have one step     *)
(* more than a chain that is.                                               *)
LEMMA ChainsExist ==
  ASSUME NEW r, NEW n \in Nat
  PROVE  \E up : IsChain(up, r, n)
<1> DEFINE T == {m \in Nat : ~\E up : IsChain(up, r, m)}
<1>1. SUFFICES T = {}
  OBVIOUS
<1>2. SUFFICES ASSUME T # {} PROVE FALSE
  OBVIOUS
<1>3. PICK m \in T : \A i \in T : ~(i < m)
  <2>1. IsWellFoundedOn(OpToRel(<, Nat), Nat)
    BY NatLessThanWellFounded
  <2>2. PICK m \in T : \A i \in T : ~(<<i, m>> \in OpToRel(<, Nat))
    BY <1>2, <2>1, WFMin
  <2> QED
    BY <2>2 DEF OpToRel
<1>4. CASE m = 0
  <2>1. IsChain([k \in 0..0 |-> r], r, 0)
    BY DEF IsChain
  <2> QED
    BY <1>4, <2>1
<1>5. CASE m # 0
  <2>1. m - 1 \in Nat /\ m - 1 \notin T
    BY <1>3, <1>5
  <2>2. PICK up : IsChain(up, r, m - 1)
    BY <2>1
  <2> DEFINE next == [k \in 0..m |-> IF k < m THEN up[k]
                                     ELSE IF up[m - 1] = None THEN None ELSE Parent(up[m - 1])]
  <2>3. IsChain(next, r, m)
    BY <1>5, <2>1, <2>2 DEF IsChain
  <2> QED
    BY <2>3
<1> QED
  BY <1>3, <1>4, <1>5

(* An ancestor is the parent of a run whose directory is there too.         *)
LEMMA AncestorsAreParents ==
  ASSUME NEW r \in onDisk, NEW a \in Ancestors(r), a # r
  PROVE  \E q \in onDisk : a = meta[q].parent /\ a # None
<1> DEFINE Up == CHOOSE up : IsChain(up, r, MaxRun)
<1>1. IsChain(Up, r, MaxRun)
  BY ChainsExist, TreeConstants
<1>2. Ancestors(r) = {Up[k] : k \in 0..MaxRun} \ {None}
  BY DEF Ancestors, IsChain
<1> HIDE DEF Up
<1>3. PICK k \in 0..MaxRun : a = Up[k] /\ a # None
  BY <1>2
<1>4. k \in Nat \ {0} /\ k - 1 \in 0..MaxRun
  BY <1>1, <1>3, TreeConstants DEF IsChain
<1>5. Up[k] = IF Up[k - 1] = None THEN None ELSE Parent(Up[k - 1])
  BY <1>1, <1>4 DEF IsChain
<1>6. Up[k - 1] # None /\ a = Parent(Up[k - 1]) /\ a = meta[Up[k - 1]].parent
  BY <1>3, <1>5 DEF Parent
<1>7. CASE k - 1 = 0
  BY <1>1, <1>3, <1>4, <1>6, <1>7 DEF IsChain
<1>8. CASE k - 1 # 0
  <2>1. k - 2 \in 0..MaxRun
    BY <1>4, <1>8, TreeConstants
  <2>2. Up[k - 1] = IF Up[k - 2] = None THEN None ELSE Parent(Up[k - 2])
    BY <1>1, <1>4, <1>8, <2>1 DEF IsChain
  <2>3. Up[k - 1] \in onDisk
    BY <1>6, <2>2 DEF Parent
  <2> QED
    BY <1>3, <1>6, <2>3
<1> QED
  BY <1>7, <1>8

LEMMA InheritanceFollows == TreeInvariant => InheritanceHolds
<1> SUFFICES ASSUME TreeInvariant PROVE InheritanceHolds
  OBVIOUS
<1>1. RunTreeTypeOK /\ onDisk \subseteq 1..created /\ None \notin 1..created
  BY DEF TreeInvariant, RunTreeTypeOK, None
<1>2. \A r \in 1..created : /\ meta[r].parent # None => Follows(meta[r], said[r])
                            /\ KeepsNetwork(meta[r], origin[r])
                            /\ meta[r].owner = said[r].owner
  BY DEF TreeInvariant, RunIsRight, Descends
<1>3. NetworkIsInherited
  BY <1>2 DEF NetworkIsInherited, Follows
<1>4. ProfileNetworkIsKept
  BY <1>2 DEF ProfileNetworkIsKept, KeepsNetwork
<1>5. OwnersAreNotForged
  BY <1>2 DEF OwnersAreNotForged
<1>6. ASSUME NEW r \in onDisk, NEW a \in Ancestors(r) \ {r} PROVE meta[a].status = "ended"
  <2>1. PICK q \in onDisk : a = meta[q].parent /\ a # None
    BY <1>6, AncestorsAreParents
  <2> QED
    BY <1>1, <1>2, <2>1 DEF Follows
<1>7. NoRunOverlapsItsAncestors
  BY <1>6 DEF NoRunOverlapsItsAncestors
<1> QED
  BY <1>1, <1>3, <1>4, <1>5, <1>7 DEF InheritanceHolds

(* A follow-up has the network its call, or else its parent, or else the    *)
(* profile its line began with, gave it, belongs to the orchestrator pinned *)
(* to the call, and never works beside a run it follows (sendFollowup,      *)
(* orchestratorService.ts 720-821).                                         *)
THEOREM InheritanceIsKept == RunTreeSpec => []InheritanceHolds
<1> QED
  BY TreeInvariance, InheritanceFollows, PTL

LEMMA SessionsFollow == TreeInvariant => SessionsAreShownApart
<1> SUFFICES ASSUME TreeInvariant PROVE SessionsAreShownApart
  OBVIOUS
<1>1. /\ onDisk \subseteq 1..created /\ None \notin 1..created
      /\ \A r \in 1..created : RunIsRight(r)
  BY DEF TreeInvariant, RunTreeTypeOK, None
<1>2. ASSUME NEW r \in Listed, Parent(r) # None,
             Audit(meta[r]) = "resumed" \/ (meta[r].session # None /\ Audit(meta[r]) = "pending")
      PROVE  SessionKey(r) = SessionKey(Parent(r))
  <2> DEFINE m == meta[r]  p == meta[r].parent
  <2>1. r \in 1..created /\ p = Parent(r) /\ p # None
    BY <1>1, <1>2 DEF Listed, Parent
  <2>2. Follows(m, said[r])
    BY <1>1, <2>1 DEF RunIsRight, Descends
  <2>3. m.requested # None /\ Effective(m) = m.requested
    BY <1>2, <2>2 DEF Audit, Effective, Follows
  <2>4. Effective(m) = Effective(meta[p]) /\ m.backend = meta[p].backend
    BY <2>2, <2>3 DEF Follows
  <2> QED
    BY <2>1, <2>3, <2>4 DEF SessionKey
<1>3. FollowupsJoinTheirSession
  BY <1>2 DEF FollowupsJoinTheirSession
<1>4. ASSUME NEW q, NEW r, SessionKey(q) = SessionKey(r),
             meta[q].observed # None, meta[r].observed # None
      PROVE  meta[q].observed = meta[r].observed
  BY <1>4 DEF SessionKey, Effective
<1>5. SessionsDoNotMix
  BY <1>4 DEF SessionsDoNotMix, Sessions, Session
<1> QED
  BY <1>3, <1>5 DEF SessionsAreShownApart

(* The dashboard shows a follow-up in the session it resumes and never runs *)
(* of different backend sessions as one, whichever runs are pruned or not   *)
(* listed (sessionKey, observability.ts 325-329).                           *)
THEOREM SessionsStayApart == RunTreeSpec => []SessionsAreShownApart
<1> QED
  BY TreeInvariance, SessionsFollow, PTL
=============================================================================
