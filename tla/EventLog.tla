------------------------------ MODULE EventLog ------------------------------
(***************************************************************************)
(* The events of one run: events.jsonl, to which numbered lines are        *)
(* appended under the run lock, and .events.seq, a counter that caches the *)
(* number of the last line.  Readers of the run's summary repair a counter *)
(* that lags behind the log, and do so without the lock; clients page      *)
(* through the log with the number of the last event they were given.      *)
(*                                                                         *)
(* Simplifications: an event is its number; a line is appended whole or    *)
(* not at all; breaking a stale lock is one step.  writeFile truncates the *)
(* counter before it writes it, so a reader may find it Torn.              *)
(***************************************************************************)
EXTENDS Naturals, Sequences, FiniteSets

CONSTANTS
  Appender,     \* calls of appendEvent and markTerminal
  Summarizer,   \* calls of readEventSummary
  Client,       \* clients that page through the events
  Limit,        \* events in a page
  Free, Stale, Torn,
  MaxEvent,     \* bound: length of the log
  MaxCrash      \* bound: how often the daemon is killed

ASSUME EventLogAssumption ==
  /\ Appender \cap Summarizer = {}
  /\ Free # Stale /\ {Free, Stale} \cap Appender = {}
  /\ Torn \notin Nat
  /\ Limit \in Nat \ {0} /\ MaxEvent \in Nat /\ MaxCrash \in Nat

VARIABLES
  log,        \* the numbers in events.jsonl
  counter,    \* the number in .events.seq
  lock,       \* owner of the run lock
  pc,         \* next file operation of each call
  last,       \* the last number as the call read it
  cursor,     \* the number up to which each client has read
  delivered,  \* history: the lines each client was given
  summarized, \* history: the calls that have read a summary
  crashes

eventVars == <<log, counter, lock, pc, last, cursor, delivered, summarized, crashes>>

Actor == Appender \cup Summarizer
EventStep == {"idle", "read", "read_log", "compare", "repair_torn", "repair",
              "append", "count_torn", "count", "unlock"}

EventTypeOK ==
  /\ log \in Seq(Nat)
  /\ counter \in Nat \cup {Torn}
  /\ lock \in Appender \cup {Free, Stale}
  /\ pc \in [Actor -> EventStep]
  /\ last \in [Actor -> Nat]
  /\ cursor \in [Client -> Nat]
  /\ delivered \in [Client -> SUBSET Nat]
  /\ summarized \in SUBSET Summarizer
  /\ crashes \in Nat

(* createRun writes an empty log and the counter 0. *)
EventInit ==
  /\ log = <<>>
  /\ counter = 0
  /\ lock = Free
  /\ pc = [a \in Actor |-> "idle"]
  /\ last = [a \in Actor |-> 0]
  /\ cursor = [c \in Client |-> 0]
  /\ delivered = [c \in Client |-> {}]
  /\ summarized = {}
  /\ crashes = 0

Move(a, from, to) == pc[a] = from /\ pc' = [pc EXCEPT ![a] = to]
Remember(a, n) == last' = [last EXCEPT ![a] = n]
clients == <<cursor, delivered>>
history == <<summarized, crashes>>

LogSequence == IF log = <<>> THEN 0 ELSE log[Len(log)]
-----------------------------------------------------------------------------
LockIgnored == lock # Stale
LockFree == lock = Free

AcquireLock(a) ==
  /\ a \in Appender
  /\ Len(log) < MaxEvent
  /\ LockFree
  /\ lock' = a
  /\ Move(a, "idle", "read")
  /\ UNCHANGED <<log, counter, last, clients, history>>

BreakStaleLock(a) ==
  /\ a \in Appender /\ pc[a] = "idle"
  /\ lock = Stale
  /\ lock' = Free
  /\ UNCHANGED <<log, counter, pc, last, clients, history>>

ReadEventSummary(a) ==
  /\ a \in Summarizer
  /\ Move(a, "idle", "read")
  /\ summarized' = summarized \cup {a}
  /\ UNCHANGED <<log, counter, lock, last, clients, crashes>>

(* getLastSequence: the counter is believed; a summary compares it with the *)
(* log; a counter that is no number is replaced from the log.               *)
CounterIsNumber == counter # Torn

ReadCounter(a) ==
  /\ \/ /\ CounterIsNumber
        /\ Move(a, "read", IF a \in Appender THEN "append" ELSE "compare")
        /\ Remember(a, counter)
     \/ /\ ~CounterIsNumber
        /\ Move(a, "read", "read_log") /\ UNCHANGED last
  /\ UNCHANGED <<log, counter, lock, clients, history>>

ReadLog(a) ==
  /\ Move(a, "read_log", "repair_torn")
  /\ Remember(a, LogSequence)
  /\ UNCHANGED <<log, counter, lock, clients, history>>

CompareLog(a) ==
  /\ \/ /\ LogSequence > last[a]
        /\ Move(a, "compare", "repair_torn") /\ Remember(a, LogSequence)
     \/ /\ LogSequence <= last[a]
        /\ Move(a, "compare", "idle") /\ Remember(a, 0)
  /\ UNCHANGED <<log, counter, lock, clients, history>>

TruncateCounter(a) ==
  /\ Move(a, "repair_torn", "repair") \/ Move(a, "count_torn", "count")
  /\ counter' = Torn
  /\ UNCHANGED <<log, lock, last, clients, history>>

RepairedCountNext(a) == last[a] + 1
RepairedCount(a) == last[a]

RepairCounter(a) ==
  /\ counter' = RepairedCount(a)
  /\ \/ a \in Appender /\ Move(a, "repair", "append") /\ UNCHANGED last
     \/ a \in Summarizer /\ Move(a, "repair", "idle") /\ Remember(a, 0)
  /\ UNCHANGED <<log, lock, clients, history>>

NextNumber(a) == last[a] + 1

AppendEvent(a) ==
  /\ Move(a, "append", "count_torn")
  /\ log' = Append(log, NextNumber(a))
  /\ Remember(a, NextNumber(a))
  /\ UNCHANGED <<counter, lock, clients, history>>

WriteCounter(a) ==
  /\ Move(a, "count", "unlock")
  /\ counter' = last[a]
  /\ UNCHANGED <<log, lock, last, clients, history>>

ReleaseLock(a) ==
  /\ Move(a, "unlock", "idle")
  /\ lock' = Free
  /\ Remember(a, 0)
  /\ UNCHANGED <<log, counter, clients, history>>
-----------------------------------------------------------------------------
(* readEventsPage: the first lines whose number is above the client's; the  *)
(* last of them is next_sequence, where the client goes on.                 *)
Above(c) == {i \in 1..Len(log) : log[i] > cursor[c]}
Page(c) == {i \in Above(c) : Cardinality({j \in Above(c) : j <= i}) <= Limit}

NextSequenceOfLog(i) == LogSequence
NextSequence(i) == log[i]

ReadEventsPage(c) ==
  /\ \E i \in Page(c) :
       /\ \A j \in Page(c) : j <= i
       /\ cursor' = [cursor EXCEPT ![c] = NextSequence(i)]
  /\ delivered' = [delivered EXCEPT ![c] = @ \cup Page(c)]
  /\ UNCHANGED <<log, counter, lock, pc, last, history>>

(* The daemon is killed; its lock file and a torn counter stay. *)
CrashDaemon ==
  /\ crashes < MaxCrash
  /\ crashes' = crashes + 1
  /\ lock' = IF lock = Free THEN Free ELSE Stale
  /\ pc' = [a \in Actor |-> "idle"]
  /\ last' = [a \in Actor |-> 0]
  /\ UNCHANGED <<log, counter, clients, summarized>>

EventNext ==
  \/ \E a \in Actor :
       \/ AcquireLock(a) \/ BreakStaleLock(a) \/ ReadEventSummary(a)
       \/ ReadCounter(a) \/ ReadLog(a) \/ CompareLog(a)
       \/ TruncateCounter(a) \/ RepairCounter(a)
       \/ AppendEvent(a) \/ WriteCounter(a) \/ ReleaseLock(a)
  \/ \E c \in Client : ReadEventsPage(c)
  \/ CrashDaemon

EventSpec == EventInit /\ [][EventNext]_eventVars
-----------------------------------------------------------------------------
(* As long as no kill and no reader of a summary interferes.               *)
Undisturbed == crashes = 0 /\ summarized = {}

(* Concurrent appends get consecutive numbers: no collision and no gap.     *)
SequencesAreConsecutive == Undisturbed => \A i \in 1..Len(log) : log[i] = i

(* A client that pages on with next_sequence has been given every event up  *)
(* to its cursor: it misses none, however its reads overlap the appends.    *)
ReaderSkipsNothing ==
  Undisturbed =>
    \A c \in Client : \A i \in 1..Len(log) : log[i] <= cursor[c] => i \in delivered[c]

(* Numbers may be used again after a crash, but never jump ahead: an event's *)
(* predecessor is in the log before it, whoever wrote the counter last.     *)
NumbersNeverJump ==
  \A i \in 1..Len(log) : log[i] = 1 \/ \E j \in 1..(i - 1) : log[j] + 1 = log[i]

(* The counter never runs ahead of the log, also between the writes of an   *)
(* append and after a crash: no number is lost.                             *)
CounterNeverAhead ==
  counter \in {0, Torn} \/ \E i \in 1..Len(log) : log[i] = counter
=============================================================================
