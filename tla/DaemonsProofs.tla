---------------------------- MODULE DaemonsProofs ----------------------------
(***************************************************************************)
(* Theorems about Daemons and Notify, the daemon as its clients meet it.   *)
(*                                                                         *)
(* For any number of daemons and clients and any number of kills and       *)
(* signals: while no two daemons come or go at once, the one that serves   *)
(* holds the pid file, the socket and the runs.                            *)
(*                                                                         *)
(* For any number of runs, monitors and ticks of the poller, pages of any  *)
(* length and any kills: the notifications of the runs reach those who     *)
(* wait for them truly and once.                                           *)
(***************************************************************************)
EXTENDS Daemons, Notify, FiniteSetTheorems, WellFoundedInduction, TLAPS

\* A daemon beside one that is up has not got past the pid file.
Aside == {"none", "dead", "killed", "open", "read_pid"} \cup Exiting
Owning == {"clean_socket", "initialize", "listen"} \cup Serving

OneAtATime == \A d, e \in Daemon : d # e => ~(ComingOrGoing(d) /\ ComingOrGoing(e))

OwnersHoldThePidFile ==
  \A d \in Daemon :
    /\ daemon[d] \in Owning => pidFile = [by |-> d, written |-> TRUE]
    /\ daemon[d] = "write_pid" => pidFile = [by |-> d, written |-> FALSE]

OthersStandAside ==
  \A d, e \in Daemon : daemon[d] = "up" /\ e # d => daemon[e] \in Aside

ServingHoldsTheSocket ==
  ~refused => \A d \in Daemon : daemon[d] \in Serving =>
    /\ socket = d
    /\ \A e \in Daemon \ {d} : daemon[e] \notin Exiting

RunsAreTakenOver ==
  \A d, e \in Daemon :
    /\ daemon[d] = "listen" => run[e] # "running"
    /\ daemon[d] = "up" /\ e # d => run[e] # "running"

Orderly ==
  /\ OneAtATime
  /\ OwnersHoldThePidFile
  /\ OthersStandAside
  /\ ServingHoldsTheSocket
  /\ RunsAreTakenOver

DaemonsInvariant == DaemonsTypeOK /\ (overlap \/ Orderly)

USE DaemonsAssumption DEF Idle, Goal, Booting, Serving, Exiting
-----------------------------------------------------------------------------
(* Types *)

LEMMA PidFiles ==
  ASSUME NEW d \in Daemon
  PROVE  /\ [by |-> d, written |-> FALSE] \in [by : Daemon, written : BOOLEAN]
         /\ [by |-> d, written |-> TRUE] \in [by : Daemon, written : BOOLEAN]
BY Zenon

LEMMA TypesInitially == DaemonsInit => DaemonsTypeOK
<1> SUFFICES ASSUME DaemonsInit PROVE DaemonsTypeOK
  OBVIOUS
<1> USE DEF DaemonsInit
<1>1. daemon \in [Daemon -> {"none", "dead", "killed"} \cup Booting \cup Serving \cup Exiting]
  OBVIOUS
<1>2. version \in [Daemon -> {VersionOf[c] : c \in Client} \cup {NoFile}]
  OBVIOUS
<1>3. run \in [Daemon -> {"none", "running", "ended", "orphaned"}]
  OBVIOUS
<1>4. client \in [Client -> [at : {"ping", "request", "shutdown", "await_stop", "poll"},
                             for : Goal] \cup {Idle}]
  OBVIOUS
<1>5. overlap \in BOOLEAN /\ refused \in BOOLEAN
  OBVIOUS
<1> QED
  BY <1>1, <1>2, <1>3, <1>4, <1>5 DEF DaemonsTypeOK

LEMMA TypesOfDaemonStep ==
  ASSUME NEW d \in Daemon, DaemonsTypeOK, DaemonStep(d), OverlapNoted
  PROVE  DaemonsTypeOK'
<1> USE DEF DaemonsTypeOK, DaemonStep, OverlapNoted, Goes, files, clients
<1>1. CASE OpenPidFile(d)
  BY <1>1, PidFiles DEF OpenPidFile
<1>2. CASE ReadPidFile(d)
  BY <1>2 DEF ReadPidFile
<1>3. CASE UnlinkPidFile(d)
  BY <1>3 DEF UnlinkPidFile
<1>4. CASE ReopenPidFile(d)
  BY <1>4, PidFiles DEF ReopenPidFile
<1>5. CASE WritePid(d)
  BY <1>5 DEF WritePid
<1>6. CASE CleanSocket(d)
  BY <1>6 DEF CleanSocket, SocketRemoved
<1>7. CASE InitializeService(d)
  BY <1>7 DEF InitializeService, Orphaned
<1>8. CASE Listen(d)
  BY <1>8 DEF Listen
<1>9. CASE EndRun(d)
  BY <1>9 DEF EndRun
<1>10. CASE FinishShutdown(d)
  BY <1>10 DEF FinishShutdown
<1>11. CASE ScheduledExit(d)
  BY <1>11 DEF ScheduledExit
<1>12. CASE ExitPidFile(d)
  BY <1>12 DEF ExitPidFile
<1>13. CASE ExitSocket(d)
  BY <1>13 DEF ExitSocket
<1> QED
  BY <1>1, <1>2, <1>3, <1>4, <1>5, <1>6, <1>7, <1>8, <1>9, <1>10, <1>11, <1>12, <1>13

LEMMA TypesOfTrouble ==
  ASSUME NEW d \in Daemon, DaemonsTypeOK, Kill(d) \/ Signal(d), OverlapNoted
  PROVE  DaemonsTypeOK'
BY DEF DaemonsTypeOK, OverlapNoted, Kill, Signal, Terminate, Goes, files, clients, Trouble

LEMMA TypesOfClientStep ==
  ASSUME NEW c \in Client, DaemonsTypeOK, ClientStep(c), OverlapNoted
  PROVE  DaemonsTypeOK'
<1> USE DEF DaemonsTypeOK, OverlapNoted, files, bounds, At, Moves, Done
<1>1. ASSUME NEW goal \in Goal, Ask(c, goal) PROVE DaemonsTypeOK'
  BY <1>1 DEF Ask
<1>2. CASE PingAnswered(c)
  BY <1>2 DEF PingAnswered
<1>3. CASE PingFailed(c)
  <2> USE <1>3 DEF PingFailed, Trouble
  <2>1. CASE Restarts(c)
    BY <2>1 DEF StartsAgain
  <2>2. CASE ~Restarts(c)
    <3>1. PICK d \in Daemon : daemon' = [daemon EXCEPT ![d] = "open"]
                            /\ version' = [version EXCEPT ![d] = VersionOf[c]]
      BY <2>2 DEF Spawn
    <3>2. client[c] # Idle /\ client' = [client EXCEPT ![c].at = "poll"]
      BY <2>2 DEF Spawn
    <3> QED
      BY <3>1, <3>2
  <2> QED
    BY <2>1, <2>2
<1>4. CASE Call(c)
  BY <1>4 DEF Call
<1>5. CASE Shutdown(c)
  BY <1>5 DEF Shutdown
<1>6. CASE WaitedForStop(c)
  BY <1>6 DEF WaitedForStop, StartsAgain
<1>7. CASE GiveUp(c)
  BY <1>7 DEF GiveUp
<1> QED
  BY <1>1, <1>2, <1>3, <1>4, <1>5, <1>6, <1>7 DEF ClientStep
-----------------------------------------------------------------------------
(* Order: what a step leaves when no two daemons come or go at once *)

LEMMA OneAtATimeNoted ==
  ASSUME DaemonsTypeOK, OverlapNoted, ~overlap'
  PROVE  ~overlap /\ OneAtATime'
BY DEF OverlapNoted, OneAtATime, DaemonsTypeOK

\* A daemon that is coming or going, or is past the pid file, has no other past it.
LEMMA ComerIsAlone ==
  ASSUME Orderly, NEW d \in Daemon, NEW e \in Daemon \ {d},
         ComingOrGoing(d), daemon[d] \notin Aside
  PROVE  daemon[e] \notin Owning \cup Exiting \cup {"write_pid"}
BY DEF Orderly, OneAtATime, OthersStandAside, ComingOrGoing, Aside, Owning

\* The file of a daemon that owns one is its own and in force.
LEMMA OwnedFile ==
  ASSUME DaemonsTypeOK, OwnersHoldThePidFile, NEW d \in Daemon
  PROVE  /\ daemon[d] \in Owning => pidFile # NoFile /\ pidFile.by = d /\ pidFile.written = TRUE
         /\ daemon[d] = "write_pid" => pidFile # NoFile /\ pidFile.by = d /\ pidFile.written = FALSE
<1>1. CASE daemon[d] \in Owning
  <2>1. pidFile = [by |-> d, written |-> TRUE]
    BY <1>1 DEF OwnersHoldThePidFile
  <2>2. daemon[d] # "write_pid"
    BY <1>1 DEF Owning
  <2>3. pidFile # NoFile
    BY <2>1, PidFiles
  <2> QED
    BY <1>1, <2>1, <2>2, <2>3
<1>2. CASE daemon[d] = "write_pid"
  <2>1. pidFile = [by |-> d, written |-> FALSE]
    BY <1>2 DEF OwnersHoldThePidFile
  <2>2. daemon[d] \notin Owning
    BY <1>2 DEF Owning
  <2>3. pidFile # NoFile
    BY <2>1, PidFiles
  <2> QED
    BY <1>2, <2>1, <2>2, <2>3
<1> QED
  BY <1>1, <1>2

LEMMA OrderOfDaemonStep ==
  ASSUME NEW d \in Daemon, DaemonsTypeOK, Orderly, DaemonStep(d), OneAtATime'
  PROVE  Orderly'
<1> USE DEF Orderly, DaemonsTypeOK, Goes, files, clients, Aside, Owning, ComingOrGoing,
            OneAtATime, OwnersHoldThePidFile, OthersStandAside, ServingHoldsTheSocket, RunsAreTakenOver
<1>1. CASE OpenPidFile(d)
  <2>1. CASE pidFile = NoFile
    <3>1. \A e \in Daemon : daemon[e] \notin Owning /\ daemon[e] # "write_pid"
      BY <2>1, OwnedFile
    <3>2. pidFile' = [by |-> d, written |-> FALSE] /\ daemon' = [daemon EXCEPT ![d] = "write_pid"]
      BY <1>1, <2>1 DEF OpenPidFile
    <3> QED
      BY <1>1, <3>1, <3>2 DEF OpenPidFile
  <2>2. CASE pidFile # NoFile
    BY <1>1, <2>2 DEF OpenPidFile
  <2> QED
    BY <2>1, <2>2
<1>2. CASE ReadPidFile(d)
  <2>1. CASE LivePidFile
    BY <1>2, <2>1 DEF ReadPidFile
  <2>2. CASE ~LivePidFile
    <3>1. \A e \in Daemon : daemon[e] # "up"
      BY <2>2, OwnedFile DEF LivePidFile, Alive
    <3> QED
      BY <1>2, <2>2, <3>1 DEF ReadPidFile
  <2> QED
    BY <2>1, <2>2
<1>3. CASE UnlinkPidFile(d)
  BY <1>3 DEF UnlinkPidFile
<1>4. CASE ReopenPidFile(d)
  BY <1>4, PidFiles DEF ReopenPidFile
<1>5. CASE WritePid(d)
  <2>1. pidFile = [by |-> d, written |-> FALSE]
    BY <1>5 DEF WritePid
  <2>2. pidFile' = [by |-> d, written |-> TRUE]
    BY <1>5, <2>1, PidFiles DEF WritePid
  <2>3. \A e \in Daemon \ {d} : daemon[e] \notin Owning \cup Exiting \cup {"write_pid"}
    BY <1>5, ComerIsAlone DEF WritePid
  <2>4. daemon' = [daemon EXCEPT ![d] = "clean_socket"] /\ daemon[d] = "write_pid"
    BY <1>5 DEF WritePid
  <2>5. OwnersHoldThePidFile'
    BY <2>2, <2>3, <2>4
  <2>6. (OthersStandAside /\ ServingHoldsTheSocket /\ RunsAreTakenOver)'
    BY <1>5, <2>3, <2>4 DEF WritePid
  <2> QED
    BY <2>5, <2>6
<1>6. CASE CleanSocket(d)
  BY <1>6 DEF CleanSocket, SocketRemoved
<1>7. CASE InitializeService(d)
  BY <1>7 DEF InitializeService, Orphaned
<1>8. CASE Listen(d)
  BY <1>8 DEF Listen
<1>9. CASE EndRun(d)
  BY <1>9 DEF EndRun
<1>10. CASE FinishShutdown(d)
  BY <1>10 DEF FinishShutdown
<1>11. CASE ScheduledExit(d)
  BY <1>11 DEF ScheduledExit
<1>12. CASE ExitPidFile(d)
  <2>1. \A e \in Daemon : e # d /\ daemon[e] \in Owning \cup {"write_pid"} => ~OwnPidFile(d)
    BY OwnedFile DEF OwnPidFile
  <2>2. \A e \in Daemon : e # d /\ daemon[e] \in Owning \cup {"write_pid"} => pidFile' = pidFile
    BY <1>12, <2>1 DEF ExitPidFile
  <2>3. daemon' = [daemon EXCEPT ![d] = "exit_socket"] /\ daemon[d] = "exit_pid"
    BY <1>12 DEF ExitPidFile
  <2>4. OwnersHoldThePidFile'
    BY <2>2, <2>3
  <2>5. (OthersStandAside /\ ServingHoldsTheSocket /\ RunsAreTakenOver)'
    BY <1>12, <2>3 DEF ExitPidFile
  <2> QED
    BY <2>4, <2>5
<1>13. CASE ExitSocket(d)
  BY <1>13 DEF ExitSocket
<1> QED
  BY <1>1, <1>2, <1>3, <1>4, <1>5, <1>6, <1>7, <1>8, <1>9, <1>10, <1>11, <1>12, <1>13 DEF DaemonStep

LEMMA OrderOfTrouble ==
  ASSUME NEW d \in Daemon, DaemonsTypeOK, Orderly, Kill(d) \/ Signal(d), OneAtATime'
  PROVE  Orderly'
<1> USE DEF Orderly, DaemonsTypeOK, Goes, files, clients, Aside, Owning, ComingOrGoing,
            OneAtATime, OwnersHoldThePidFile, OthersStandAside, ServingHoldsTheSocket, RunsAreTakenOver
<1>1. CASE Kill(d)
  BY <1>1 DEF Kill
<1>2. CASE Signal(d)
  BY <1>2 DEF Signal, Terminate
<1> QED
  BY <1>1, <1>2

LEMMA OrderOfClientStep ==
  ASSUME NEW c \in Client, DaemonsTypeOK, Orderly, ClientStep(c), OneAtATime'
  PROVE  Orderly'
<1> USE DEF Orderly, DaemonsTypeOK, files, clients, bounds, Aside, Owning, ComingOrGoing,
            OneAtATime, OwnersHoldThePidFile, OthersStandAside, ServingHoldsTheSocket, RunsAreTakenOver
<1>1. ASSUME UNCHANGED <<files, daemon, run, refused>> PROVE Orderly'
  BY <1>1
<1>2. ASSUME NEW goal \in Goal, Ask(c, goal) PROVE Orderly'
  BY <1>2, <1>1 DEF Ask
<1>3. CASE PingAnswered(c)
  BY <1>3, <1>1 DEF PingAnswered
<1>4. CASE PingFailed(c)
  <2>1. CASE UNCHANGED daemon
    BY <1>4, <2>1, <1>1 DEF PingFailed
  <2>2. ASSUME NEW d \in Daemon, daemon[d] = "none", daemon' = [daemon EXCEPT ![d] = "open"]
        PROVE  Orderly'
    BY <1>4, <2>2 DEF PingFailed
  <2> QED
    BY <1>4, <2>1, <2>2 DEF PingFailed, Spawn
<1>5. CASE Call(c)
  BY <1>5 DEF Call, Answers
<1>6. CASE Shutdown(c)
  <2>1. CASE UNCHANGED daemon
    BY <1>6, <2>1, <1>1 DEF Shutdown
  <2>2. ASSUME NEW d \in Daemon, daemon[d] = "up", daemon' = [daemon EXCEPT ![d] = "stopping"]
        PROVE  Orderly'
    BY <1>6, <2>2 DEF Shutdown
  <2> QED
    BY <1>6, <2>1, <2>2 DEF Shutdown
<1>7. CASE WaitedForStop(c)
  BY <1>7, <1>1 DEF WaitedForStop
<1>8. CASE GiveUp(c)
  BY <1>8, <1>1 DEF GiveUp
<1> QED
  BY <1>2, <1>3, <1>4, <1>5, <1>6, <1>7, <1>8 DEF ClientStep

LEMMA InvariantInit == DaemonsInit => DaemonsInvariant
<1> SUFFICES ASSUME DaemonsInit PROVE Orderly
  BY TypesInitially DEF DaemonsInvariant
<1> QED
  BY DEF DaemonsInit, Orderly, OneAtATime, OwnersHoldThePidFile, OthersStandAside,
         ServingHoldsTheSocket, RunsAreTakenOver, ComingOrGoing, Owning

LEMMA InvariantStep == DaemonsInvariant /\ [DaemonsNext]_daemonsVars => DaemonsInvariant'
<1> SUFFICES ASSUME DaemonsInvariant, [DaemonsNext]_daemonsVars PROVE DaemonsInvariant'
  OBVIOUS
<1>1. CASE UNCHANGED daemonsVars
  BY <1>1 DEF DaemonsInvariant, daemonsVars, files, history, bounds, DaemonsTypeOK, Orderly, OneAtATime,
              OwnersHoldThePidFile, OthersStandAside, ServingHoldsTheSocket, RunsAreTakenOver, ComingOrGoing
<1>2. CASE DaemonsNext
  <2>1. OverlapNoted /\ DaemonsTypeOK
    BY <1>2 DEF DaemonsNext, DaemonsInvariant
  <2>2. DaemonsTypeOK'
    BY <1>2, <2>1, TypesOfDaemonStep, TypesOfTrouble, TypesOfClientStep DEF DaemonsNext
  <2>3. ASSUME ~overlap' PROVE Orderly'
    <3>1. ~overlap /\ OneAtATime'
      BY <2>1, <2>3, OneAtATimeNoted
    <3>2. Orderly
      BY <3>1 DEF DaemonsInvariant
    <3> QED
      BY <1>2, <2>1, <3>1, <3>2, OrderOfDaemonStep, OrderOfTrouble, OrderOfClientStep DEF DaemonsNext
  <2> QED
    BY <2>2, <2>3 DEF DaemonsInvariant
<1> QED
  BY <1>1, <1>2
-----------------------------------------------------------------------------
(* Theorems *)

\* Every reachable state of the files, daemons and clients is well typed.
THEOREM DaemonTypesHold == DaemonsSpec => []DaemonsTypeOK
<1>1. DaemonsInvariant => DaemonsTypeOK
  BY DEF DaemonsInvariant
<1> QED
  BY <1>1, InvariantInit, InvariantStep, PTL DEF DaemonsSpec

(* However often daemons are started, stopped, signalled and killed: while  *)
(* no two come or go at once, one that is up holds the pid file and no      *)
(* other serves.                                                            *)
THEOREM OneServes == DaemonsSpec => []OneDaemonServes
<1>1. DaemonsInvariant => OneDaemonServes
  BY DEF DaemonsInvariant, Orderly, OneDaemonServes, OwnersHoldThePidFile, OthersStandAside, Aside, Owning
<1> QED
  BY <1>1, InvariantInit, InvariantStep, PTL DEF DaemonsSpec

(* And unless one that was turned away took the socket with it, whoever     *)
(* serves can be reached.                                                   *)
THEOREM ServingIsReachable == DaemonsSpec => []ServingDaemonIsReachable
<1>1. DaemonsInvariant => ServingDaemonIsReachable
  BY DEF DaemonsInvariant, Orderly, ServingDaemonIsReachable, ServingHoldsTheSocket
<1> QED
  BY <1>1, InvariantInit, InvariantStep, PTL DEF DaemonsSpec

(* And no run is marked running that the daemon which is up does not own.   *)
THEOREM RunsAreOwned == DaemonsSpec => []RunningRunsAreOwned
<1>1. DaemonsInvariant => RunningRunsAreOwned
  BY DEF DaemonsInvariant, Orderly, RunningRunsAreOwned, RunsAreTakenOver
<1> QED
  BY <1>1, InvariantInit, InvariantStep, PTL DEF DaemonsSpec
-----------------------------------------------------------------------------
(* Module Notify.                                                           *)
Stage == {"open", "grave", "meta", "late", "announced", "pruned"}
Ended(r) == stage[r] \in {"late", "announced", "pruned"}
HasFatal == {r \in Run : fatal[r]}
HasEnd == {r \in Run : Ended(r)}

(* What a line says is so, and lines have numbers of their own. *)
LineIsRight(n) ==
  /\ n.id < nextId
  /\ n.kind = "terminal" => Ended(n.run) /\ n.status = status[n.run]
  /\ n.kind = "fatal_error" => fatal[n.run]

LinesAreRight ==
  /\ \A n \in journal : LineIsRight(n)
  /\ \A n, k \in journal : n.id = k.id => n = k

(* A fatal error that is still to be announced has no sentinel yet.         *)
EndIsRight(r) ==
  /\ stage[r] \in {"grave", "late"} => ~fatal[r]
  /\ stage[r] = "late" => ~up
  /\ stage[r] # "open" => status[r] \in Outcome

(* A run has two lines at most, so that every number is an id.              *)
StoreIsRight ==
  /\ status \in [Run -> Outcome \cup {"running"}] /\ stage \in [Run -> Stage]
  /\ fatal \in [Run -> BOOLEAN] /\ journal \subseteq Note
  /\ nextId \in 1..(2 * Cardinality(Run) + 1) /\ acked \subseteq Id /\ up \in BOOLEAN
  /\ nextId = 1 + Cardinality(HasFatal) + Cardinality(HasEnd)
  /\ LinesAreRight
  /\ \A r \in Run : EndIsRight(r)

TerminalCodes ==
  {"TERMINAL_COMPLETED", "TERMINAL_FAILED", "TERMINAL_CANCELLED", "TERMINAL_TIMED_OUT"}

ExitIsRight(m) ==
  /\ monitor[m] \in TerminalCodes => Ended(RunOf[m])
  /\ monitor[m] = "TERMINAL_COMPLETED" => status[RunOf[m]] = "completed"
  /\ monitor[m] = "TERMINAL_FAILED" => status[RunOf[m]] \in {"failed", "orphaned"}
  /\ monitor[m] = "TERMINAL_CANCELLED" => status[RunOf[m]] = "cancelled"
  /\ monitor[m] = "TERMINAL_TIMED_OUT" => status[RunOf[m]] = "timed_out"
  /\ monitor[m] = "FATAL_ERROR" => fatal[RunOf[m]]

NothingMissed(m) ==
  /\ cursor[m] < nextId
  /\ \A n \in journal : n.run = RunOf[m] /\ n.id <= cursor[m] => n.id \in heard[m]

MonitorsAreRight ==
  /\ monitor \in [Monitor -> {"idle"} \cup Waiting \cup ExitCodes]
  /\ cursor \in [Monitor -> {0} \cup Id] /\ starts \in [Monitor -> 0..MaxStart]
  /\ heard \in [Monitor -> SUBSET Id]
  /\ \A m \in Monitor : ExitIsRight(m) /\ NothingMissed(m)

(* What a tick has still to push is above the cursor. *)
TickIsRight(t) ==
  /\ tick[t].at # "idle" => running
  /\ tick[t].at = "push" <=> tick[t].page # {}
  /\ \A n \in tick[t].page : lastSeen < n.id /\ n.id < nextId

PollerIsRight ==
  /\ tick \in [Tick -> [at : {"idle", "request", "push"}, page : SUBSET Note]]
  /\ running \in BOOLEAN /\ lastSeen \in {0} \cup Id /\ pushed \in [Id -> Nat]
  /\ lastSeen < nextId
  /\ \A n \in Id : pushed[n] <= 1 /\ (pushed[n] > 0 => n <= lastSeen)
  /\ \A t, u \in Tick : tick[t].at # "idle" /\ tick[u].at # "idle" => t = u
  /\ \A t \in Tick : TickIsRight(t)

NotifyInvariant ==
  StoreIsRight /\ MonitorsAreRight /\ PollerIsRight /\ faults \in Nat

(* What a step may do to the store as far as those who read it are told.    *)
StoreGrows ==
  /\ nextId' \in Nat /\ nextId <= nextId'
  /\ \A n \in journal' : n \in journal \/ (n.id \in Nat /\ n.id >= nextId)
  /\ \A r \in Run : fatal[r] => fatal'[r]
  /\ \A r \in Run : Ended(r) => Ended(r)' /\ status'[r] = status[r]
-----------------------------------------------------------------------------
LEMMA RunsAreFinite ==
  /\ IsFiniteSet(Run) /\ Cardinality(Run) \in Nat /\ Id \subseteq Nat \ {0}
  /\ Limit \in Nat \ {0} /\ MaxStart \in Nat /\ RunOf \in [Monitor -> Run]
  /\ \A n \in Note : /\ n.id \in Id /\ n.id \in Nat /\ n.id # 0 /\ n.run \in Run
                     /\ n.kind \in {"terminal", "fatal_error"}
                     /\ n.status \in Outcome \cup {"running"}
<1>1. IsFiniteSet(Run) /\ Cardinality(Run) \in Nat
  BY NotifyAssumption, FS_CardinalityType
<1>2. Id \subseteq Nat \ {0}
  BY <1>1 DEF Id
<1> QED
  BY <1>1, <1>2, NotifyAssumption DEF Note

LEMMA IdsAreNumbers == \A i \in {0} \cup Id : i \in Nat
BY DEF Id

LEMMA OneMore ==
  ASSUME NEW S \in SUBSET Run, NEW r \in Run, r \notin S
  PROVE  /\ Cardinality(S) \in Nat /\ Cardinality(S \cup {r}) = Cardinality(S) + 1
         /\ Cardinality(S) + 1 <= Cardinality(Run)
<1>1. IsFiniteSet(S) /\ Cardinality(S) \in Nat
  BY RunsAreFinite, FS_Subset, FS_CardinalityType
<1>2. Cardinality(S \cup {r}) = Cardinality(S) + 1
  BY <1>1, FS_AddElement
<1>3. Cardinality(S \cup {r}) <= Cardinality(Run)
  BY RunsAreFinite, FS_Subset
<1> QED
  BY <1>1, <1>2, <1>3

LEMMA SomeOfRun ==
  ASSUME NEW S \in SUBSET Run
  PROVE  Cardinality(S) \in Nat /\ Cardinality(S) <= Cardinality(Run)
BY RunsAreFinite, FS_Subset, FS_CardinalityType

(* A page begins with the oldest of all that matches, however short it is.  *)
LEMMA FirstIsLeast ==
  ASSUME NEW S \in SUBSET Note, S # {}
  PROVE  First(S) \in S /\ \A k \in S : First(S).id <= k.id
<1> DEFINE Numbers == {n.id : n \in S}
<1>1. Numbers \subseteq Nat /\ Numbers # {}
  BY RunsAreFinite
<1>2. PICK i \in Numbers : \A j \in Numbers : ~(j < i)
  <2>1. IsWellFoundedOn(OpToRel(<, Nat), Nat)
    BY NatLessThanWellFounded
  <2>2. PICK i \in Numbers : \A j \in Numbers : ~(<<j, i>> \in OpToRel(<, Nat))
    BY <1>1, <2>1, WFMin
  <2> QED
    BY <1>1, <2>2 DEF OpToRel
<1>3. PICK n \in S : n.id = i
  OBVIOUS
<1>4. \A k \in S : n.id <= k.id
  BY <1>1, <1>2, <1>3
<1> QED
  BY <1>3, <1>4 DEF First

LEMMA PageBegins ==
  ASSUME NEW S \in SUBSET Note, S # {}
  PROVE  /\ FirstOf(S) \subseteq S /\ FirstOf(S) # {}
         /\ First(FirstOf(S)) \in S
         /\ \A k \in S : First(FirstOf(S)).id <= k.id
<1>1. First(S) \in S /\ \A k \in S : First(S).id <= k.id
  BY FirstIsLeast
<1>2. {k \in S : k.id < First(S).id} = {}
  BY <1>1, RunsAreFinite
<1>3. First(S) \in FirstOf(S) /\ FirstOf(S) \subseteq S
  <2>1. PICK least \in S : least = First(S)
    BY <1>1
  <2>2. Cardinality({k \in S : k.id < least.id}) = 0
    BY <1>2, <2>1, FS_EmptySet
  <2>3. 0 < Limit
    BY RunsAreFinite
  <2>4. least \in FirstOf(S)
    BY <2>2, <2>3 DEF FirstOf
  <2> QED
    BY <2>1, <2>4 DEF FirstOf
<1>4. /\ First(FirstOf(S)) \in FirstOf(S)
      /\ First(FirstOf(S)).id <= First(S).id
  BY <1>3, FirstIsLeast
<1> QED
  BY <1>1, <1>3, <1>4, RunsAreFinite
-----------------------------------------------------------------------------
LEMMA StoreKept ==
  ASSUME StoreIsRight, UNCHANGED store
  PROVE  StoreIsRight' /\ StoreGrows
<1>1. UNCHANGED <<status, stage, fatal, journal, nextId, acked, up>>
  BY DEF store
<1>2. HasFatal' = HasFatal /\ HasEnd' = HasEnd
  BY <1>1 DEF HasFatal, HasEnd, Ended
<1>3. LinesAreRight' /\ \A r \in Run : EndIsRight(r)'
  BY <1>1 DEF StoreIsRight, LinesAreRight, LineIsRight, EndIsRight, Ended
<1>4. nextId \in Nat
  BY RunsAreFinite DEF StoreIsRight
<1> QED
  BY <1>1, <1>2, <1>3, <1>4 DEF StoreIsRight, StoreGrows, Ended

(* Readers of the store are right about it whatever it gains. *)
LEMMA MonitorsKept ==
  ASSUME StoreIsRight, MonitorsAreRight, StoreGrows, UNCHANGED <<cursor, heard>>,
         starts' \in [Monitor -> 0..MaxStart],
         monitor' \in [Monitor -> {"idle"} \cup Waiting \cup ExitCodes],
         \A m \in Monitor : monitor'[m] # monitor[m] =>
           monitor'[m] \notin TerminalCodes \cup {"FATAL_ERROR"}
  PROVE  MonitorsAreRight'
<1>1. ASSUME NEW m \in Monitor PROVE ExitIsRight(m)'
  <2>1. RunOf[m] \in Run
    BY RunsAreFinite
  <2>2. CASE monitor'[m] = monitor[m]
    BY <2>1, <2>2 DEF MonitorsAreRight, ExitIsRight, StoreGrows, TerminalCodes
  <2>3. CASE monitor'[m] # monitor[m]
    BY <2>3 DEF ExitIsRight, TerminalCodes
  <2> QED
    BY <2>2, <2>3
<1>2. ASSUME NEW m \in Monitor PROVE NothingMissed(m)'
  <2>1. nextId \in Nat /\ nextId' \in Nat /\ nextId <= nextId' /\ cursor[m] \in Nat
    <3>1. nextId \in Nat
      BY RunsAreFinite DEF StoreIsRight
    <3>2. cursor[m] \in Nat
      BY IdsAreNumbers DEF MonitorsAreRight
    <3>3. nextId' \in Nat /\ nextId <= nextId'
      BY DEF StoreGrows
    <3> QED
      BY <3>1, <3>2, <3>3
  <2>2. ASSUME NEW n \in journal', n.run = RunOf[m], n.id <= cursor[m] PROVE n.id \in heard[m]
    <3>1. CASE n \in journal
      BY <2>2, <3>1 DEF MonitorsAreRight, NothingMissed
    <3>2. CASE n \notin journal
      <4>1. n.id \in Nat /\ n.id >= nextId
        BY <3>2 DEF StoreGrows
      <4>2. cursor[m] < nextId
        BY DEF MonitorsAreRight, NothingMissed
      <4> QED
        BY <2>1, <2>2, <4>1, <4>2
    <3> QED
      BY <3>1, <3>2
  <2>3. cursor[m] < nextId'
    BY <2>1 DEF MonitorsAreRight, NothingMissed
  <2> QED
    BY <2>2, <2>3 DEF NothingMissed
<1> QED
  BY <1>1, <1>2 DEF MonitorsAreRight

LEMMA PollerKept ==
  ASSUME StoreIsRight, PollerIsRight, StoreGrows, UNCHANGED poller
  PROVE  PollerIsRight'
<1>1. UNCHANGED <<tick, running, lastSeen, pushed>>
  BY DEF poller
<1>2. nextId \in Nat /\ nextId' \in Nat /\ nextId <= nextId' /\ lastSeen \in Nat
  BY RunsAreFinite DEF StoreIsRight, StoreGrows, PollerIsRight
<1>3. lastSeen' < nextId'
  BY <1>1, <1>2 DEF PollerIsRight
<1>4. ASSUME NEW t \in Tick PROVE TickIsRight(t)'
  <2>1. TickIsRight(t) /\ \A n \in tick[t].page : n \in Note
    BY DEF PollerIsRight
  <2>2. \A n \in tick[t].page : n.id \in Nat
    BY <2>1, RunsAreFinite
  <2> QED
    BY <1>1, <1>2, <2>1, <2>2 DEF TickIsRight
<1> QED
  BY <1>1, <1>3, <1>4 DEF PollerIsRight

(* One of a step's three parts moves, the other two stay. *)
LEMMA StoreMoves ==
  ASSUME NotifyInvariant, StoreIsRight', StoreGrows, UNCHANGED <<monitors, poller, faults>>
  PROVE  NotifyInvariant'
<1>1. UNCHANGED <<monitor, cursor, starts, heard>>
  BY DEF monitors
<1>2. MonitorsAreRight'
  BY <1>1, MonitorsKept DEF NotifyInvariant, MonitorsAreRight
<1>3. PollerIsRight'
  BY PollerKept DEF NotifyInvariant
<1> QED
  BY <1>2, <1>3 DEF NotifyInvariant
-----------------------------------------------------------------------------
(* A run's fatal error, or its end, has a free number as long as it has not *)
(* been announced.                                                          *)
LEMMA NumberIsFree ==
  ASSUME StoreIsRight, NEW r \in Run, ~fatal[r] \/ ~Ended(r)
  PROVE  nextId \in Id /\ nextId \in Nat /\ nextId + 1 \in 1..(2 * Cardinality(Run) + 1)
<1>1. /\ Cardinality(HasFatal) \in Nat /\ Cardinality(HasFatal) <= Cardinality(Run)
      /\ Cardinality(HasEnd) \in Nat /\ Cardinality(HasEnd) <= Cardinality(Run)
  <2>1. HasFatal \in SUBSET Run /\ HasEnd \in SUBSET Run
    BY DEF HasFatal, HasEnd
  <2> QED
    BY <2>1, SomeOfRun
<1>2. ASSUME ~fatal[r] PROVE Cardinality(HasFatal) + 1 <= Cardinality(Run)
  <2>1. HasFatal \in SUBSET Run /\ r \notin HasFatal
    BY <1>2 DEF HasFatal
  <2> QED
    BY <2>1, OneMore
<1>3. ASSUME ~Ended(r) PROVE Cardinality(HasEnd) + 1 <= Cardinality(Run)
  <2>1. HasEnd \in SUBSET Run /\ r \notin HasEnd
    BY <1>3 DEF HasEnd
  <2> QED
    BY <2>1, OneMore
<1> QED
  BY <1>1, <1>2, <1>3, RunsAreFinite DEF StoreIsRight, Id

(* The line just appended is the last. *)
LEMMA LinesAfter ==
  ASSUME StoreIsRight, NEW r \in Run, NEW kind \in {"terminal", "fatal_error"},
         AppendNotification(r, kind), nextId \in Id, status' = status,
         \A q \in Run : (fatal[q] => fatal'[q]) /\ (Ended(q) => Ended(q)'),
         kind = "terminal" => Ended(r)', kind = "fatal_error" => fatal'[r]
  PROVE  LinesAreRight' /\ journal' \subseteq Note /\ StoreGrows
<1> DEFINE line == Appended(r, kind)
<1>1. /\ line \in Note /\ line.id = nextId /\ line.run = r /\ line.kind = kind
      /\ line.status = status[r]
  BY DEF Appended, Note, StoreIsRight
<1> HIDE DEF line
<1>2. /\ journal' = journal \cup {line} /\ nextId' = nextId + 1 /\ nextId \in Nat
      /\ \A n \in journal : n \in Note /\ n.run \in Run /\ n.id \in Nat /\ n.id < nextId
  BY RunsAreFinite DEF AppendNotification, StoreIsRight, LinesAreRight, LineIsRight, line
<1>3. ASSUME NEW n \in journal' PROVE LineIsRight(n)'
  <2>1. CASE n \in journal
    <3>1. LineIsRight(n)
      BY <2>1 DEF StoreIsRight, LinesAreRight
    <3> QED
      BY <1>2, <2>1, <3>1 DEF LineIsRight
  <2>2. CASE n = line
    BY <1>1, <1>2, <2>2 DEF LineIsRight
  <2> QED
    BY <1>2, <2>1, <2>2
<1>4. \A n, k \in journal' : n.id = k.id => n = k
  <2>1. \A n, k \in journal : n.id = k.id => n = k
    BY DEF StoreIsRight, LinesAreRight
  <2>2. \A n \in journal : n.id # line.id
    BY <1>1, <1>2
  <2> QED
    BY <1>2, <2>1, <2>2
<1>5. StoreGrows
  BY <1>1, <1>2 DEF StoreGrows
<1> QED
  BY <1>1, <1>2, <1>3, <1>4, <1>5 DEF StoreIsRight, LinesAreRight
-----------------------------------------------------------------------------
LEMMA NotifyStarts == NotifyInit => NotifyInvariant
<1> SUFFICES ASSUME NotifyInit PROVE NotifyInvariant
  OBVIOUS
<1>1. HasFatal = {} /\ HasEnd = {}
  BY DEF NotifyInit, HasFatal, HasEnd, Ended
<1>2. 1 \in 1..(2 * Cardinality(Run) + 1)
  BY RunsAreFinite
<1>3. StoreIsRight
  BY <1>1, <1>2, FS_EmptySet
     DEF NotifyInit, StoreIsRight, LinesAreRight, EndIsRight, Ended, Stage
<1>4. MonitorsAreRight
  BY RunsAreFinite DEF NotifyInit, MonitorsAreRight, ExitIsRight, NothingMissed, TerminalCodes
<1>5. PollerIsRight
  <2>1. /\ tick \in [Tick -> [at : {"idle", "request", "push"}, page : SUBSET Note]]
        /\ \A t \in Tick : tick[t].at = "idle" /\ tick[t].page = {}
    BY DEF NotifyInit, IdleTick
  <2>2. pushed \in [Id -> Nat] /\ (\A n \in Id : pushed[n] = 0) /\ lastSeen = 0 /\ nextId = 1
    BY DEF NotifyInit
  <2>3. running = FALSE
    BY DEF NotifyInit
  <2>4. \A t \in Tick : TickIsRight(t)
    BY <2>1 DEF TickIsRight
  <2>5. \A t, u \in Tick : tick[t].at # "idle" /\ tick[u].at # "idle" => t = u
    BY <2>1
  <2>6. \A n \in Id : pushed[n] <= 1 /\ (pushed[n] > 0 => n <= lastSeen)
    BY <2>2
  <2>7. running \in BOOLEAN
    BY <2>3
  <2>8. lastSeen \in {0} \cup Id /\ lastSeen < nextId
    BY <2>2
  <2> QED
    BY <2>1, <2>2, <2>4, <2>5, <2>6, <2>7, <2>8 DEF PollerIsRight
<1> QED
  BY <1>3, <1>4, <1>5 DEF NotifyInit, NotifyInvariant

(* A fatal error of a run: while it works, at its end, or found missing by  *)
(* the start.                                                               *)
LEMMA FatalAnnounced ==
  ASSUME NotifyInvariant, NEW r \in Run, ~fatal[r], AppendNotification(r, "fatal_error"),
         fatal' = [fatal EXCEPT ![r] = TRUE],
         stage' \in [Run -> Stage], \A q \in Run : Ended(q)' <=> Ended(q),
         \A q \in Run \ {r} : stage'[q] = stage[q],
         stage'[r] \notin {"grave", "late"}, stage'[r] # "open" => status[r] \in Outcome,
         UNCHANGED <<status, acked, up, monitors, poller, faults>>
  PROVE  NotifyInvariant'
<1> USE DEF NotifyInvariant
<1>1. nextId \in Id /\ nextId \in Nat /\ nextId + 1 \in 1..(2 * Cardinality(Run) + 1)
  BY NumberIsFree
<1>2. fatal' \in [Run -> BOOLEAN] /\ fatal'[r] /\ \A q \in Run \ {r} : fatal'[q] = fatal[q]
  BY DEF StoreIsRight
<1>3. LinesAreRight' /\ journal' \subseteq Note /\ StoreGrows
  BY <1>1, <1>2, LinesAfter
<1>4. HasFatal' = HasFatal \cup {r} /\ r \notin HasFatal /\ HasEnd' = HasEnd
  BY <1>2 DEF HasFatal, HasEnd
<1>5. /\ nextId' = nextId + 1
      /\ nextId' = 1 + Cardinality(HasFatal') + Cardinality(HasEnd')
  <2>1. Cardinality(HasFatal) \in Nat /\ Cardinality(HasFatal') = Cardinality(HasFatal) + 1
    BY <1>4, OneMore DEF HasFatal
  <2>2. Cardinality(HasEnd) \in Nat
    BY SomeOfRun DEF HasEnd
  <2> QED
    BY <1>4, <2>1, <2>2 DEF StoreIsRight, AppendNotification
<1>6. \A q \in Run : EndIsRight(q)'
  BY <1>2 DEF StoreIsRight, EndIsRight
<1>7. StoreIsRight'
  BY <1>1, <1>2, <1>3, <1>5, <1>6 DEF StoreIsRight
<1> QED
  BY <1>3, <1>7, StoreMoves

(* The steps of a run's end that append nothing. *)
LEMMA EndMoves ==
  ASSUME NotifyInvariant, NEW r \in Run, stage[r] = "open",
         stage' = [stage EXCEPT ![r] = stage'[r]], stage'[r] \in {"meta", "grave"},
         NEW outcome \in Outcome, status' = [status EXCEPT ![r] = outcome],
         stage'[r] = "grave" => ~fatal[r],
         UNCHANGED <<fatal, journal, nextId, acked, up, monitors, poller, faults>>
  PROVE  NotifyInvariant'
<1> USE DEF NotifyInvariant
<1>1. /\ stage' \in [Run -> Stage] /\ status' \in [Run -> Outcome \cup {"running"}]
      /\ status'[r] = outcome
      /\ \A q \in Run \ {r} : stage'[q] = stage[q] /\ status'[q] = status[q]
  BY DEF StoreIsRight, Stage
<1>2. \A q \in Run : /\ Ended(q)' <=> Ended(q)
                     /\ Ended(q) => status'[q] = status[q]
  BY <1>1 DEF Ended
<1>3. HasFatal' = HasFatal /\ HasEnd' = HasEnd
  BY <1>2 DEF HasFatal, HasEnd
<1>4. \A q \in Run : EndIsRight(q)'
  BY <1>1 DEF StoreIsRight, EndIsRight
<1>5. LinesAreRight'
  <2>1. \A n \in journal : n.run \in Run
    BY RunsAreFinite DEF StoreIsRight
  <2> QED
    BY <1>2, <2>1 DEF StoreIsRight, LinesAreRight, LineIsRight
<1>6. StoreGrows
  BY <1>2, RunsAreFinite DEF StoreGrows, StoreIsRight
<1>7. StoreIsRight'
  BY <1>1, <1>3, <1>4, <1>5 DEF StoreIsRight
<1> QED
  BY <1>6, <1>7, StoreMoves
-----------------------------------------------------------------------------
LEMMA FatalErrorNext ==
  ASSUME NotifyInvariant, NEW r \in Run, FatalError(r)
  PROVE  NotifyInvariant'
<1>1. ~fatal[r] /\ stage[r] = "open" /\ AppendNotification(r, "fatal_error")
  BY DEF FatalError, FatalIsNew
<1>2. /\ fatal' = [fatal EXCEPT ![r] = TRUE]
      /\ UNCHANGED <<status, stage, acked, up, monitors, poller, faults>>
  BY DEF FatalError
<1>3. stage' \in [Run -> Stage] /\ \A q \in Run : Ended(q)' <=> Ended(q)
  BY <1>2 DEF NotifyInvariant, StoreIsRight, Ended
<1> QED
  BY <1>1, <1>2, <1>3, FatalAnnounced

LEMMA AnnounceFatalNext ==
  ASSUME NotifyInvariant, NEW r \in Run, AnnounceFatal(r)
  PROVE  NotifyInvariant'
<1>1. stage[r] \in {"grave", "late"} /\ AppendNotification(r, "fatal_error")
  BY DEF AnnounceFatal
<1>2. /\ stage' = [stage EXCEPT ![r] = IF up THEN "meta" ELSE "announced"]
      /\ fatal' = [fatal EXCEPT ![r] = TRUE]
      /\ UNCHANGED <<status, acked, up, monitors, poller, faults>>
  BY DEF AnnounceFatal
<1>3. stage \in [Run -> Stage] /\ EndIsRight(r)
  BY DEF NotifyInvariant, StoreIsRight
<1>4. ~fatal[r] /\ status[r] \in Outcome
  BY <1>1, <1>3 DEF EndIsRight
<1>5. /\ stage' \in [Run -> Stage] /\ \A q \in Run \ {r} : stage'[q] = stage[q]
      /\ stage'[r] = IF up THEN "meta" ELSE "announced"
  BY <1>2, <1>3 DEF Stage
<1>6. stage[r] = IF up THEN "grave" ELSE "late"
  BY DEF AnnounceFatal
<1>7. \A q \in Run : Ended(q)' <=> Ended(q)
  BY <1>5, <1>6 DEF Ended
<1> QED
  BY <1>1, <1>2, <1>4, <1>5, <1>7, FatalAnnounced

LEMMA WriteMetaNext ==
  ASSUME NotifyInvariant, NEW r \in Run, NEW outcome \in Ending, WriteMeta(r, outcome)
  PROVE  NotifyInvariant'
<1>1. PICK s \in {"meta"} \cup (IF Grave(r, outcome) THEN {"grave"} ELSE {}) :
        stage' = [stage EXCEPT ![r] = s]
  BY DEF WriteMeta
<1>2. stage'[r] = s /\ s \in {"meta", "grave"} /\ (s = "grave" => ~fatal[r])
  BY <1>1 DEF NotifyInvariant, StoreIsRight, Grave, FatalIsNew
<1>3. outcome \in Outcome /\ stage[r] = "open" /\ status' = [status EXCEPT ![r] = outcome]
      /\ UNCHANGED <<fatal, journal, nextId, acked, up, monitors, poller, faults>>
  BY DEF WriteMeta, Outcome
<1> QED
  BY <1>1, <1>2, <1>3, EndMoves

LEMMA OrphanRunNext ==
  ASSUME NotifyInvariant, NEW r \in Run, OrphanRun(r)
  PROVE  NotifyInvariant'
<1>1. "orphaned" \in Outcome
  BY DEF Outcome
<1>2. stage'[r] = "meta"
  BY DEF OrphanRun, NotifyInvariant, StoreIsRight
<1>3. /\ stage[r] = "open" /\ stage' = [stage EXCEPT ![r] = "meta"]
      /\ status' = [status EXCEPT ![r] = "orphaned"]
      /\ UNCHANGED <<fatal, journal, nextId, acked, up, monitors, poller, faults>>
  BY DEF OrphanRun
<1> QED
  BY <1>1, <1>2, <1>3, EndMoves

LEMMA AnnounceTerminalNext ==
  ASSUME NotifyInvariant, NEW r \in Run, AnnounceTerminal(r)
  PROVE  NotifyInvariant'
<1> USE DEF NotifyInvariant
<1>1. stage \in [Run -> Stage] /\ EndIsRight(r)
  BY DEF StoreIsRight
<1>2. /\ stage[r] = "meta" \/ (stage[r] = "grave" /\ ~up)
      /\ AppendNotification(r, "terminal")
      /\ stage' = [stage EXCEPT ![r] = IF stage[r] = "grave" THEN "late" ELSE "announced"]
      /\ UNCHANGED <<status, fatal, acked, up, monitors, poller, faults>>
  BY DEF AnnounceTerminal
<1>3. /\ stage' \in [Run -> Stage] /\ \A q \in Run \ {r} : stage'[q] = stage[q]
      /\ stage'[r] = IF stage[r] = "grave" THEN "late" ELSE "announced"
  BY <1>1, <1>2 DEF Stage
<1>4. ~Ended(r) /\ Ended(r)' /\ \A q \in Run \ {r} : Ended(q)' <=> Ended(q)
  BY <1>2, <1>3 DEF Ended
<1>5. nextId \in Id /\ nextId \in Nat /\ nextId + 1 \in 1..(2 * Cardinality(Run) + 1)
  BY <1>4, NumberIsFree
<1>6. LinesAreRight' /\ journal' \subseteq Note /\ StoreGrows
  <2>1. \A q \in Run : (fatal[q] => fatal'[q]) /\ (Ended(q) => Ended(q)')
    BY <1>2, <1>4
  <2> QED
    BY <1>2, <1>4, <1>5, <2>1, LinesAfter
<1>7. HasEnd' = HasEnd \cup {r} /\ r \notin HasEnd /\ HasFatal' = HasFatal
  BY <1>2, <1>4 DEF HasFatal, HasEnd
<1>8. /\ nextId' = nextId + 1
      /\ nextId' = 1 + Cardinality(HasFatal') + Cardinality(HasEnd')
  <2>1. Cardinality(HasEnd) \in Nat /\ Cardinality(HasEnd') = Cardinality(HasEnd) + 1
    BY <1>7, OneMore DEF HasEnd
  <2>2. Cardinality(HasFatal) \in Nat
    BY SomeOfRun DEF HasFatal
  <2> QED
    BY <1>2, <1>7, <2>1, <2>2 DEF StoreIsRight, AppendNotification
<1>9. \A q \in Run : EndIsRight(q)'
  BY <1>1, <1>2, <1>3 DEF StoreIsRight, EndIsRight
<1>10. StoreIsRight'
  BY <1>2, <1>3, <1>5, <1>6, <1>8, <1>9 DEF StoreIsRight
<1> QED
  BY <1>2, <1>6, <1>10, StoreMoves

LEMMA PruneRunNext ==
  ASSUME NotifyInvariant, NEW r \in Run, PruneRun(r)
  PROVE  NotifyInvariant'
<1> USE DEF NotifyInvariant
<1>1. /\ stage[r] = "announced" /\ stage' = [stage EXCEPT ![r] = "pruned"]
      /\ journal' \subseteq journal /\ acked' \subseteq acked
      /\ UNCHANGED <<status, fatal, nextId, up, monitors, poller, faults>>
  BY DEF PruneRun
<1>2. /\ stage' \in [Run -> Stage] /\ stage'[r] = "pruned"
      /\ \A q \in Run \ {r} : stage'[q] = stage[q]
  BY <1>1 DEF StoreIsRight, Stage
<1>3. \A q \in Run : Ended(q)' <=> Ended(q)
  BY <1>1, <1>2 DEF Ended
<1>4. HasFatal' = HasFatal /\ HasEnd' = HasEnd
  BY <1>1, <1>3 DEF HasFatal, HasEnd
<1>5. LinesAreRight'
  <2>1. \A n \in journal' : LineIsRight(n) /\ n.run \in Run
    BY <1>1, RunsAreFinite DEF StoreIsRight, LinesAreRight
  <2> QED
    BY <1>1, <1>3, <2>1 DEF StoreIsRight, LinesAreRight, LineIsRight
<1>6. \A q \in Run : EndIsRight(q)'
  BY <1>1, <1>2 DEF StoreIsRight, EndIsRight
<1>7. StoreIsRight'
  BY <1>1, <1>2, <1>4, <1>5, <1>6 DEF StoreIsRight
<1>8. StoreGrows
  BY <1>1, <1>3, RunsAreFinite DEF StoreGrows, StoreIsRight
<1> QED
  BY <1>1, <1>7, <1>8, StoreMoves

LEMMA AckNext ==
  ASSUME NotifyInvariant, NEW n \in journal, AckRunNotification(n)
  PROVE  NotifyInvariant'
<1> USE DEF NotifyInvariant
<1>1. /\ acked' = acked \cup {n.id}
      /\ UNCHANGED <<status, stage, fatal, journal, nextId, up, monitors, poller, faults>>
  BY DEF AckRunNotification
<1>2. n.id \in Id
  BY RunsAreFinite DEF StoreIsRight
<1>3. /\ HasFatal' = HasFatal /\ HasEnd' = HasEnd /\ LinesAreRight'
      /\ \A q \in Run : EndIsRight(q)'
  BY <1>1 DEF HasFatal, HasEnd, Ended, StoreIsRight, LinesAreRight, LineIsRight, EndIsRight
<1>4. StoreIsRight'
  BY <1>1, <1>2, <1>3 DEF StoreIsRight
<1>5. StoreGrows
  BY <1>1, RunsAreFinite DEF StoreGrows, StoreIsRight, Ended
<1> QED
  BY <1>1, <1>4, <1>5, StoreMoves

LEMMA ListensNext ==
  ASSUME NotifyInvariant, DaemonListens
  PROVE  NotifyInvariant'
<1> USE DEF NotifyInvariant
<1>1. /\ \A q \in Run : stage[q] \in {"announced", "pruned"}
      /\ up' = TRUE
      /\ UNCHANGED <<status, stage, fatal, journal, nextId, acked, monitors, poller, faults>>
  BY DEF DaemonListens
<1>2. /\ HasFatal' = HasFatal /\ HasEnd' = HasEnd /\ LinesAreRight'
      /\ \A q \in Run : EndIsRight(q)'
  BY <1>1 DEF HasFatal, HasEnd, Ended, StoreIsRight, LinesAreRight, LineIsRight, EndIsRight
<1>3. StoreIsRight'
  BY <1>1, <1>2 DEF StoreIsRight
<1>4. StoreGrows
  BY <1>1, RunsAreFinite DEF StoreGrows, StoreIsRight, Ended
<1> QED
  BY <1>1, <1>3, <1>4, StoreMoves
-----------------------------------------------------------------------------
(* The monitor commands. *)
LEMMA MonitorMoves ==
  ASSUME NotifyInvariant, MonitorsAreRight', UNCHANGED <<store, poller, faults>>
  PROVE  NotifyInvariant'
BY StoreKept, PollerKept DEF NotifyInvariant

LEMMA StartMonitorNext ==
  ASSUME NotifyInvariant, NEW m \in Monitor, StartMonitor(m)
  PROVE  NotifyInvariant'
<1>1. /\ monitor' = [monitor EXCEPT ![m] = "exists"] /\ starts[m] < MaxStart
      /\ starts' = [starts EXCEPT ![m] = starts[m] + 1]
      /\ UNCHANGED <<store, cursor, heard, poller, faults>>
  BY DEF StartMonitor
<1>2. StoreIsRight /\ MonitorsAreRight /\ StoreGrows
  BY <1>1, StoreKept DEF NotifyInvariant
<1>3. monitor' \in [Monitor -> {"idle"} \cup Waiting \cup ExitCodes]
  BY <1>1, <1>2 DEF MonitorsAreRight, Waiting
<1>4. \A q \in Monitor : monitor'[q] # monitor[q] =>
        monitor'[q] \notin TerminalCodes \cup {"FATAL_ERROR"}
  BY <1>1, <1>2 DEF MonitorsAreRight, TerminalCodes
<1>5. starts' \in [Monitor -> 0..MaxStart]
  <2>1. starts \in [Monitor -> 0..MaxStart] /\ MaxStart \in Nat
    BY <1>2, NotifyAssumption DEF MonitorsAreRight
  <2>2. starts[m] + 1 \in 0..MaxStart
    BY <1>1, <2>1
  <2> QED
    BY <1>1, <2>1, <2>2
<1>6. MonitorsAreRight'
  BY <1>1, <1>2, <1>3, <1>4, <1>5, MonitorsKept
<1> QED
  BY <1>1, <1>6, MonitorMoves

LEMMA EnsureRunExistsNext ==
  ASSUME NotifyInvariant, NEW m \in Monitor, EnsureRunExists(m)
  PROVE  NotifyInvariant'
<1>1. PICK code \in {"DAEMON_UNAVAILABLE", "UNKNOWN_RUN", "wait"} :
        monitor' = [monitor EXCEPT ![m] = code]
  BY DEF EnsureRunExists
<1>2. UNCHANGED <<store, cursor, starts, heard, poller, faults>>
  BY DEF EnsureRunExists
<1>3. StoreIsRight /\ MonitorsAreRight /\ StoreGrows
  BY <1>2, StoreKept DEF NotifyInvariant
<1>4. monitor' \in [Monitor -> {"idle"} \cup Waiting \cup ExitCodes]
  BY <1>1, <1>3 DEF MonitorsAreRight, Waiting, ExitCodes
<1>5. \A q \in Monitor : monitor'[q] # monitor[q] =>
        monitor'[q] \notin TerminalCodes \cup {"FATAL_ERROR"}
  BY <1>1, <1>3 DEF MonitorsAreRight, TerminalCodes
<1>6. starts' \in [Monitor -> 0..MaxStart]
  BY <1>2, <1>3 DEF MonitorsAreRight
<1>7. MonitorsAreRight'
  BY <1>2, <1>3, <1>4, <1>5, <1>6, MonitorsKept
<1> QED
  BY <1>2, <1>7, MonitorMoves

(* The exit code is what the line says, and the line is right. *)
LEMMA CodeIsRight ==
  ASSUME StoreIsRight, NEW n \in journal
  PROVE  /\ ExitCode(n) \in ExitCodes
         /\ ExitCode(n) \in TerminalCodes => Ended(n.run)
         /\ ExitCode(n) = "TERMINAL_COMPLETED" => status[n.run] = "completed"
         /\ ExitCode(n) = "TERMINAL_FAILED" => status[n.run] \in {"failed", "orphaned"}
         /\ ExitCode(n) = "TERMINAL_CANCELLED" => status[n.run] = "cancelled"
         /\ ExitCode(n) = "TERMINAL_TIMED_OUT" => status[n.run] = "timed_out"
         /\ ExitCode(n) = "FATAL_ERROR" => fatal[n.run]
<1>1. n.run \in Run /\ n.kind \in {"terminal", "fatal_error"}
  BY RunsAreFinite DEF StoreIsRight
<1>2. LineIsRight(n) /\ EndIsRight(n.run)
  BY <1>1 DEF StoreIsRight, LinesAreRight
<1>3. CASE n.kind = "fatal_error"
  <2>1. ExitCode(n) = "FATAL_ERROR" /\ fatal[n.run]
    BY <1>2, <1>3 DEF ExitCode, LineIsRight
  <2> QED
    BY <2>1 DEF ExitCodes, TerminalCodes
<1>4. CASE n.kind = "terminal"
  <2>1. Ended(n.run) /\ n.status = status[n.run]
    BY <1>2, <1>4 DEF LineIsRight
  <2>2. status[n.run] \in {"completed", "failed", "cancelled", "timed_out", "orphaned"}
    BY <1>2, <2>1, NotifyAssumption DEF Ended, EndIsRight, Outcome
  <2> QED
    BY <1>4, <2>1, <2>2 DEF ExitCode, ExitCodes, TerminalCodes
<1> QED
  BY <1>1, <1>3, <1>4

(* The monitor reports the oldest line it has not reported. *)
LEMMA WaitForAnyRunNext ==
  ASSUME NotifyInvariant, NEW m \in Monitor, WaitForAnyRun(m)
  PROVE  NotifyInvariant'
<1> DEFINE open == {n \in journal : Matches(n, {RunOf[m]}, cursor[m]) /\ n.kind \in DefaultKinds}
<1>1. /\ monitor' = [monitor EXCEPT ![m] = ExitCode(First(FirstOf(open)))]
      /\ cursor' = [cursor EXCEPT ![m] = First(FirstOf(open)).id]
      /\ heard' = [heard EXCEPT ![m] = heard[m] \cup {First(FirstOf(open)).id}]
      /\ FirstOf(open) # {}
      /\ UNCHANGED <<store, starts, poller, faults>>
  BY DEF WaitForAnyRun, Listed, CursorAfter
<1>2. StoreIsRight /\ MonitorsAreRight
  BY DEF NotifyInvariant
<1>3. \A n \in journal : n \in Note /\ n.id \in Id /\ n.id \in Nat
                         /\ n.kind \in {"terminal", "fatal_error"}
  BY <1>2, RunsAreFinite DEF StoreIsRight
<1>4. \A n : n \in open <=> n \in journal /\ n.run = RunOf[m] /\ n.id > cursor[m]
  BY <1>3 DEF Matches, DefaultKinds
<1>5. open \in SUBSET Note /\ open # {}
  BY <1>1, <1>3 DEF FirstOf
<1>6. PICK first : first = First(FirstOf(open))
  OBVIOUS
<1> HIDE DEF open
<1>7. first \in open /\ \A k \in open : first.id <= k.id
  BY <1>5, <1>6, PageBegins
<1>8. first \in journal /\ first.run = RunOf[m] /\ first.id > cursor[m]
  BY <1>4, <1>7
<1>9. /\ monitor \in [Monitor -> {"idle"} \cup Waiting \cup ExitCodes]
      /\ cursor \in [Monitor -> {0} \cup Id] /\ starts' \in [Monitor -> 0..MaxStart]
      /\ heard \in [Monitor -> SUBSET Id]
  BY <1>1, <1>2 DEF MonitorsAreRight
<1>10. /\ monitor' \in [Monitor -> {"idle"} \cup Waiting \cup ExitCodes]
       /\ cursor' \in [Monitor -> {0} \cup Id] /\ heard' \in [Monitor -> SUBSET Id]
       /\ monitor'[m] = ExitCode(first) /\ cursor'[m] = first.id
       /\ heard'[m] = heard[m] \cup {first.id}
       /\ \A q \in Monitor \ {m} : /\ monitor'[q] = monitor[q] /\ cursor'[q] = cursor[q]
                                   /\ heard'[q] = heard[q]
  <2>1. ExitCode(first) \in ExitCodes /\ first.id \in Id
    BY <1>2, <1>3, <1>8, CodeIsRight
  <2>2. /\ monitor' = [monitor EXCEPT ![m] = ExitCode(first)]
        /\ cursor' = [cursor EXCEPT ![m] = first.id]
        /\ heard' = [heard EXCEPT ![m] = heard[m] \cup {first.id}]
    BY <1>1, <1>6
  <2> QED
    BY <1>9, <2>1, <2>2
<1>11. UNCHANGED <<status, stage, fatal, journal, nextId, acked, up>>
  BY <1>1 DEF store
<1>12. ASSUME NEW q \in Monitor PROVE ExitIsRight(q)' /\ NothingMissed(q)'
  <2>1. CASE q # m
    <3>1. ExitIsRight(q) /\ NothingMissed(q)
      BY <1>2 DEF MonitorsAreRight
    <3>2. monitor'[q] = monitor[q] /\ cursor'[q] = cursor[q] /\ heard'[q] = heard[q]
      BY <1>10, <2>1
    <3>3. ExitIsRight(q)'
      BY <1>11, <3>1, <3>2 DEF ExitIsRight, Ended
    <3>4. NothingMissed(q)'
      BY <1>11, <3>1, <3>2 DEF NothingMissed
    <3> QED
      BY <3>3, <3>4
  <2>2. CASE q = m
    <3>1. ExitIsRight(m)'
      BY <1>2, <1>8, <1>10, <1>11, CodeIsRight DEF ExitIsRight, Ended
    <3>2. cursor'[m] < nextId'
      BY <1>2, <1>8, <1>10, <1>11 DEF StoreIsRight, LinesAreRight, LineIsRight
    <3>3. ASSUME NEW n \in journal, n.run = RunOf[m], n.id <= first.id
          PROVE  n.id \in heard'[m]
      <4>1. CASE n.id <= cursor[m]
        BY <1>2, <1>10, <3>3, <4>1 DEF MonitorsAreRight, NothingMissed
      <4>2. CASE n.id > cursor[m]
        <5>1. first.id <= n.id
          BY <1>4, <1>7, <3>3, <4>2
        <5>2. n.id = first.id
          BY <1>3, <1>8, <3>3, <5>1
        <5> QED
          BY <1>10, <5>2
      <4>3. cursor[m] \in Nat /\ n.id \in Nat
        BY <1>3, <1>9, IdsAreNumbers
      <4> QED
        BY <4>1, <4>2, <4>3
    <3>4. NothingMissed(m)'
      BY <1>10, <1>11, <3>2, <3>3 DEF NothingMissed
    <3> QED
      BY <2>2, <3>1, <3>4
  <2> QED
    BY <2>1, <2>2
<1>13. MonitorsAreRight'
  BY <1>9, <1>10, <1>12 DEF MonitorsAreRight
<1> QED
  BY <1>1, <1>13, MonitorMoves
-----------------------------------------------------------------------------
(* The poller. *)
LEMMA PollerMoves ==
  ASSUME NotifyInvariant, PollerIsRight', faults' \in Nat, UNCHANGED <<store, monitors>>
  PROVE  NotifyInvariant'
<1>1. StoreIsRight' /\ StoreGrows /\ MonitorsAreRight
  BY StoreKept DEF NotifyInvariant
<1>2. UNCHANGED <<monitor, cursor, starts, heard>>
  BY DEF monitors
<1>3. MonitorsAreRight'
  BY <1>1, <1>2, MonitorsKept DEF NotifyInvariant, MonitorsAreRight
<1> QED
  BY <1>1, <1>3 DEF NotifyInvariant

(* One tick moves, the others are idle: the poller works on one page.       *)
LEMMA OneTickMoves ==
  ASSUME NotifyInvariant, NEW t \in Tick, \A u \in Tick \ {t} : tick[u].at = "idle",
         NEW next \in [at : {"idle", "request", "push"}, page : SUBSET Note],
         tick' = [tick EXCEPT ![t] = next],
         running' \in BOOLEAN, next.at # "idle" => running',
         next.at = "push" <=> next.page # {},
         lastSeen' \in {0} \cup Id, lastSeen' < nextId,
         \A n \in next.page : lastSeen' < n.id /\ n.id < nextId,
         pushed' \in [Id -> Nat],
         \A n \in Id : pushed'[n] <= 1 /\ (pushed'[n] > 0 => n <= lastSeen'),
         faults' \in Nat, UNCHANGED <<store, monitors>>
  PROVE  NotifyInvariant'
<1>1. /\ tick \in [Tick -> [at : {"idle", "request", "push"}, page : SUBSET Note]]
      /\ \A u \in Tick : TickIsRight(u)
  BY DEF NotifyInvariant, PollerIsRight
<1>2. /\ tick' \in [Tick -> [at : {"idle", "request", "push"}, page : SUBSET Note]]
      /\ tick'[t] = next /\ \A u \in Tick \ {t} : tick'[u] = tick[u]
  BY <1>1
<1>3. nextId' = nextId
  BY DEF store
<1>4. ASSUME NEW u \in Tick PROVE TickIsRight(u)'
  <2>1. CASE u = t
    BY <1>2, <1>3, <2>1 DEF TickIsRight
  <2>2. CASE u # t
    <3>1. tick[u].at = "idle" /\ tick[u].page = {} /\ tick'[u] = tick[u]
      BY <1>1, <1>2, <2>2 DEF TickIsRight
    <3> QED
      BY <3>1 DEF TickIsRight
  <2> QED
    BY <2>1, <2>2
<1>5. \A u, v \in Tick : tick'[u].at # "idle" /\ tick'[v].at # "idle" => u = v
  BY <1>2
<1>6. PollerIsRight'
  BY <1>2, <1>3, <1>4, <1>5 DEF PollerIsRight
<1> QED
  BY <1>6, PollerMoves

LEMMA IntervalFiresNext ==
  ASSUME NotifyInvariant, IntervalFires
  PROVE  NotifyInvariant'
<1>1. PICK t \in Tick : tick[t] = IdleTick /\ t = CHOOSE u \in Tick : tick[u] = IdleTick
  BY DEF IntervalFires
<1>2. /\ ~running /\ running' = TRUE /\ tick' = [tick EXCEPT ![t].at = "request"]
      /\ UNCHANGED <<store, monitors, lastSeen, pushed, faults>>
  BY <1>1 DEF IntervalFires, Busy
<1>3. PollerIsRight /\ faults \in Nat
  BY DEF NotifyInvariant
<1> DEFINE next == [at |-> "request", page |-> {}]
<1>4. tick' = [tick EXCEPT ![t] = next]
  <2>1. tick' = [tick EXCEPT ![t] = [tick[t] EXCEPT !.at = "request"]]
    BY <1>2
  <2>2. tick[t] = [at |-> "idle", page |-> {}]
    BY <1>1 DEF IdleTick
  <2>3. [tick[t] EXCEPT !.at = "request"] = next
    BY <2>2
  <2> QED
    BY <2>1, <2>3
<1>5. \A u \in Tick : tick[u].at = "idle"
  BY <1>2, <1>3 DEF PollerIsRight, TickIsRight
<1>6. /\ next \in [at : {"idle", "request", "push"}, page : SUBSET Note]
      /\ next.at # "push" /\ next.page = {} /\ running' \in BOOLEAN
  BY <1>2
<1>7. /\ lastSeen \in {0} \cup Id /\ lastSeen < nextId /\ pushed \in [Id -> Nat]
      /\ \A n \in Id : pushed[n] <= 1 /\ (pushed[n] > 0 => n <= lastSeen)
  BY <1>3 DEF PollerIsRight
<1> HIDE DEF next
<1> QED
  BY <1>2, <1>3, <1>4, <1>5, <1>6, <1>7, OneTickMoves

(* Where a tick works, it is the only one. *)
LEMMA OnlyTick ==
  ASSUME NotifyInvariant, NEW t \in Tick, tick[t].at # "idle"
  PROVE  /\ \A u \in Tick \ {t} : tick[u].at = "idle"
         /\ tick[t].at \in {"idle", "request", "push"} /\ tick[t].page \in SUBSET Note
         /\ TickIsRight(t)
         /\ lastSeen \in {0} \cup Id /\ lastSeen < nextId /\ pushed \in [Id -> Nat]
         /\ \A n \in Id : pushed[n] <= 1 /\ (pushed[n] > 0 => n <= lastSeen)
         /\ nextId \in Nat /\ lastSeen \in Nat /\ faults \in Nat
<1>1. PollerIsRight /\ StoreIsRight /\ faults \in Nat
  BY DEF NotifyInvariant
<1>2. tick[t] \in [at : {"idle", "request", "push"}, page : SUBSET Note]
  BY <1>1 DEF PollerIsRight
<1>3. nextId \in Nat /\ lastSeen \in Nat
  BY <1>1, RunsAreFinite, IdsAreNumbers DEF StoreIsRight, PollerIsRight
<1>4. \A u \in Tick \ {t} : tick[u].at = "idle"
  BY <1>1 DEF PollerIsRight
<1> QED
  BY <1>1, <1>2, <1>3, <1>4 DEF PollerIsRight

LEMMA NotificationsListedNext ==
  ASSUME NotifyInvariant, NEW t \in Tick, NotificationsListed(t)
  PROVE  NotifyInvariant'
<1> DEFINE page == Unacked(lastSeen)
           next == IF page = {} THEN IdleTick ELSE [at |-> "push", page |-> page]
<1>1. /\ tick[t].at = "request" /\ tick' = [tick EXCEPT ![t] = next]
      /\ running' = (page # {})
      /\ UNCHANGED <<store, monitors, lastSeen, pushed, faults>>
  BY DEF NotificationsListed
<1>2. \A n \in page : n \in journal /\ n.id > lastSeen
  BY DEF Unacked, FirstOf, Matches
<1>3. page \in SUBSET Note
  BY <1>2 DEF NotifyInvariant, StoreIsRight
<1>4. \A n \in page : lastSeen < n.id /\ n.id < nextId
  <2>1. \A n \in page : n.id < nextId
    BY <1>2 DEF NotifyInvariant, StoreIsRight, LinesAreRight, LineIsRight
  <2>2. \A n \in page : n.id \in Nat
    BY <1>3, RunsAreFinite
  <2>3. lastSeen \in Nat
    BY IdsAreNumbers DEF NotifyInvariant, PollerIsRight
  <2> QED
    BY <1>2, <2>1, <2>2, <2>3
<1> HIDE DEF page
<1>5. CASE page = {}
  <2>1. next = [at |-> "idle", page |-> {}]
    BY <1>5 DEF IdleTick
  <2>2. /\ next \in [at : {"idle", "request", "push"}, page : SUBSET Note]
        /\ next.at = "idle" /\ next.page = {}
    BY <2>1
  <2>3. running' \in BOOLEAN
    BY <1>1
  <2> HIDE DEF next
  <2> QED
    BY <1>1, <2>2, <2>3, OnlyTick, OneTickMoves
<1>6. CASE page # {}
  <2>1. next = [at |-> "push", page |-> page]
    BY <1>6
  <2>2. /\ next \in [at : {"idle", "request", "push"}, page : SUBSET Note]
        /\ next.at = "push" /\ next.page = page
    BY <1>3, <2>1
  <2>3. running' \in BOOLEAN /\ running'
    BY <1>1, <1>6
  <2> HIDE DEF next
  <2> QED
    BY <1>1, <1>4, <1>6, <2>2, <2>3, OnlyTick, OneTickMoves
<1> QED
  BY <1>5, <1>6

LEMMA ListingFailsNext ==
  ASSUME NotifyInvariant, NEW t \in Tick, ListingFails(t)
  PROVE  NotifyInvariant'
<1>1. /\ tick[t].at = "request" /\ tick' = [tick EXCEPT ![t] = IdleTick]
      /\ running' = FALSE
      /\ UNCHANGED <<store, monitors, lastSeen, pushed>>
  BY DEF ListingFails, RunningAfterFailure
<1>2. faults' \in Nat
  BY DEF ListingFails, Fault, NotifyInvariant
<1>3. /\ IdleTick \in [at : {"idle", "request", "push"}, page : SUBSET Note]
      /\ IdleTick.at = "idle" /\ IdleTick.page = {}
  BY DEF IdleTick
<1>4. running' \in BOOLEAN
  BY <1>1
<1> QED
  BY <1>1, <1>2, <1>3, <1>4, OnlyTick, OneTickMoves

(* A push is of a number above the cursor, which was never pushed, and it   *)
(* moves the cursor there.                                                  *)
LEMMA PushNotificationNext ==
  ASSUME NotifyInvariant, NEW t \in Tick, PushNotification(t)
  PROVE  NotifyInvariant'
<1> DEFINE page == tick[t].page
           n == First(page).id
           rest == {k \in page : k.id # n}
           next == IF rest = {} THEN IdleTick ELSE [at |-> "push", page |-> rest]
<1>1. /\ tick[t].at = "push" /\ lastSeen' = IF n > lastSeen THEN n ELSE lastSeen
      /\ pushed' = [pushed EXCEPT ![n] = pushed[n] + 1]
      /\ tick' = [tick EXCEPT ![t] = next] /\ running' = (rest # {})
      /\ UNCHANGED <<store, monitors, faults>>
  BY DEF PushNotification
<1>2. /\ \A u \in Tick \ {t} : tick[u].at = "idle"
      /\ page \in SUBSET Note /\ TickIsRight(t)
      /\ lastSeen \in {0} \cup Id /\ lastSeen < nextId /\ pushed \in [Id -> Nat]
      /\ \A i \in Id : pushed[i] <= 1 /\ (pushed[i] > 0 => i <= lastSeen)
      /\ nextId \in Nat /\ lastSeen \in Nat /\ faults \in Nat
  BY <1>1, OnlyTick
<1>3. page # {} /\ \A k \in page : lastSeen < k.id /\ k.id < nextId
  BY <1>1, <1>2 DEF TickIsRight
<1> HIDE DEF page
<1>4. First(page) \in page /\ \A k \in page : n <= k.id
  BY <1>2, <1>3, FirstIsLeast
<1>5. n \in Id /\ n \in Nat /\ lastSeen < n /\ n < nextId
  BY <1>2, <1>3, <1>4, RunsAreFinite
<1> HIDE DEF n
<1>6. lastSeen' = n /\ lastSeen' \in {0} \cup Id /\ lastSeen' < nextId
  BY <1>1, <1>2, <1>5
<1>7. pushed' \in [Id -> Nat] /\ \A i \in Id : pushed'[i] <= 1 /\ (pushed'[i] > 0 => i <= n)
  <2>1. pushed[n] = 0 /\ pushed' = [pushed EXCEPT ![n] = 1]
    <3>1. pushed[n] \in Nat /\ ~(pushed[n] > 0)
      BY <1>2, <1>5
    <3>2. pushed[n] = 0
      BY <3>1
    <3> QED
      BY <1>1, <3>2
  <2>2. pushed' \in [Id -> Nat] /\ pushed'[n] = 1 /\ \A i \in Id \ {n} : pushed'[i] = pushed[i]
    BY <1>2, <1>5, <2>1
  <2>3. ASSUME NEW i \in Id PROVE pushed'[i] <= 1 /\ (pushed'[i] > 0 => i <= n)
    <3>1. i \in Nat
      BY IdsAreNumbers
    <3>2. CASE i = n
      BY <1>5, <2>2, <3>2
    <3>3. CASE i # n
      BY <1>2, <1>5, <2>2, <3>1, <3>3
    <3> QED
      BY <3>2, <3>3
  <2> QED
    BY <2>2, <2>3
<1>8. \A k \in rest : n < k.id /\ k.id < nextId /\ k \in Note
  BY <1>2, <1>3, <1>4, <1>5, RunsAreFinite
<1> HIDE DEF rest
<1>9. CASE rest = {}
  <2>1. next = [at |-> "idle", page |-> {}]
    BY <1>9 DEF IdleTick
  <2>2. /\ next \in [at : {"idle", "request", "push"}, page : SUBSET Note]
        /\ next.at = "idle" /\ next.page = {}
    BY <2>1
  <2>3. running' \in BOOLEAN
    BY <1>1
  <2> HIDE DEF next
  <2> QED
    BY <1>1, <1>2, <1>6, <1>7, <2>2, <2>3, OneTickMoves
<1>10. CASE rest # {}
  <2>1. next = [at |-> "push", page |-> rest]
    BY <1>10
  <2>2. /\ next \in [at : {"idle", "request", "push"}, page : SUBSET Note]
        /\ next.at = "push" /\ next.page = rest
    BY <1>8, <2>1
  <2>3. running' \in BOOLEAN /\ running'
    BY <1>1, <1>10
  <2> HIDE DEF next
  <2>4. next.at = "push" <=> next.page # {}
    BY <1>10, <2>2
  <2>5. \A k \in next.page : lastSeen' < k.id /\ k.id < nextId
    BY <1>6, <1>8, <2>2
  <2>6. \A i \in Id : pushed'[i] <= 1 /\ (pushed'[i] > 0 => i <= lastSeen')
    BY <1>6, <1>7
  <2> QED
    BY <1>1, <1>2, <1>6, <1>7, <2>2, <2>3, <2>4, <2>5, <2>6, OneTickMoves
<1> QED
  BY <1>9, <1>10
-----------------------------------------------------------------------------
(* A kill: what waits for an answer gives up, and the push that is under    *)
(* way goes on.                                                             *)
LEMMA DaemonCrashesNext ==
  ASSUME NotifyInvariant, DaemonCrashes
  PROVE  NotifyInvariant'
<1>1. StoreIsRight /\ MonitorsAreRight /\ PollerIsRight /\ faults \in Nat
  BY DEF NotifyInvariant
<1>2. /\ up' = FALSE /\ faults' = faults + 1
      /\ monitor' = [m \in Monitor |-> IF monitor[m] \in Waiting THEN "DAEMON_UNAVAILABLE"
                                                                 ELSE monitor[m]]
      /\ tick' = [t \in Tick |-> IF tick[t].at = "request" THEN IdleTick ELSE tick[t]]
      /\ running' = \E t \in Tick : tick[t].at = "push"
      /\ UNCHANGED <<status, stage, fatal, journal, nextId, acked, cursor, starts, heard,
                     lastSeen, pushed>>
  BY DEF DaemonCrashes, Fault
<1>3. StoreIsRight'
  <2>1. /\ HasFatal' = HasFatal /\ HasEnd' = HasEnd /\ LinesAreRight'
        /\ \A r \in Run : EndIsRight(r)'
    BY <1>1, <1>2
       DEF HasFatal, HasEnd, Ended, StoreIsRight, LinesAreRight, LineIsRight, EndIsRight
  <2>2. up' \in BOOLEAN
    BY <1>2
  <2> QED
    BY <1>1, <1>2, <2>1, <2>2 DEF StoreIsRight
<1>4. StoreGrows
  BY <1>1, <1>2, RunsAreFinite DEF StoreGrows, StoreIsRight, Ended
<1>5. MonitorsAreRight'
  <2>1. monitor' \in [Monitor -> {"idle"} \cup Waiting \cup ExitCodes]
    BY <1>1, <1>2 DEF MonitorsAreRight, ExitCodes
  <2>2. \A m \in Monitor : monitor'[m] # monitor[m] =>
          monitor'[m] \notin TerminalCodes \cup {"FATAL_ERROR"}
    BY <1>2 DEF TerminalCodes
  <2>3. starts' \in [Monitor -> 0..MaxStart]
    BY <1>1, <1>2 DEF MonitorsAreRight
  <2> QED
    BY <1>1, <1>2, <1>4, <2>1, <2>2, <2>3, MonitorsKept
<1>6. PollerIsRight'
  <2>1. \A t \in Tick : /\ tick[t] \in [at : {"idle", "request", "push"}, page : SUBSET Note]
                        /\ TickIsRight(t)
    BY <1>1 DEF PollerIsRight
  <2>2. IdleTick \in [at : {"idle", "request", "push"}, page : SUBSET Note]
        /\ IdleTick.at = "idle" /\ IdleTick.page = {}
    BY DEF IdleTick
  <2>3. \A t \in Tick :
          \/ tick[t].at = "request" /\ tick'[t] = IdleTick
          \/ tick[t].at # "request" /\ tick'[t] = tick[t]
    BY <1>2
  <2>4. tick' \in [Tick -> [at : {"idle", "request", "push"}, page : SUBSET Note]]
    BY <1>2, <2>1, <2>2
  <2>5. \A t, u \in Tick : tick'[t].at # "idle" /\ tick'[u].at # "idle" => t = u
    BY <1>1, <2>2, <2>3 DEF PollerIsRight
  <2>6. ASSUME NEW t \in Tick PROVE TickIsRight(t)'
    <3>1. CASE tick'[t] = IdleTick
      BY <2>2, <3>1 DEF TickIsRight
    <3>2. CASE tick[t].at # "request" /\ tick'[t] = tick[t]
      <4>1. tick[t].at # "idle" => running'
        BY <1>2, <2>1, <3>2
      <4> QED
        BY <1>2, <2>1, <3>2, <4>1 DEF TickIsRight
    <3> QED
      BY <2>3, <3>1, <3>2
  <2>7. running' \in BOOLEAN
    BY <1>2
  <2>8. /\ lastSeen' \in {0} \cup Id /\ pushed' \in [Id -> Nat] /\ lastSeen' < nextId'
        /\ \A n \in Id : pushed'[n] <= 1 /\ (pushed'[n] > 0 => n <= lastSeen')
    BY <1>1, <1>2 DEF PollerIsRight
  <2> QED
    BY <2>4, <2>5, <2>6, <2>7, <2>8 DEF PollerIsRight
<1> QED
  BY <1>1, <1>2, <1>3, <1>5, <1>6 DEF NotifyInvariant
-----------------------------------------------------------------------------
LEMMA NotifyNextKeeps ==
  ASSUME NotifyInvariant, [NotifyNext]_notifyVars
  PROVE  NotifyInvariant'
<1>1. ASSUME NEW r \in Run, RunStep(r) PROVE NotifyInvariant'
  BY <1>1, FatalErrorNext, AnnounceFatalNext, AnnounceTerminalNext, PruneRunNext,
     OrphanRunNext, WriteMetaNext DEF RunStep
<1>2. ASSUME NEW m \in Monitor, StartMonitor(m) \/ MonitorStep(m) PROVE NotifyInvariant'
  BY <1>2, StartMonitorNext, EnsureRunExistsNext, WaitForAnyRunNext DEF MonitorStep
<1>3. ASSUME NEW t \in Tick, TickStep(t) \/ ListingFails(t) PROVE NotifyInvariant'
  BY <1>3, NotificationsListedNext, PushNotificationNext, ListingFailsNext DEF TickStep
<1>4. CASE UNCHANGED notifyVars
  <2>1. UNCHANGED <<store, monitors, poller, faults>>
    BY <1>4 DEF notifyVars
  <2>2. StoreIsRight' /\ StoreGrows
    BY <2>1, StoreKept DEF NotifyInvariant
  <2> QED
    BY <2>1, <2>2, StoreMoves
<1> QED
  BY <1>1, <1>2, <1>3, <1>4, AckNext, IntervalFiresNext, DaemonCrashesNext, ListensNext
     DEF NotifyNext

(* What a line of the journal says of a run is so, every number is given    *)
(* once and to one line, and the ticks of the poller do not overlap.        *)
THEOREM DeliveryInvariance == NotifySpec => []NotifyInvariant
<1>1. NotifyInit => NotifyInvariant
  BY NotifyStarts
<1>2. NotifyInvariant /\ [NotifyNext]_notifyVars => NotifyInvariant'
  BY NotifyNextKeeps
<1> QED
  BY <1>1, <1>2, PTL DEF NotifySpec

(* For any number of runs, monitors and ticks, pages of any length and any  *)
(* kills: a monitor that goes on from what it was told misses no line of    *)
(* its run, its exit code is the outcome in meta.json, and the poller tries *)
(* to push a notification once at most (listNotifications, waitForAnyRun,   *)
(* monitorCli.ts and createNotificationPushTick).                           *)
THEOREM DeliveryIsAlwaysExact == NotifySpec => []DeliveryIsExact
<1>1. NotifyInvariant => DeliveryIsExact
  <2> SUFFICES ASSUME NotifyInvariant PROVE DeliveryIsExact
    OBVIOUS
  <2>1. StoreIsRight /\ MonitorsAreRight /\ PollerIsRight /\ faults \in Nat
    BY DEF NotifyInvariant
  <2>2. NotifyTypeOK
    <3>1. \A t \in Tick : tick[t].at \in {"idle", "request", "push"} /\ tick[t].page \subseteq Note
      BY <2>1 DEF PollerIsRight
    <3> QED
      BY <2>1, <3>1 DEF NotifyTypeOK, StoreIsRight, MonitorsAreRight, PollerIsRight, Stage
  <2>3. MonitorsMissNothing
    BY <2>1 DEF MonitorsMissNothing, MonitorsAreRight, NothingMissed
  <2>4. ExitCodeIsTheOutcome
    BY <2>1 DEF ExitCodeIsTheOutcome, MonitorsAreRight, ExitIsRight
  <2>5. PushedAtMostOnce
    BY <2>1 DEF PushedAtMostOnce, PollerIsRight
  <2> QED
    BY <2>2, <2>3, <2>4, <2>5 DEF DeliveryIsExact
<1> QED
  BY <1>1, DeliveryInvariance, PTL
=============================================================================
