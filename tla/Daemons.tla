------------------------------ MODULE Daemons ------------------------------
(***************************************************************************)
(* Who serves a store: MCP frontends and the CLI ping the socket, spawn a  *)
(* daemon when nobody answers, and ask it to stop.  A daemon takes the pid *)
(* file, removes a socket left behind, orphans the runs it finds running   *)
(* and listens.  On exit it removes its pid file and the socket.           *)
(*                                                                         *)
(* Simplifications: POSIX, one uid; a process id is not used again; a file *)
(* is known by the daemon that created it, so that a write through an open *)
(* descriptor does not reach a file that replaced it; a daemon manages one *)
(* run at a time; the data of a request is left out.                       *)
(***************************************************************************)
EXTENDS Naturals, FiniteSets

CONSTANTS
  Daemon,      \* daemon processes, each started at most once
  Client,      \* frontends and CLI commands
  VersionOf,   \* package version of a client, a function
  NoFile,
  MaxTrouble,  \* bound: kills, signals, and pings too slow for their timeout
  MaxAsk       \* bound: what the clients ask for, together

Goal == {"call", "start", "stop", "stop_force", "restart", "restart_force"}

ASSUME DaemonsAssumption ==
  /\ NoFile \notin Daemon \cup [by : Daemon, written : BOOLEAN]
  /\ DOMAIN VersionOf = Client
  /\ MaxTrouble \in Nat /\ MaxAsk \in Nat

VARIABLES
  pidFile,   \* daemon.pid: who created it, and whether the pid is in it
  socket,    \* daemon.sock: who bound it
  daemon,    \* where each daemon is
  version,   \* package version of each daemon, NoFile before it is spawned
  run,       \* on disk: the run of each daemon
  client,    \* where each client is, and what for
  overlap,   \* history: two daemons were coming or going at once
  refused,   \* history: a daemon found another's pid file and gave up
  troubles, asks

files == <<pidFile, socket>>
bounds == <<troubles, asks>>
history == <<overlap, refused>>
daemonsVars == <<files, daemon, version, run, client, history, bounds>>

Idle == [at |-> "idle", for |-> "nothing"]
Booting == {"open", "read_pid", "unlink_pid", "reopen", "write_pid",
            "clean_socket", "initialize", "listen"}
Serving == {"up", "stopping", "leaving"}
Exiting == {"exit_pid", "exit_socket"}
Alive(d) == daemon[d] \in Booting \cup Serving \cup Exiting

DaemonsTypeOK ==
  /\ pidFile \in [by : Daemon, written : BOOLEAN] \cup {NoFile}
  /\ socket \in Daemon \cup {NoFile}
  /\ daemon \in [Daemon -> {"none", "dead", "killed"} \cup Booting \cup Serving \cup Exiting]
  /\ version \in [Daemon -> {VersionOf[c] : c \in Client} \cup {NoFile}]
  /\ run \in [Daemon -> {"none", "running", "ended", "orphaned"}]
  /\ client \in [Client -> [at : {"ping", "request", "shutdown", "await_stop", "poll"},
                            for : Goal] \cup {Idle}]
  /\ overlap \in BOOLEAN /\ refused \in BOOLEAN
  /\ troubles \in Nat /\ asks \in Nat

DaemonsInit ==
  /\ pidFile = NoFile
  /\ socket = NoFile
  /\ daemon = [d \in Daemon |-> "none"]
  /\ version = [d \in Daemon |-> NoFile]
  /\ run = [d \in Daemon |-> "none"]
  /\ client = [c \in Client |-> Idle]
  /\ overlap = FALSE /\ refused = FALSE
  /\ troubles = 0 /\ asks = 0

Answers(d) == socket = d /\ daemon[d] \in Serving
Reachable == \E d \in Daemon : Answers(d)
Goes(d, from, to) == daemon[d] = from /\ daemon' = [daemon EXCEPT ![d] = to]
clients == <<client, asks>>
-----------------------------------------------------------------------------
(* acquirePidFile: open exclusively, else look who holds it. *)
OpenPidFile(d) ==
  /\ IF pidFile = NoFile
     THEN /\ pidFile' = [by |-> d, written |-> FALSE]
          /\ Goes(d, "open", "write_pid")
     ELSE Goes(d, "open", "read_pid") /\ UNCHANGED pidFile
  /\ UNCHANGED <<socket, version, run, refused>>

(* A pid file is in force when the process it names is alive; an empty one *)
(* names none.                                                             *)
IgnoredPidFile == FALSE
LivePidFile == pidFile # NoFile /\ pidFile.written /\ Alive(pidFile.by)

ReadPidFile(d) ==
  /\ IF LivePidFile
     THEN Goes(d, "read_pid", "exit_pid") /\ refused' = TRUE
     ELSE Goes(d, "read_pid", "unlink_pid") /\ UNCHANGED refused
  /\ UNCHANGED <<files, version, run>>

UnlinkPidFile(d) ==
  /\ IF pidFile = NoFile
     THEN Goes(d, "unlink_pid", "exit_pid") /\ UNCHANGED pidFile
     ELSE Goes(d, "unlink_pid", "reopen") /\ pidFile' = NoFile
  /\ UNCHANGED <<socket, version, run, refused>>

ReopenPidFile(d) ==
  /\ IF pidFile = NoFile
     THEN /\ pidFile' = [by |-> d, written |-> FALSE]
          /\ Goes(d, "reopen", "write_pid")
     ELSE Goes(d, "reopen", "exit_pid") /\ UNCHANGED pidFile
  /\ UNCHANGED <<socket, version, run, refused>>

(* The pid goes to the file that was opened, wherever it is by now. *)
WritePid(d) ==
  /\ Goes(d, "write_pid", "clean_socket")
  /\ pidFile' = IF pidFile # NoFile /\ pidFile.by = d
                THEN [pidFile EXCEPT !.written = TRUE] ELSE pidFile
  /\ UNCHANGED <<socket, version, run, refused>>

(* cleanupIpcEndpoint *)
SocketKept == socket
SocketRemoved == NoFile
CleanSocket(d) ==
  /\ Goes(d, "clean_socket", "initialize")
  /\ socket' = SocketRemoved
  /\ UNCHANGED <<pidFile, version, run, refused>>

(* orphanRunningRuns *)
NotOrphaned(status) == status
Orphaned(status) == IF status = "running" THEN "orphaned" ELSE status
InitializeService(d) ==
  /\ Goes(d, "initialize", "listen")
  /\ run' = [e \in Daemon |-> Orphaned(run[e])]
  /\ UNCHANGED <<files, version, refused>>

(* IpcServer.listen; an address in use ends the daemon. *)
Listen(d) ==
  /\ IF socket = NoFile
     THEN Goes(d, "listen", "up") /\ socket' = d
     ELSE Goes(d, "listen", "exit_pid") /\ UNCHANGED socket
  /\ UNCHANGED <<pidFile, version, run, refused>>

(* The run in progress comes to its end. *)
EndRun(d) ==
  /\ daemon[d] \in {"up", "stopping"} /\ run[d] = "running"
  /\ run' = [run EXCEPT ![d] = "ended"]
  /\ UNCHANGED <<files, daemon, version, refused>>

(* OrchestratorService.shutdown waits for the runs and schedules the exit; *)
(* SIGTERM and SIGINT force it.                                            *)
Terminate(d) ==
  /\ Goes(d, "up", "stopping")
  /\ UNCHANGED <<files, version, run, refused>>

FinishShutdownClosing(d) ==
  Goes(d, "stopping", "leaving") /\ socket' = NoFile
    /\ UNCHANGED <<pidFile, version, run, refused>>
FinishShutdown(d) ==
  /\ run[d] # "running"
  /\ Goes(d, "stopping", "leaving")
  /\ UNCHANGED <<files, version, run, refused>>

ScheduledExit(d) ==
  /\ Goes(d, "leaving", "exit_pid")
  /\ UNCHANGED <<files, version, run, refused>>

(* The handler of 'exit', also of a daemon that never listened: its own    *)
(* pid file goes, and the socket, whoever bound it.                        *)
OwnPidFile(d) == pidFile # NoFile /\ pidFile.written /\ pidFile.by = d
ExitPidFile(d) ==
  /\ Goes(d, "exit_pid", "exit_socket")
  /\ pidFile' = IF OwnPidFile(d) THEN NoFile ELSE pidFile
  /\ UNCHANGED <<socket, version, run, refused>>

ExitSocket(d) ==
  /\ Goes(d, "exit_socket", "dead")
  /\ socket' = NoFile
  /\ UNCHANGED <<pidFile, version, run, refused>>

DaemonStep(d) ==
  /\ \/ OpenPidFile(d) \/ ReadPidFile(d) \/ UnlinkPidFile(d) \/ ReopenPidFile(d)
     \/ WritePid(d) \/ CleanSocket(d) \/ InitializeService(d) \/ Listen(d)
     \/ EndRun(d) \/ FinishShutdown(d) \/ ScheduledExit(d)
     \/ ExitPidFile(d) \/ ExitSocket(d)
  /\ UNCHANGED <<clients, troubles>>

Trouble == troubles < MaxTrouble /\ troubles' = troubles + 1

Kill(d) ==
  /\ Alive(d)
  /\ daemon' = [daemon EXCEPT ![d] = "killed"]
  /\ Trouble
  /\ UNCHANGED <<files, version, run, clients, refused>>

Signal(d) == Terminate(d) /\ Trouble /\ UNCHANGED <<clients>>
-----------------------------------------------------------------------------
(* Clients. *)
At(c, at) == client[c].at = at
Moves(c, at) == client' = [client EXCEPT ![c].at = at]
Done(c) == client' = [client EXCEPT ![c] = Idle]

Restarts(c) == client[c].for \in {"restart", "restart_force"}
Forces(c) == client[c].for \in {"stop_force", "restart_force"}

Ask(c, goal) ==
  /\ client[c] = Idle /\ asks < MaxAsk
  /\ client' = [client EXCEPT ![c] =
       [at |-> IF goal \in {"stop", "stop_force"} THEN "shutdown" ELSE "ping", for |-> goal]]
  /\ asks' = asks + 1
  /\ UNCHANGED <<files, daemon, version, run, refused, troubles>>

(* What a client does with the daemon that answered: a tool call wants its *)
(* own version, start is done, restart first stops it.                     *)
PingAnswered(c) ==
  /\ At(c, "ping") \/ At(c, "poll")
  /\ \E d \in Daemon :
       /\ Answers(d)
       /\ CASE client[c].for = "call" /\ version[d] = VersionOf[c] -> Moves(c, "request")
            [] Restarts(c) -> Moves(c, "shutdown")
            [] OTHER -> Done(c)
  /\ UNCHANGED <<files, daemon, version, run, refused, bounds>>

(* restart goes over to start, which pings again. *)
StartsAgain(c) == client' = [client EXCEPT ![c] = [at |-> "ping", for |-> "start"]]

Spawn(c) ==
  /\ \E d \in Daemon : daemon[d] = "none"
  /\ LET d == CHOOSE d \in Daemon : daemon[d] = "none"
     IN  /\ daemon' = [daemon EXCEPT ![d] = "open"]
         /\ version' = [version EXCEPT ![d] = VersionOf[c]]
  /\ Moves(c, "poll")

(* Nobody answered, or not in time. *)
PingFailed(c) ==
  /\ At(c, "ping")
  /\ \/ ~Reachable /\ UNCHANGED troubles
     \/ Reachable /\ Trouble
  /\ IF Restarts(c)
     THEN StartsAgain(c) /\ UNCHANGED <<daemon, version>>
     ELSE Spawn(c)
  /\ UNCHANGED <<files, run, refused, asks>>

(* validateRpcRequest: only ping and shutdown cross versions. *)
Accepts(d, c) == version[d] = VersionOf[c]

Call(c) ==
  /\ At(c, "request")
  /\ Done(c)
  /\ IF \E d \in Daemon : Answers(d) /\ Accepts(d, c)
     THEN \E d \in Daemon :
            /\ Answers(d) /\ Accepts(d, c)
            /\ run' \in {run, [run EXCEPT ![d] = "running"]}
     ELSE UNCHANGED run
  /\ UNCHANGED <<files, daemon, version, refused, bounds>>

(* The shutdown request is refused over an active run unless it is forced. *)
RefusesStop(c, d) == run[d] = "running" /\ ~Forces(c)

Shutdown(c) ==
  /\ At(c, "shutdown")
  /\ \/ ~Reachable /\ Done(c) /\ UNCHANGED daemon
     \/ \E d \in Daemon :
          /\ Answers(d)
          /\ IF RefusesStop(c, d)
             THEN Done(c) /\ UNCHANGED daemon
             ELSE /\ daemon' = [daemon EXCEPT ![d] =
                                 IF @ = "up" THEN "stopping" ELSE @]
                  /\ IF Restarts(c) THEN Moves(c, "await_stop") ELSE Done(c)
  /\ UNCHANGED <<files, version, run, refused, bounds>>

WaitedForStop(c) ==
  /\ ~Reachable
  /\ At(c, "await_stop")
  /\ StartsAgain(c)
  /\ UNCHANGED <<files, daemon, version, run, refused, bounds>>

GiveUp(c) ==
  /\ At(c, "poll") \/ At(c, "await_stop")
  /\ Done(c)
  /\ UNCHANGED <<files, daemon, version, run, refused, bounds>>

ClientStep(c) ==
  \/ \E goal \in Goal : Ask(c, goal)
  \/ PingAnswered(c) \/ PingFailed(c) \/ Call(c)
  \/ Shutdown(c) \/ WaitedForStop(c) \/ GiveUp(c)

ComingOrGoing(d) == daemon[d] \in (Booting \cup Exiting \cup Serving) \ {"up"}

OverlapNoted ==
  overlap' = \/ overlap
             \/ \E d, e \in Daemon :
                   d # e /\ ComingOrGoing(d)' /\ ComingOrGoing(e)'

DaemonsNext ==
  /\ \/ \E d \in Daemon : DaemonStep(d) \/ Kill(d) \/ Signal(d)
     \/ \E c \in Client : ClientStep(c)
  /\ OverlapNoted

DaemonsSpec == DaemonsInit /\ [][DaemonsNext]_daemonsVars

(* A daemon that was spawned goes on booting, and one that stops goes on   *)
(* stopping; a run ends, as its timers see to.                             *)
DaemonsFairSpec ==
  DaemonsSpec /\ \A d \in Daemon : WF_daemonsVars(DaemonStep(d) /\ OverlapNoted)
-----------------------------------------------------------------------------
(* The pid file keeps a second daemon from serving the store, and is still *)
(* the running daemon's own when others have come and been turned away.    *)
OneDaemonServes ==
  ~overlap => \A d \in Daemon : daemon[d] = "up" =>
    /\ pidFile = [by |-> d, written |-> TRUE]
    /\ \A e \in Daemon \ {d} : daemon[e] \notin Serving

(* Whoever listens can be reached, unless a daemon that was turned away    *)
(* took the socket with it.                                                *)
ServingDaemonIsReachable ==
  ~overlap /\ ~refused => \A d \in Daemon : daemon[d] \in Serving => socket = d

(* A daemon that listens owns every run that is still marked running: what *)
(* its predecessors left running is orphaned by then (README 510).         *)
RunningRunsAreOwned ==
  ~overlap => \A d, e \in Daemon : daemon[d] = "up" /\ run[e] = "running" => e = d

(* Whatever files a kill left behind, the next daemon comes up: no stale   *)
(* pid file or socket stands in its way, if it is left alone meanwhile.    *)
StaleFilesDoNotBlock ==
  \A d \in Daemon :
    daemon[d] = "open" /\ (\A e \in Daemon \ {d} : ~Alive(e))
      ~> daemon[d] \in {"up", "killed"} \/ overlap
=============================================================================
