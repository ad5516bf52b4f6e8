------------------------------ MODULE Rotation ------------------------------
(***************************************************************************)
(* Claude accounts: a run that ends at a rate limit is followed up on the  *)
(* next healthy account of its priority list.  The registry of accounts    *)
(* (accounts.json) is read, changed and renamed into place under a lock    *)
(* that is a chain of promises, so the CLI, another process, is not held   *)
(* by it.  Which accounts the follow-ups of a parent were given is kept in *)
(* memory behind a second such chain, one per parent, and is read back     *)
(* from the runs on disk after a restart.                                  *)
(*                                                                         *)
(* Simplifications: accounts.json is well formed and of this version; all  *)
(* runs carry the rotation state of one start_run with a priority list;    *)
(* an account that is listed has its secret or config directory; time is a *)
(* counter; a run names the session that it starts afresh; a session file  *)
(* is the set of runs that wrote a turn into it; a run that the restarted  *)
(* daemon orphans is ended by the crash.  WorkerResult has what a worker's *)
(* end is recorded as.                                                     *)
(*                                                                         *)
(* A copy of a session looks for a target, reads the source and renames in *)
(* separate steps, and the picker's lock is one parent's only: follow-ups  *)
(* of different parents may copy one session to one account at a time.     *)
(***************************************************************************)
EXTENDS WorkerResult, FiniteSets

CONSTANTS
  Run,        \* the run of start_run and the runs of the follow-ups
  Root,       \* the run of start_run
  Account,
  Priority,   \* the priority list, a sequence of accounts
  None,       \* no run, no account
  Home,       \* where workers with an API key keep their sessions
  Cooldown,   \* claude_cooldown_seconds
  MaxTime,    \* bound: the clock
  Follows,    \* bound: pairs of a follow-up and a run that it may follow
  MaxSign,    \* bound: errors reported by and stops sent to a worker
  Touched,    \* bound: the accounts that the CLI writes
  MaxTrouble, \* bound: failing writes and scans of the run store, commands
              \* of the CLI that write the registry, and kills of the daemon
  MaxTroubled \* bound: the calls made where there is such trouble

ASSUME RotationAssumption ==
  /\ Root \in Run
  /\ Priority \in Seq(Account)
  /\ Touched \subseteq Account /\ Follows \subseteq Run \X Run
  /\ None \notin Run \cup Account /\ Home \notin Account
  /\ Cooldown \in Nat \ {0}
  /\ MaxTime \in Nat /\ MaxSign \in Nat /\ MaxTrouble \in Nat /\ MaxTroubled \in Nat

VARIABLES
  meta,      \* meta.json of every run
  registry,  \* accounts.json
  files,     \* session files: at a place, of a session, the runs in it
  call,      \* start_run and send_followup: progress and local variables
  queue,     \* the picker's lock of a parent: its calls, the holder first
  claimed,   \* accounts given to the follow-ups of a parent, in memory
  rebuilt,   \* parents whose claims were read back from disk
  writers,   \* the registry's lock: pending cooldown marks, the holder first
  cli,       \* the CLI command that is running
  now,
  lost,      \* history: a claim missed the memory, or was dropped from it
  overtaken, \* history: session files that another call has copied while a
             \* call that had found none was copying too
  faults, clis, crashes

disk == <<meta, registry, files>>
memory == <<call, queue, claimed, rebuilt, writers>>
bounds == <<faults, clis, crashes>>
history == <<lost, overtaken>>
rotationVars == <<disk, memory, cli, now, history, bounds>>

Place == Account \cup {Home}
Session == Run \cup {None}
Step == {"idle", "queued", "cooling", "copying", "reading", "renaming", "creating",
         "recording", "spawning", "working", "settled", "over"}
Marker == {"none", "resumed", "fresh"}
AccountEntry == [listed : BOOLEAN, api : BOOLEAN, until : Nat]
NoSnapshot == <<>>
NoCli == [op |-> "none"]

Absent == [status |-> "absent", parent |-> None, account |-> None,
           rotated |-> FALSE, session |-> None, requested |-> None,
           error |-> "none", marker |-> "none"]
Idle == [pc |-> "idle", parent |-> None, account |-> None, place |-> Home,
         rotates |-> FALSE, session |-> None, marker |-> "none", seen |-> {}]

RotationTypeOK ==
  /\ meta \in [Run -> [status : {"absent", "running", "terminal"},
                       parent : Session, account : Account \cup {None},
                       rotated : BOOLEAN, session : Session, requested : Session,
                       error : {"none", "limit", "other"}, marker : Marker]]
  /\ registry \in [Account -> AccountEntry]
  /\ files \in [Place -> [Run -> SUBSET Run]]
  /\ call \in [Run -> [pc : Step, parent : Session, account : Account \cup {None},
                       place : Place, rotates : BOOLEAN, session : Session,
                       marker : Marker, seen : SUBSET Run]]
  /\ queue \in [Run -> Seq(Run)]
  /\ claimed \in [Run -> SUBSET Account]
  /\ rebuilt \in SUBSET Run
  /\ writers \in Seq([by : Run, account : Account,
                      seen : [Account -> AccountEntry] \cup {NoSnapshot}])
  /\ now \in Nat /\ lost \in BOOLEAN /\ overtaken \in SUBSET (Place \X Run)
  /\ faults \in Nat /\ clis \in Nat /\ crashes \in Nat

RotationInit ==
  /\ meta = [r \in Run |-> Absent]
  /\ registry = [a \in Account |-> [listed |-> TRUE, api |-> FALSE, until |-> 0]]
  /\ files = [p \in Place |-> [s \in Run |-> {}]]
  /\ call = [r \in Run |-> Idle]
  /\ queue = [r \in Run |-> <<>>]
  /\ claimed = [r \in Run |-> {}]
  /\ rebuilt = {}
  /\ writers = <<>>
  /\ cli = NoCli
  /\ now = 0
  /\ lost = FALSE /\ overtaken = {}
  /\ faults = 0 /\ clis = 0 /\ crashes = 0
-----------------------------------------------------------------------------
(* Accounts. *)

CooledDown(a) == registry[a].until > now

(* pickHealthyAccount: the first account of the list that is not passed    *)
(* over, is registered and is not cooled down; None when there is none.    *)
Healthy(a, passed) == a \notin passed /\ registry[a].listed /\ ~CooledDown(a)
PickHealthyAccount(passed) ==
  LET fit == {i \in DOMAIN Priority : Healthy(Priority[i], passed)}
  IN  IF fit = {} THEN None
      ELSE Priority[CHOOSE i \in fit : \A j \in fit : i <= j]

(* resolveAccountSpawn: a worker with an API key runs without a config     *)
(* directory of its own.                                                   *)
SpawnPlace(a) == IF registry[a].api THEN Home ELSE a

(* readRotationState and latest_error decide whether a follow-up rotates.  *)
Rotates(p) == meta[p].error = "limit"

(* The accounts of the rotated children that are on disk. *)
ChildrenOf(p) == {c \in Run : meta[c].status # "absent" /\ meta[c].parent = p
                               /\ meta[c].rotated}
ClaimedDestinations(p) == {meta[c].account : c \in ChildrenOf(p)}

Calls == Cardinality({r \in Run : call[r].pc # "idle"})
MayFollow(f, p) == /\ <<f, p>> \in Follows
                   /\ faults + clis + crashes = 0 \/ Calls < MaxTroubled
Trouble == faults + clis + crashes < MaxTrouble /\ Calls <= MaxTroubled
Faulty == Trouble /\ faults' = faults + 1
Release(p) == queue' = [queue EXCEPT ![p] = Tail(@)]
Goto(r, step) == call' = [call EXCEPT ![r].pc = step]
HoldsAnyhow(r) == call[r].parent # None /\ queue[call[r].parent] # <<>>
Holds(r) == call[r].parent # None /\ queue[call[r].parent] # <<>>
            /\ Head(queue[call[r].parent]) = r
FailsLocked(r) == Goto(r, "over") /\ UNCHANGED queue
Fails(r) ==
  /\ Goto(r, "over")
  /\ IF call[r].rotates THEN Release(call[r].parent) ELSE UNCHANGED queue
-----------------------------------------------------------------------------
(* start_run with a priority list: every name must be registered. *)
StartRun ==
  /\ call[Root].pc = "idle"
  /\ \A i \in DOMAIN Priority : registry[Priority[i]].listed
  /\ LET a == PickHealthyAccount({})
     IN  /\ a # None
         /\ call' = [call EXCEPT ![Root].pc = "creating", ![Root].account = a,
                                 ![Root].place = SpawnPlace(a)]
  /\ UNCHANGED <<disk, queue, claimed, rebuilt, writers, cli, now, history, bounds>>

(* A follow-up of a run that did not end at a limit resumes its session on *)
(* its own account, which must still be registered.                        *)
PlainFollowUp(f, p) ==
  LET a == meta[p].account
  IN  /\ call[f].pc = "idle" /\ f # Root /\ MayFollow(f, p)
      /\ meta[p].status = "terminal" /\ ~Rotates(p)
      /\ meta[p].session # None
      /\ registry[a].listed
      /\ call' = [call EXCEPT ![f] = [@ EXCEPT !.pc = "creating", !.parent = p,
                    !.account = a, !.place = SpawnPlace(a),
                    !.session = meta[p].session]]
      /\ UNCHANGED <<disk, queue, claimed, rebuilt, writers, cli, now, history, bounds>>

(* Otherwise it waits for the picker's lock of its parent. *)
RotatingFollowUp(f, p) ==
  /\ call[f].pc = "idle" /\ f # Root /\ MayFollow(f, p)
  /\ meta[p].status = "terminal" /\ Rotates(p)
  /\ call' = [call EXCEPT ![f].pc = "queued", ![f].parent = p, ![f].rotates = TRUE]
  /\ queue' = [queue EXCEPT ![p] = Append(@, f)]
  /\ UNCHANGED <<disk, claimed, rebuilt, writers, cli, now, history, bounds>>

(* The claims as the holder of the lock finds them; a scan of the run      *)
(* store that fails leaves them empty for good.                            *)
RebuildClaims(p) ==
  IF p \in rebuilt
  THEN UNCHANGED <<claimed, rebuilt, lost, faults>>
  ELSE /\ rebuilt' = rebuilt \cup {p}
       /\ \/ /\ claimed' = [claimed EXCEPT ![p] = ClaimedDestinations(p)]
             /\ UNCHANGED <<lost, faults>>
          \/ /\ Faulty
             /\ claimed' = [claimed EXCEPT ![p] = {}]
             /\ lost' = (lost \/ ClaimedDestinations(p) # {})

Passed(p) == claimed'[p] \cup {meta[p].account}

PickAccount(f) ==
  LET p == call[f].parent
  IN  /\ call[f].pc = "queued" /\ Holds(f)
      /\ RebuildClaims(p)
      /\ LET a == PickHealthyAccount(Passed(p))
         IN  IF a = None
             THEN Fails(f) /\ UNCHANGED writers
             ELSE /\ call' = [call EXCEPT ![f].pc = "cooling", ![f].account = a,
                                          ![f].place = SpawnPlace(a)]
                  /\ writers' = Append(writers, [by |-> f, seen |-> NoSnapshot,
                                                 account |-> meta[p].account])
                  /\ UNCHANGED queue
      /\ UNCHANGED <<disk, cli, now, overtaken, clis, crashes>>
-----------------------------------------------------------------------------
HoldsRegistry(i) == i = 1

(* markAccountCooledDown: read, then write and rename, under the lock. *)
MarkRead(i) ==
  /\ HoldsRegistry(i)
  /\ writers[i].seen = NoSnapshot
  /\ writers' = [writers EXCEPT ![i].seen = registry]
  /\ UNCHANGED <<disk, call, queue, claimed, rebuilt, cli, now, history, bounds>>

WithoutWriter(i) ==
  [j \in 1..(Len(writers) - 1) |-> IF j < i THEN writers[j] ELSE writers[j + 1]]

(* A failing write is logged, and the follow-up goes on. *)
MarkWrite(i) ==
  LET w == writers[i]
  IN  /\ w.seen # NoSnapshot
      /\ \/ /\ registry' = IF w.seen[w.account].listed
                            THEN [w.seen EXCEPT ![w.account].until = now + Cooldown]
                            ELSE registry
            /\ UNCHANGED faults
         \/ Faulty /\ UNCHANGED registry
      /\ writers' = WithoutWriter(i)
      /\ call' = IF call[w.by].pc = "cooling"
                 THEN [call EXCEPT ![w.by].pc = "copying"] ELSE call
      /\ UNCHANGED <<meta, files, queue, claimed, rebuilt, cli, now, history,
                     clis, crashes>>

(* auth login, auth set and auth remove, each in a process of its own,     *)
(* read the registry and write what they read, with their change.          *)
CliRead(op, a) ==
  /\ Trouble /\ cli = NoCli
  /\ clis' = clis + 1
  /\ cli' = [op |-> op, account |-> a, seen |-> registry]
  /\ UNCHANGED <<disk, memory, now, history, faults, crashes>>

Login(a) == CliRead("login", a)
SetKey(a) == CliRead("set", a)
RemoveAccount(a) == registry[a].listed /\ CliRead("remove", a)

Upserted(api) == [listed |-> TRUE, api |-> api, until |-> 0]
Removed(entry) == [entry EXCEPT !.listed = FALSE, !.api = FALSE, !.until = 0]

CliWrite ==
  /\ cli # NoCli /\ cli.op # "delete"
  /\ registry' = [cli.seen EXCEPT ![cli.account] =
                    CASE cli.op = "login"  -> Upserted(FALSE)
                      [] cli.op = "set"    -> Upserted(TRUE)
                      [] cli.op = "remove" -> Removed(@)]
  /\ cli' \in {NoCli} \cup
       IF cli.op = "remove" /\ ~cli.seen[cli.account].api
       THEN {[op |-> "delete", account |-> cli.account]} ELSE {}
  /\ UNCHANGED <<meta, files, memory, now, history, bounds>>

(* --delete-config-dir, with the file that a copy is about to rename. *)
DeleteConfigDir ==
  /\ cli # NoCli /\ cli.op = "delete"
  /\ files' = [files EXCEPT ![cli.account] = [s \in Run |-> {}]]
  /\ call' = [r \in Run |->
                IF call[r].pc = "renaming" /\ call[r].account = cli.account
                THEN [call[r] EXCEPT !.seen = {}] ELSE call[r]]
  /\ cli' = NoCli
  /\ UNCHANGED <<meta, registry, queue, claimed, rebuilt, writers, now, history, bounds>>
-----------------------------------------------------------------------------
(* copySessionJsonlForRotation, from the account that hit the limit. *)
Source(f) == meta[call[f].parent].account
Conversation(f) == meta[call[f].parent].session
SourceFile(f) == files[Source(f)][Conversation(f)]

CopiesNothing == UNCHANGED <<files, overtaken>>
StartsAfresh(f) ==
  call' = [call EXCEPT ![f] = [@ EXCEPT !.pc = "creating", !.marker = "fresh", !.seen = {}]]
GoesOnWith(f, s) ==
  call' = [call EXCEPT ![f] = [@ EXCEPT !.pc = "creating", !.marker = "resumed",
                                        !.session = s, !.seen = {}]]
Reads(f, step, file) ==
  call' = [call EXCEPT ![f] = [@ EXCEPT !.pc = step, !.seen = file]]

CopyFrame == UNCHANGED <<meta, registry, queue, claimed, rebuilt, writers, cli, now,
                         lost, clis, crashes>>

(* Neither account may have an API key and the source must be there; then  *)
(* the target is looked for.                                               *)
Copyable(f) ==
  /\ Conversation(f) # None
  /\ ~registry[Source(f)].api /\ ~registry[call[f].account].api
  /\ SourceFile(f) # {}
TargetUnread(to, s) == {}
TargetFile(to, s) == files[to][s]

CheckTarget(f) ==
  /\ call[f].pc = "copying"
  /\ \/ /\ Copyable(f)
        /\ Reads(f, "reading", TargetFile(call[f].account, Conversation(f)))
        /\ UNCHANGED faults
     \/ /\ IF Copyable(f) THEN Faulty ELSE UNCHANGED faults
        /\ StartsAfresh(f)
  /\ CopiesNothing /\ CopyFrame

(* A target that was there must be equal to the source; else the source is *)
(* copied to a temporary file beside it, which the CLI may have removed.   *)
ReadSource(f) ==
  LET source == SourceFile(f)
      target == call[f].seen
  IN  /\ call[f].pc = "reading"
      /\ \/ /\ target = {} /\ source # {}
            /\ Reads(f, "renaming", source)
            /\ UNCHANGED faults
         \/ /\ target # {} /\ source = target
            /\ GoesOnWith(f, Conversation(f))
            /\ UNCHANGED faults
         \/ /\ IF target = {} THEN source = {} \/ clis > 0 ELSE source # target
            /\ StartsAfresh(f)
            /\ UNCHANGED faults
         \/ Faulty /\ StartsAfresh(f)
      /\ CopiesNothing /\ CopyFrame

(* The rename does not look for a target again. *)
FoundNoTarget(f, to, s) ==
  /\ call[f].account = to /\ call[f].parent # None /\ Conversation(f) = s
  /\ \/ call[f].pc = "reading" /\ call[f].seen = {}
     \/ call[f].pc = "renaming"

CopiedBack(f, to, s) == [files EXCEPT ![Source(f)][s] = call[f].seen]
Copied(f, to, s) == [files EXCEPT ![to][s] = call[f].seen]

RenameCopy(f) ==
  LET to == call[f].account
      s == Conversation(f)
  IN  /\ call[f].pc = "renaming"
      /\ \/ /\ call[f].seen # {}
            /\ files' = Copied(f, to, s)
            /\ overtaken' = overtaken \cup
                 {<<to, s>> : other \in {o \in Run \ {f} : FoundNoTarget(o, to, s)}}
            /\ GoesOnWith(f, s)
            /\ UNCHANGED faults
         \/ /\ IF call[f].seen # {} THEN Faulty ELSE UNCHANGED faults
            /\ StartsAfresh(f)
            /\ CopiesNothing
      /\ CopyFrame

(* createRun: the record names parent, account and rotation at once. *)
NewRecord(c) ==
  [Absent EXCEPT !.status = "running", !.parent = c.parent, !.account = c.account,
                 !.rotated = c.rotates, !.requested = c.session,
                 !.session = IF c.rotates THEN None ELSE c.session]

CreateRun(r) ==
  /\ call[r].pc = "creating"
  /\ \/ /\ meta' = [meta EXCEPT ![r] = NewRecord(call[r])]
        /\ Goto(r, "recording")
        /\ UNCHANGED <<queue, faults>>
     \/ Faulty /\ Fails(r) /\ UNCHANGED meta
  /\ UNCHANGED <<registry, files, claimed, rebuilt, writers, cli, now, history,
                 clis, crashes>>

(* The rotation's terminal_context is written, the claim enters the memory *)
(* and the lock is released.  When the write fails the call fails with the *)
(* run on disk, nothing to run it, and no claim in memory.                 *)
RecordRun(r) ==
  LET c == call[r]
  IN  /\ c.pc = "recording"
      /\ \/ /\ meta' = [meta EXCEPT ![r].marker = c.marker]
            /\ claimed' = IF c.rotates
                          THEN [claimed EXCEPT ![c.parent] = @ \cup {c.account}]
                          ELSE claimed
            /\ Goto(r, "spawning")
            /\ IF c.rotates THEN Release(c.parent) ELSE UNCHANGED queue
            /\ UNCHANGED <<lost, faults>>
         \/ /\ c.rotates /\ Faulty /\ Fails(r)
            /\ lost' = TRUE
            /\ UNCHANGED <<meta, claimed>>
      /\ UNCHANGED <<registry, files, rebuilt, writers, cli, now, overtaken, clis,
                     crashes>>
-----------------------------------------------------------------------------
(* startManagedRun: the worker is started, to resume or afresh. *)
Spawn(r) ==
  /\ call[r].pc = "spawning"
  /\ Goto(r, "working")
  /\ UNCHANGED <<disk, queue, claimed, rebuilt, writers, cli, now, history, bounds>>

(* No invocation for a retry could be built: start afresh at once. *)
SpawnAfresh(r) ==
  /\ call[r].pc = "spawning" /\ call[r].marker = "resumed"
  /\ call' = [call EXCEPT ![r].pc = "working", ![r].session = None,
                          ![r].marker = "fresh"]
  /\ meta' = [meta EXCEPT ![r].requested = None, ![r].marker = "fresh"]
  /\ UNCHANGED <<registry, files, queue, claimed, rebuilt, writers, cli, now,
                 history, bounds>>

(* failPreSpawn keeps the rotation's marker. *)
FailPreSpawn(r) ==
  /\ call[r].pc = "spawning"
  /\ meta' = [meta EXCEPT ![r].status = "terminal", ![r].error = "other"]
  /\ Goto(r, "over")
  /\ UNCHANGED <<registry, files, queue, claimed, rebuilt, writers, cli, now,
                 history, bounds>>

(* The worker opens its session, and its id is observed. *)
OpenSession(r) ==
  LET c == call[r]
      s == IF c.session = None THEN r ELSE c.session
  IN  /\ c.pc = "working"
      /\ c.session # None => files[c.place][s] # {}
      /\ files' = [files EXCEPT ![c.place][s] = @ \cup {r}]
      /\ meta' = [meta EXCEPT ![r].session = s]
      /\ Goto(r, "settled")
      /\ UNCHANGED <<registry, queue, claimed, rebuilt, writers, cli, now, history, bounds>>

(* session_not_found of a resumed rotation: the interceptor starts the     *)
(* worker again, afresh, and corrects the marker first.                    *)
OnRetryUnseen(r) == UNCHANGED meta
OnRetryFired(r) == meta' = [meta EXCEPT ![r].marker = "fresh"]

RetryAfresh(r) ==
  /\ call[r].pc = "working" /\ call[r].rotates /\ call[r].session # None
  /\ files[call[r].place][call[r].session] = {}
  /\ OnRetryFired(r)
  /\ call' = [call EXCEPT ![r].session = None, ![r].marker = "fresh"]
  /\ UNCHANGED <<registry, files, queue, claimed, rebuilt, writers, cli, now,
                 history, bounds>>

(* How a worker may end, and what follow-ups look at in latest_error.      *)
ErrorOf(latest) == IF latest \in Limit THEN "limit" ELSE IF latest = "none" THEN "none" ELSE "other"
Ends == [signs : UNION {[1..n -> Sign] : n \in 0..MaxSign}, exitOk : BOOLEAN, result : BOOLEAN]
Endings == UNION {{[error |-> ErrorOf(latest), whole |-> end.exitOk /\ end.result] :
                     latest \in LatestError(end)} : end \in Ends}

(* The run ends; at a limit its account is marked, without anyone waiting. *)
EndRun(r, ending) ==
  /\ call[r].pc \in {"working", "settled"}
  /\ call[r].pc = "working" => ~ending.whole
  /\ meta' = [meta EXCEPT ![r].status = "terminal", ![r].error = ending.error]
  /\ Goto(r, "over")
  /\ writers' = IF ending.error = "limit"
                THEN Append(writers, [by |-> r, seen |-> NoSnapshot,
                                      account |-> meta[r].account])
                ELSE writers
  /\ UNCHANGED <<registry, files, queue, claimed, rebuilt, cli, now, history, bounds>>
-----------------------------------------------------------------------------
(* The daemon is killed and started again: calls, locks and claims are     *)
(* gone, a run that was running is orphaned, with the latest_error that    *)
(* was saved while it worked, if any.                                      *)
Crash ==
  /\ Trouble
  /\ crashes' = crashes + 1
  /\ call' = [r \in Run |-> IF call[r].pc = "idle" THEN call[r]
                            ELSE [Idle EXCEPT !.pc = "over"]]
  /\ \E saved \in [{r \in Run : call[r].pc \in {"working", "settled"}} -> {"none", "limit", "other"}] :
       meta' = [r \in Run |-> IF meta[r].status # "running" THEN meta[r]
                  ELSE [meta[r] EXCEPT !.status = "terminal",
                                       !.error = IF r \in DOMAIN saved THEN saved[r] ELSE "none"]]
  /\ queue' = [r \in Run |-> <<>>]
  /\ claimed' = [r \in Run |-> {}]
  /\ rebuilt' = {}
  /\ writers' = <<>>
  /\ UNCHANGED <<registry, files, cli, now, history, faults, clis>>

Tick ==
  /\ now < MaxTime
  /\ now' = now + 1
  /\ UNCHANGED <<disk, memory, cli, history, bounds>>

CallStep(r) ==
  \/ PickAccount(r) \/ CheckTarget(r) \/ ReadSource(r) \/ RenameCopy(r) \/ CreateRun(r) \/ RecordRun(r)
  \/ Spawn(r) \/ SpawnAfresh(r) \/ FailPreSpawn(r)
RegistryStep == \E i \in DOMAIN writers : MarkRead(i) \/ MarkWrite(i)
WorkerStep(r) ==
  \/ OpenSession(r) \/ RetryAfresh(r)
  \/ \E ending \in Endings : EndRun(r, ending)

RotationNext ==
  \/ StartRun
  \/ \E f, p \in Run : PlainFollowUp(f, p) \/ RotatingFollowUp(f, p)
  \/ \E r \in Run : CallStep(r) \/ WorkerStep(r)
  \/ RegistryStep
  \/ \E a \in Touched : Login(a) \/ SetKey(a) \/ RemoveAccount(a)
  \/ CliWrite \/ DeleteConfigDir
  \/ Crash
  \/ Tick

(* What the daemon has begun it goes on with; nobody has to call it, and   *)
(* workers, the CLI and the clock owe it nothing.  No call has a step that *)
(* comes again, so none is passed over for ever.                           *)
RotationFairness == WF_writers(RegistryStep) /\ WF_call(\E r \in Run : CallStep(r))
RotationSpec == RotationInit /\ [][RotationNext]_rotationVars
RotationFairSpec == RotationSpec /\ RotationFairness
-----------------------------------------------------------------------------
(* Two rotations of one parent never share an account, nor does one use    *)
(* the account that hit the limit (evaluateRotation, 1086-1128, 964-970),  *)
(* unless a write or a scan of the run store failed under the lock.        *)
SiblingsOnDistinctAccounts ==
  \A p \in Run : \A c \in ChildrenOf(p) :
    /\ meta[c].account # meta[p].account
    /\ \A d \in ChildrenOf(p) \ {c} : meta[c].account = meta[d].account => lost

(* However a worker at work may end: stopped by a limit, its run is one to *)
(* rotate, and it is not when no limit was reported (finalizeRun,          *)
(* processManager.ts 597-646; evaluateRotation, 1077-1084).                *)
Misjudged == {end \in Ends : ~LimitDecides(end)}
LimitsAreToldApart == \A r \in Run : call[r].pc \in {"working", "settled"} => Misjudged = {}

(* The claims in memory are all on disk, so that a restart finds them      *)
(* again (orchestratorService.ts 958-967).                                 *)
ClaimsAreOnDisk ==
  \A p \in Run : claimed[p] \subseteq ClaimedDestinations(p)

(* A run about to resume finds its session where its worker looks, with    *)
(* the turn of the run it follows, as long as nobody works with the CLI    *)
(* and no copy of the session was overtaken by another to the same account *)
(* (sessionCopy.ts 168-234).                                               *)
ResumeFindsTheConversation ==
  \A r \in Run :
    LET s == call[r].session
        p == call[r].parent
    IN  /\ call[r].pc \in {"spawning", "working"} /\ s # None /\ clis = 0
        /\ \A q \in Place : <<q, s>> \notin overtaken
        => /\ files[call[r].place][s] # {}
           /\ \A q \in Place : p \in files[q][s] => p \in files[call[r].place][s]

(* What terminal_context says is what happened: a run shown as resumed     *)
(* runs in the session that it asked for (onRetryFired, 1003-1008).        *)
ResumedMarkerIsTrue ==
  \A r \in Run : call[r].pc = "settled" /\ meta[r].marker = "resumed" =>
    call[r].session # None /\ call[r].session = meta[r].requested

(* A session file that exists is only written by the run that works in it: *)
(* a copy replaces none that holds turns, unless the file was copied there *)
(* by another follow-up after this one had looked for it (sessionCopy.ts   *)
(* 169 and 234, with no lock between the follow-ups of two parents).       *)
ConversationsAreKept ==
  [][\A p \in Place, s \in Run :
       \/ files[p][s] \in {{}, files'[p][s]}
       \/ cli # cli'
       \/ \E r \in Run : call[r].pc = "renaming" /\ call[r].account = p
                        /\ <<p, s>> \in overtaken
       \/ \E r \in Run : call[r].pc = "working" /\ call[r].place = p
                        /\ files'[p][s] = files[p][s] \cup {r}]_rotationVars

(* Only the CLI, which is not held by the lock, shortens a cooldown.       *)
CooldownsAreKept ==
  [][\A a \in Account : registry'[a].until < registry[a].until => cli # cli']_rotationVars

(* The picker's lock is always given back. *)
Parents == {p \in Run : \E f \in Run : <<f, p>> \in Follows}
PickerLockIsReleased ==
  \A p \in Parents : queue[p] # <<>> ~> queue[p] = <<>>

(* The records agree: what is claimed in memory with what is on disk, and  *)
(* what terminal_context says with what became of the run.                 *)
RotationConsistent == RotationTypeOK /\ ClaimsAreOnDisk /\ ResumedMarkerIsTrue

(* Neither a conversation nor a cooldown is lost to another run's step.    *)
StoredFactsAreKept == ConversationsAreKept /\ CooldownsAreKept
=============================================================================
