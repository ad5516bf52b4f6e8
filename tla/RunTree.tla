------------------------------ MODULE RunTree ------------------------------
(***************************************************************************)
(* Runs and their follow-ups: what a follow-up inherits from its parent,   *)
(* what a caller may set, and how the dashboard groups runs into sessions. *)
(*                                                                         *)
(* Simplifications: a run is the number of its creation; a session is the  *)
(* run that opened it; a worker's end is one step and carries no outcome;  *)
(* accounts and rotation decisions are in Rotation, so a rotated follow-up *)
(* is only one that resumes a copied session or opens a new one; model,    *)
(* effort and tier are only whether the call names an effort or a tier; a  *)
(* snapshot reads the store in one step; records from before codex_network *)
(* are left out.                                                           *)
(***************************************************************************)
EXTENDS Naturals, FiniteSets, FiniteSetsExt

CONSTANTS
  MaxRun,     \* bound: runs ever created
  MaxStart,   \* bound: runs that follow no other
  Supervisor, \* orchestrators that pin their id to their calls
  Call,       \* follow-ups in progress at once
  Asked,      \* bound: what the metadata of a call says, and the id pinned to the call
  SnapshotLimit,      \* the runs a snapshot lists, the newest
  MaxPrune    \* bound: runs pruned

Run == 1..MaxRun
None == 0
Nobody == "nobody"
Unset == "unset"
Backend == {"codex", "claude"}
Network == {"isolated", "workspace", "user-config"}
Owner == Supervisor \cup {Nobody}

\* What a call's metadata may carry that the daemon gives a meaning to, and the
\* orchestrator id that comes with the call.
Metadata == [profile : BOOLEAN, owner : Owner, pinned : Owner]

ASSUME RunTreeAssumption ==
  /\ MaxRun \in Nat /\ MaxStart \in Nat /\ SnapshotLimit \in Nat \ {0} /\ MaxPrune \in Nat
  /\ IsFiniteSet(Call) /\ Asked \subseteq Metadata /\ Nobody \notin Supervisor

VARIABLES
  created,  \* runs created so far
  onDisk,   \* the runs whose directory is there
  meta,     \* meta.json of each run
  call,     \* send_followup between its checks and createRun
  said,     \* history: who asked for each run, and the network it was given
  origin,   \* history: the run each run descends from, and whether its ancestors were there
  pruned

runTreeVars == <<created, onDisk, meta, call, said, origin, pruned>>

Meta == [status : {"running", "ended"}, parent : Run \cup {None}, backend : Backend,
         network : Network \cup {Unset}, profile : BOOLEAN, owner : Owner,
         session : Run \cup {None}, requested : Run \cup {None}, observed : Run \cup {None}]
IdleCall == [at |-> "idle"]

RunTreeTypeOK ==
  /\ created \in 0..MaxRun /\ onDisk \subseteq 1..created
  /\ meta \in [1..created -> Meta]
  /\ \A r \in 1..created : /\ meta[r].parent < r /\ meta[r].session <= r /\ meta[r].observed <= r
                           /\ meta[r].network = Unset <=> meta[r].backend = "claude"
  /\ \A c \in Call : call[c].at \in {"idle", "create"}
  /\ pruned \in 0..MaxPrune

Init ==
  /\ created = 0 /\ onDisk = {} /\ meta = << >>
  /\ call = [c \in Call |-> IdleCall]
  /\ said = << >> /\ origin = << >> /\ pruned = 0

-----------------------------------------------------------------------------
(* Ancestors *)

Parent(r) == IF meta[r].parent \in onDisk THEN meta[r].parent ELSE None

\* The runs from r up to the last one whose directory is there.
Ancestors(r) ==
  LET Up[k \in 0..MaxRun] == IF k = 0 THEN r ELSE IF Up[k - 1] = None THEN None ELSE Parent(Up[k - 1])
  IN {Up[k] : k \in 0..MaxRun} \ {None}

ParentIsProfileMode(p) == meta[p].profile
ChainIsProfileMode(p) == \E a \in Ancestors(p) : meta[a].profile

-----------------------------------------------------------------------------
(* What a run is created with *)

Given(value, default) == IF value = Unset THEN default ELSE value

\* modelSettingsForBackend
FreshNetwork(backend, network) == IF backend = "codex" THEN Given(network, "isolated") ELSE Unset

\* A caller that sets effort or tier has the settings built anew, with the
\* parent's network unless it sets that too.
FollowupNetwork(p, network, rebuild) ==
  LET n == Given(network, meta[p].network) IN IF rebuild THEN FreshNetwork(meta[p].backend, n) ELSE n

\* sandboxArgs: what a codex worker is told on its command line.
SandboxArgs(network) ==
  CASE network = "workspace" -> {"ignore_user_config", "network_access"}
    [] network = "user-config" -> {}
    [] OTHER -> {"ignore_user_config"}

\* A follow-up inherits its parent's metadata, but not the mark of a profile run.
MetadataForFollowup(p, m) ==
  [m EXCEPT !.owner = IF @ = Nobody THEN meta[p].owner ELSE @]

\* The owner the caller or the parent wrote into the metadata is dropped.
Stamp(pinned, claimed) == pinned

Effective(m) == IF m.observed # None THEN m.observed ELSE m.session

-----------------------------------------------------------------------------
(* start_run and send_followup *)

Create(m, who, from) ==
  /\ created < MaxRun
  /\ created' = created + 1 /\ onDisk' = onDisk \cup {created'}
  /\ meta' = [r \in 1..created' |-> IF r <= created THEN meta[r] ELSE m]
  /\ said' = [r \in 1..created' |-> IF r <= created THEN said[r] ELSE who]
  /\ origin' = [r \in 1..created' |-> IF r <= created THEN origin[r]
                                      ELSE IF from.run = None THEN [run |-> created', whole |-> TRUE] ELSE from]

\* Profile mode fixes the network by the profile and marks the run; direct mode
\* keeps the caller's metadata, mark included.
StartRun ==
  /\ Cardinality({r \in 1..created : meta[r].parent = None}) < MaxStart
  /\ \E backend \in Backend, network \in Network \cup {Unset}, byProfile \in BOOLEAN, m \in Asked :
       /\ network # Unset => backend = "codex"
       /\ Create([status |-> "running", parent |-> None, backend |-> backend,
                  network |-> FreshNetwork(backend, network), profile |-> byProfile \/ m.profile,
                  owner |-> Stamp(m.pinned, m.owner), session |-> None, requested |-> None, observed |-> None],
                 [owner |-> m.pinned, network |-> Unset, profile |-> byProfile],
                 [run |-> None, whole |-> TRUE])
  /\ UNCHANGED <<call, pruned>>

MayFollow(p) == meta[p].status = "ended"

\* The session a follow-up resumes: the parent's; after a rotation the copied one
\* or none, and nothing is assumed of the session it will have.
Resumes(p) ==
  IF Effective(meta[p]) # None THEN {[session |-> Effective(meta[p]), requested |-> Effective(meta[p])]} ELSE {}
Rotates(p) ==
  IF meta[p].backend = "claude"
  THEN {[session |-> None, requested |-> s] : s \in {None, Effective(meta[p])}} ELSE {}

CheckFollowup(c) ==
  /\ call[c].at = "idle"
  /\ \E p \in onDisk, network \in Network \cup {Unset}, rebuild \in BOOLEAN, m \in Asked :
       /\ MayFollow(p)
       /\ network # Unset => ~ChainIsProfileMode(p) /\ meta[p].backend = "codex"
       /\ \E s \in Resumes(p) \cup Rotates(p) : LET inherited == MetadataForFollowup(p, m) IN
            call' = [call EXCEPT ![c] =
              [at |-> "create",
               meta |-> [status |-> "running", parent |-> p, backend |-> meta[p].backend,
                         network |-> FollowupNetwork(p, network, rebuild), profile |-> inherited.profile,
                         owner |-> Stamp(inherited.pinned, inherited.owner),
                         session |-> s.session, requested |-> s.requested, observed |-> None],
               said |-> [owner |-> m.pinned, network |-> network, profile |-> FALSE],
               from |-> [run |-> origin[p].run,
                         whole |-> origin[p].whole /\ origin[p].run \in Ancestors(p)]]]
  /\ UNCHANGED <<created, onDisk, meta, said, origin, pruned>>

CreateFollowup(c) ==
  /\ call[c].at = "create"
  /\ Create(call[c].meta, call[c].said, call[c].from)
  /\ call' = [call EXCEPT ![c] = IdleCall]
  /\ UNCHANGED pruned

-----------------------------------------------------------------------------
(* The workers, and prune_runs *)

\* The worker names its session: the one asked for, or one of its own.
Observe(r) ==
  /\ meta[r].status = "running" /\ meta[r].observed = None
  /\ \E s \in {r} \cup ({meta[r].requested} \ {None}) :
       meta' = [meta EXCEPT ![r].observed = s, ![r].session = IF @ = None THEN s ELSE @]
  /\ UNCHANGED <<created, onDisk, call, said, origin, pruned>>

End(r) ==
  /\ meta[r].status = "running"
  /\ meta' = [meta EXCEPT ![r].status = "ended"]
  /\ UNCHANGED <<created, onDisk, call, said, origin, pruned>>

Prune(r) ==
  /\ meta[r].status = "ended" /\ pruned < MaxPrune
  /\ onDisk' = onDisk \ {r} /\ pruned' = pruned + 1
  /\ UNCHANGED <<created, meta, call, said, origin>>

Next ==
  \/ StartRun
  \/ \E c \in Call : CheckFollowup(c) \/ CreateFollowup(c)
  \/ \E r \in onDisk : Observe(r) \/ End(r) \/ Prune(r)

RunTreeSpec == Init /\ [][Next]_runTreeVars

-----------------------------------------------------------------------------
(* The dashboard's sessions *)

Audit(m) ==
  CASE m.requested # None /\ m.observed # None /\ m.requested # m.observed -> "mismatch"
    [] m.requested # None /\ m.observed = m.requested -> "resumed"
    [] m.requested # None /\ m.observed = None -> "pending"
    [] m.requested = None -> IF Effective(m) # None THEN "new_session" ELSE "pending"

RootMeta(r) == Min(Ancestors(r))

KeyByRequest(r) ==
  IF meta[r].session # None THEN <<meta[r].backend, "session", meta[r].session>>
  ELSE <<meta[r].backend, "root", RootMeta(r)>>
SessionKey(r) ==
  IF Effective(meta[r]) # None THEN <<meta[r].backend, "session", Effective(meta[r])>>
  ELSE <<meta[r].backend, "root", RootMeta(r)>>

Listed == {r \in onDisk : Cardinality({q \in onDisk : q > r}) < SnapshotLimit}

Session(key) == [key |-> key, runs |-> {r \in Listed : SessionKey(r) = key}]
Sessions == {Session(SessionKey(r)) : r \in Listed}

-----------------------------------------------------------------------------
(* Properties *)

\* The worker of a run that descends from a profile start gets the network of
\* the profile: no follow-up of a follow-up opens it, as long as the chain back
\* to the start was on disk when the follow-ups were asked for
\* (chainOriginatedFromProfileMode, orchestratorService.ts 720-738, 755-757).
ProfileNetworkIsKept ==
  \A r \in 1..created : LET o == origin[r].run IN
    said[o].profile /\ origin[r].whole => SandboxArgs(meta[r].network) = SandboxArgs(meta[o].network)

\* A follow-up whose call does not set the network has its parent's, also when
\* the call sets effort or tier and has its settings built anew
\* (orchestratorService.ts 799-821).
NetworkIsInherited ==
  \A r \in 1..created :
    meta[r].parent # None => meta[r].network = Given(said[r].network, meta[meta[r].parent].network)

\* A run belongs to the orchestrator whose pinned id came with the call, and to
\* nobody without one, whatever the call's metadata or the parent's say
\* (stampOrchestratorIdInMetadata, orchestratorService.ts 2286-2295).
OwnersAreNotForged == \A r \in 1..created : meta[r].owner = said[r].owner

\* A run and a run it descends from never work at the same time
\* (the INVALID_STATE answer, orchestratorService.ts 745-747).
NoRunOverlapsItsAncestors ==
  \A r \in onDisk, a \in Run :
    a \in Ancestors(r) \ {r} /\ meta[r].status = "running" => meta[a].status = "ended"

\* Follow-ups of a session that have not been seen to leave it are shown in it:
\* before the backend answers, and once it confirmed the session asked for; a
\* rotated one only then (sessionKey, observability.ts 325-329).
FollowupsJoinTheirSession ==
  \A r \in Listed : LET p == Parent(r) IN
    p # None /\ (Audit(meta[r]) = "resumed" \/ (meta[r].session # None /\ Audit(meta[r]) = "pending"))
      => SessionKey(r) = SessionKey(p)

\* Runs that worked in different backend sessions are never shown as one, also
\* when the caller asked for the same session (README.md 572-576).
SessionsDoNotMix ==
  \A s \in Sessions : \A q, r \in s.runs :
    meta[q].observed # None /\ meta[r].observed # None => meta[q].observed = meta[r].observed

\* A run has from the runs it follows what it should have, and nothing else.
InheritanceHolds ==
  /\ RunTreeTypeOK
  /\ NetworkIsInherited /\ ProfileNetworkIsKept
  /\ OwnersAreNotForged /\ NoRunOverlapsItsAncestors

\* The dashboard's sessions are the backend's: none torn apart, none mixed.
SessionsAreShownApart == FollowupsJoinTheirSession /\ SessionsDoNotMix
=============================================================================
