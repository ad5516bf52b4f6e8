------------------------------ MODULE Profiles ------------------------------
(***************************************************************************)
(* Worker profiles: manifests that upsert_worker_profile rewrites, that a  *)
(* user edits, and that start_run resolves a profile from.                 *)
(*                                                                         *)
(* Simplifications: paths are names, and a relative path is resolved by    *)
(* the directory it is resolved in; models fall into the classes the       *)
(* validation tells apart; a priority array is its set of accounts; an     *)
(* unreadable manifest and an invalid one are both "corrupt".              *)
(***************************************************************************)
EXTENDS Naturals, Sequences, FiniteSets, SequencesExt

CONSTANTS
  Path, Pin,     \* manifests, and the one a harness pins
  RelativeAt,    \* what a relative path is in the frontend's, the daemon's, a given directory
  Id,            \* profile ids
  Account,
  Offer,         \* bound: the profiles that are written, by a call or by hand
  Call,          \* upserts in progress at once
  Starter,       \* profile starts in progress at once
  MaxAsk,        \* bound: upserts asked for
  MaxStart,      \* bound: starts of each starter
  MaxEdit,       \* bound: edits of a manifest by hand, changes of backends and accounts
  MaxTrouble     \* bound: writes that fail

Backend == {"codex", "claude", "cursor"}
Unset == "unset"

\* createWorkerCapabilityCatalog; a catalog that names no value supports none.
Efforts ==
  [codex |-> {"none", "minimal", "low", "medium", "high", "xhigh"},
   claude |-> {"low", "medium", "high", "xhigh", "max"}, cursor |-> {}]
Tiers == [codex |-> {"fast", "flex", "normal"}, claude |-> {}, cursor |-> {}]
Networks == {"isolated", "workspace", "user-config"}
Model == {"plain", "prefixed", "alias", "opus_4_7", "known_claude", "other_claude"}

Profile == [backend : Backend \cup {"unheard_of"}, model : Model \cup {Unset},
            effort : UNION {Efforts[b] : b \in Backend} \cup {Unset},
            tier : UNION {Tiers[b] : b \in Backend} \cup {Unset},
            network : Networks \cup {"bad", Unset}, accounts : SUBSET Account]

NoProfile == [backend |-> "none", model |-> Unset, effort |-> Unset, tier |-> Unset,
              network |-> Unset, accounts |-> {}]
Manifest == [kind : {"absent", "corrupt", "whole"}, profiles : [Id -> Profile \cup {NoProfile}]]
Empty == [i \in Id |-> NoProfile]

ASSUME ProfilesAssumption ==
  /\ Pin \in Path /\ RelativeAt \in [{"frontend", "daemon", "given"} -> Path]
  /\ Offer \subseteq Profile /\ IsFiniteSet(Call) /\ Id # {}
  /\ MaxAsk \in Nat /\ MaxStart \in Nat /\ MaxEdit \in Nat /\ MaxTrouble \in Nat

VARIABLES
  file,       \* the manifests on disk
  available,  \* backends whose CLI or SDK is there
  accounts,   \* the claude account registry
  call,       \* upsert_worker_profile calls
  queue,      \* profileUpdateLocks: the chain of promises of each manifest
  starter,    \* start_run calls in profile mode
  run,        \* history: the profiles runs were started with
  accepted,   \* history: what an answered upsert last said of each profile not edited since
  asks, edits, troubles

world == <<available, accounts>>
upserts == <<call, queue, accepted, asks>>
starts == <<starter, run>>
profilesVars == <<file, world, upserts, starts, edits, troubles>>

IdleCall == [at |-> "idle", pinned |-> FALSE, path |-> Pin, id |-> CHOOSE i \in Id : TRUE,
             profile |-> NoProfile, create |-> FALSE, base |-> Empty]
IdleStarter == [at |-> "idle", profile |-> NoProfile, count |-> 0]

UpsertCall == [at : {"idle", "queued", "inspect", "write"}, pinned : BOOLEAN, path : Path, id : Id,
               profile : Offer \cup {NoProfile}, create : BOOLEAN, base : [Id -> Profile \cup {NoProfile}]]
StartCall == [at : {"idle", "bind"}, profile : Profile \cup {NoProfile}, count : 0..MaxStart]

ProfilesTypeOK ==
  /\ file \in [Path -> Manifest]
  /\ available \subseteq Backend /\ accounts \subseteq Account
  /\ call \in [Call -> UpsertCall]
  /\ queue \in [Path -> Seq(Call)]
  /\ starter \in [Starter -> StartCall] /\ run \subseteq Profile
  /\ accepted \in [Path -> [Id -> Offer \cup {NoProfile}]]
  /\ asks \in 0..MaxAsk /\ edits \in 0..MaxEdit /\ troubles \in 0..MaxTrouble

Init ==
  /\ file = [p \in Path |-> [kind |-> "absent", profiles |-> Empty]]
  /\ available = Backend /\ accounts = Account
  /\ call = [c \in Call |-> IdleCall]
  /\ queue = [p \in Path |-> << >>]
  /\ starter = [s \in Starter |-> IdleStarter] /\ run = {}
  /\ accepted = [p \in Path |-> Empty]
  /\ asks = 0 /\ edits = 0 /\ troubles = 0

-----------------------------------------------------------------------------
(* Which profiles are valid: validateProfile and what it calls.            *)

Set(value) == value # Unset

ClaudeModelAndEffort(p) ==
  /\ p.model # "alias"
  /\ Set(p.effort) => Set(p.model) /\ p.model # "other_claude"
  /\ p.effort = "xhigh" => p.model = "opus_4_7"

BackendSpecific(p) ==
  CASE p.backend = "codex" -> p.model # "prefixed" /\ p.network # "bad" /\ p.accounts = {}
    [] p.backend = "cursor" -> ~Set(p.network) /\ p.accounts = {}
    [] p.backend = "claude" -> ~Set(p.network) /\ ClaudeModelAndEffort(p)

Fits(p) ==
  /\ p.backend \in Backend
  /\ Set(p.model)
  /\ Set(p.effort) => p.effort \in Efforts[p.backend]
  /\ Set(p.tier) => p.tier \in Tiers[p.backend]
  /\ BackendSpecific(p)

\* inspectWorkerProfiles, with the backends and the accounts of the moment.
Valid(p) == Fits(p) /\ p.backend \in available /\ p.accounts \subseteq accounts

-----------------------------------------------------------------------------
(* upsert_worker_profile *)

Resolve(name, dir) == IF name = "relative" THEN RelativeAt[dir] ELSE name
Under(cwd, own) == IF cwd = "given" THEN "given" ELSE own

\* The frontend of a pinned harness checks the path before it sends the call, and
\* the daemon checks it again as it resolves it.
FrontendAllows(pinned, name, cwd) == pinned => Resolve(name, Under(cwd, "frontend")) = Pin
DaemonTrusts(pinned, path) == TRUE
DaemonAllows(pinned, path) == pinned => path = Pin

Queued(c, path) == queue' = [queue EXCEPT ![path] = Append(@, c)]

Ask(c) ==
  /\ call[c].at = "idle" /\ asks < MaxAsk
  /\ asks' = asks + 1
  /\ \E pinned, create \in BOOLEAN, name \in Path \cup {"relative"}, cwd \in {"none", "given"},
        i \in Id, p \in {o \in Offer : o.backend \in Backend} :
       LET path == Resolve(name, Under(cwd, "daemon")) IN
       /\ FrontendAllows(pinned, name, cwd) /\ DaemonAllows(pinned, path)
       /\ call' = [call EXCEPT ![c] = [at |-> "queued", pinned |-> pinned, path |-> path, id |-> i,
                                       profile |-> p, create |-> create, base |-> Empty]]
       /\ Queued(c, path)
  /\ UNCHANGED <<file, world, accepted, starts, edits, troubles>>

HoldsAnyway(c) == call[c].at # "idle"
Holds(c) == call[c].at # "idle" /\ Head(queue[call[c].path]) = c

\* The lock's finally: the next of the chain goes on, whatever the answer was.
Answers(c) ==
  /\ call' = [call EXCEPT ![c] = IdleCall]
  /\ queue' = [queue EXCEPT ![call[c].path] = Tail(@)]
Refuses(c) == Answers(c)

ReadManifest(c) ==
  /\ call[c].at = "queued" /\ Holds(c)
  /\ LET m == file[call[c].path]
         refused == m.kind = "corrupt" \/ (m.profiles[call[c].id] = NoProfile /\ ~call[c].create) IN
     \/ refused /\ Refuses(c)
     \/ ~refused /\ call' = [call EXCEPT ![c].at = "inspect", ![c].base = m.profiles] /\ UNCHANGED queue
  /\ UNCHANGED <<file, world, accepted, asks, starts, edits, troubles>>

Inspect(c) ==
  /\ call[c].at = "inspect"
  /\ \/ Valid(call[c].profile) /\ call' = [call EXCEPT ![c].at = "write"] /\ UNCHANGED queue
     \/ ~Valid(call[c].profile) /\ Refuses(c)
  /\ UNCHANGED <<file, world, accepted, asks, starts, edits, troubles>>

Updated(c) == [call[c].base EXCEPT ![call[c].id] = call[c].profile]

Write(c) ==
  /\ call[c].at = "write"
  /\ file' = [file EXCEPT ![call[c].path] = [kind |-> "whole", profiles |-> Updated(c)]]
  /\ accepted' = [accepted EXCEPT ![call[c].path][call[c].id] = call[c].profile]
  /\ Answers(c)
  /\ UNCHANGED <<world, asks, starts, edits, troubles>>

\* A temporary file is written and renamed: a failure leaves the manifest alone.
Untouched(path) == UNCHANGED file

WriteFails(c) ==
  /\ call[c].at = "write" /\ troubles < MaxTrouble
  /\ troubles' = troubles + 1
  /\ Untouched(call[c].path)
  /\ Answers(c)
  /\ UNCHANGED <<world, accepted, asks, starts, edits>>

-----------------------------------------------------------------------------
(* start_run with a profile of the pinned manifest *)

\* loadLiveWorkerProfiles keeps the valid profiles of the manifest it reads.
StartableByName(p) == TRUE
Startable(p) == Valid(p)

LoadLiveWorkerProfiles ==
  IF file[Pin].kind # "whole" THEN {}
  ELSE {i \in Id : file[Pin].profiles[i] # NoProfile /\ Startable(file[Pin].profiles[i])}

\* What the profile says is parsed once more, for any backend.
ParseProfileModelSettings(p) ==
  /\ Set(p.effort) => \E b \in Backend : p.effort \in Efforts[b]
  /\ Set(p.tier) => \E b \in Backend : p.tier \in Tiers[b]
  /\ Set(p.network) => p.network \in Networks

Load(s) ==
  /\ starter[s].at = "idle" /\ starter[s].count < MaxStart
  /\ \E i \in Id :
       LET p == file[Pin].profiles[i] IN
       IF i \in LoadLiveWorkerProfiles /\ ParseProfileModelSettings(p)
       THEN starter' = [starter EXCEPT ![s] = [at |-> "bind", profile |-> p, count |-> @.count + 1]]
       ELSE starter' = [starter EXCEPT ![s].count = @ + 1]
  /\ UNCHANGED <<file, world, upserts, run, edits, troubles>>

\* The accounts are looked up once more; then the run is created.
BindAndCreate(s) ==
  /\ starter[s].at = "bind"
  /\ starter' = [starter EXCEPT ![s].at = "idle", ![s].profile = NoProfile]
  /\ run' = run \cup {p \in {starter[s].profile} : p.accounts \subseteq accounts}
  /\ UNCHANGED <<file, world, upserts, edits, troubles>>

-----------------------------------------------------------------------------
(* The world *)

Edits == edits < MaxEdit /\ edits' = edits + 1

EditByHand ==
  /\ Edits
  /\ \/ \E i \in Id, p \in Offer \cup {NoProfile} :
          /\ file[Pin].kind # "corrupt"
          /\ file' = [file EXCEPT ![Pin] = [kind |-> "whole", profiles |-> [@.profiles EXCEPT ![i] = p]]]
          /\ accepted' = [accepted EXCEPT ![Pin][i] = NoProfile]
     \/ /\ file' = [file EXCEPT ![Pin] = [kind |-> "corrupt", profiles |-> Empty]]
        /\ accepted' = [accepted EXCEPT ![Pin] = Empty]
  /\ UNCHANGED <<world, call, queue, asks, starts, troubles>>

WorldChanges ==
  /\ Edits
  /\ \/ \E b \in Backend : available' = available \ {b} /\ UNCHANGED accounts
     \/ \E a \in Account : accounts' = accounts \ {a} /\ UNCHANGED available
  /\ UNCHANGED <<file, upserts, starts, troubles>>

Step(c) == ReadManifest(c) \/ Inspect(c) \/ Write(c)

Next ==
  \/ \E c \in Call : Ask(c) \/ Step(c) \/ WriteFails(c)
  \/ \E s \in Starter : Load(s) \/ BindAndCreate(s)
  \/ EditByHand \/ WorldChanges

ProfilesSpec == Init /\ [][Next]_profilesVars

\* A call that has been taken up goes on; nobody need ask, edit or fail.
ProfilesFairSpec == ProfilesSpec /\ \A c \in Call : WF_profilesVars(Step(c))

-----------------------------------------------------------------------------
(* Properties *)

\* A profile that an upsert was answered for is what the manifest says, until
\* another upsert of the same profile or an edit by hand says otherwise:
\* overlapping upserts of one manifest do not lose each other's profiles
\* (withProfileUpdateLock, orchestratorService.ts 655-670).
AcceptedUpsertsStay ==
  \A p \in Path, i \in Id :
    file[p].kind # "corrupt" /\ accepted[p][i] # NoProfile => file[p].profiles[i] = accepted[p][i]

ManifestsKeepUpserts == ProfilesTypeOK /\ AcceptedUpsertsStay

\* A manifest is unreadable only because somebody edited it so: a failing upsert
\* leaves it whole (atomicWriteWorkerProfiles, orchestratorService.ts 2032-2046).
ManifestsStayWhole ==
  [][\A p \in Path : file'[p].kind = "corrupt" => file[p].kind = "corrupt" \/ edits' > edits]_profilesVars

\* An upsert that comes from a pinned harness changes no other manifest than the
\* pinned one, also where frontend and daemon resolve a relative path differently
\* (enforceWritableProfilesPolicy, enforcePolicyContextForUpsert).
PinnedWritesStayInThePin ==
  [][\A c \in Call, p \in Path : call[c].pinned /\ call[c].path = p /\ file'[p] # file[p] /\ edits' = edits
                                    /\ call'[c] # call[c] => p = Pin]_profilesVars

\* No run starts with settings its backend does not support, whatever was edited
\* into the manifest by hand (loadInspectedWorkerProfilesFromFile).
RunsFitTheirBackend == \A p \in run : Fits(p)

\* Every upsert is answered, also behind others that fail or are refused.
UpsertsAreAnswered == \A c \in Call : call[c].at # "idle" ~> call[c].at = "idle"

\* Upserts reach only what they may, whole, and each comes to its end.
WritesAreGuarded == PinnedWritesStayInThePin /\ ManifestsStayWhole /\ UpsertsAreAnswered
=============================================================================
