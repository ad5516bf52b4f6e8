--------------------------- MODULE RotationProofs ---------------------------
(***************************************************************************)
(* Theorems about Rotation.  The end of a worker is judged rightly, for    *)
(* errors and stops in any number and order.  For any number of accounts,  *)
(* follow-ups, CLI commands, crashes and failing writes: the picker's lock *)
(* keeps siblings on different accounts, the records of a rotation agree,  *)
(* no cooldown is lost to another run's step, a conversation only to a     *)
(* copy that overlaps another of the same session to the same account, and *)
(* but for such a one a resumed run finds the conversation it goes on with. *)
(***************************************************************************)
EXTENDS Rotation, WellFoundedInduction, TLAPS

\* A set of positions that is not empty has a first one.
LEMMA FirstPosition ==
  ASSUME NEW T \in SUBSET Nat, T # {}
  PROVE  \E i \in T : \A j \in T : i <= j
<1> DEFINE R == OpToRel(<, Nat)
<1>1. \A x, y \in Nat : x < y <=> <<x, y>> \in R
  BY DEF OpToRel
<1>2. IsWellFoundedOn(R, Nat)
  BY NatLessThanWellFounded
<1> HIDE DEF R
<1>3. \E x \in T : \A y \in T : ~ (<<y, x>> \in R)
  BY <1>2, WFMin
<1>4. PICK x \in T : \A y \in T : ~ (<<y, x>> \in R)
  BY <1>3
<1>5. ASSUME NEW y \in T PROVE x <= y
  <2>1. x \in Nat /\ y \in Nat
    OBVIOUS
  <2>2. ~ (y < x)
    BY <1>1, <1>4, <2>1
  <2> QED
    BY <2>1, <2>2
<1> QED
  BY <1>5

-----------------------------------------------------------------------------
(* First and Override *)

LEMMA FirstTaken ==
  ASSUME NEW end \in End, NEW S, At(end, S) # {}
  PROVE  \E i \in At(end, S) : First(end, S) = end.signs[i] /\ \A j \in At(end, S) : i <= j
<1>1. At(end, S) \in SUBSET Nat
  BY DEF At, End
<1> QED
  BY <1>1, FirstPosition DEF First

LEMMA FirstIsSigned ==
  ASSUME NEW end \in End, NEW S, First(end, S) # "none"
  PROVE  /\ First(end, S) \in S
         /\ \E i \in DOMAIN end.signs : end.signs[i] = First(end, S)
<1>1. At(end, S) # {}
  BY DEF First
<1> QED
  BY <1>1, FirstTaken DEF At

LEMMA NoneIsNoSign == "none" \notin Sign /\ Limit \subseteq Fatal /\ Fatal \subseteq Category
                      /\ Limit \cap Stop = {} /\ Stop \cup Category \subseteq Sign
BY DEF Sign, Category, Stop, Limit, Fatal

\* A worker whose first fatal error is a limit is stopped by it.
LEMMA LimitOverrides ==
  ASSUME NEW end \in End, StoppedByLimit(end)
  PROVE  Override(end) \in Limit
<1> DEFINE S == Stop \cup Fatal
<1>1. PICK i \in DOMAIN end.signs :
        end.signs[i] \in Limit /\ \A j \in DOMAIN end.signs : j < i => end.signs[j] = "unknown"
  BY DEF StoppedByLimit
<1>2. i \in At(end, S)
  BY <1>1, NoneIsNoSign DEF At
<1>3. PICK k \in At(end, S) : First(end, S) = end.signs[k] /\ \A j \in At(end, S) : k <= j
  BY <1>2, FirstTaken
<1>4. k \in DOMAIN end.signs /\ end.signs[k] # "unknown"
  BY DEF At, Stop, Fatal, Category
<1>5. i \in Nat /\ k \in Nat
  BY <1>4 DEF End
<1>6. k = i
  BY <1>1, <1>2, <1>3, <1>4, <1>5
<1> QED
  BY <1>1, <1>3, <1>6 DEF Override

LEMMA LimitIsRecorded ==
  ASSUME NEW end \in End, StoppedByLimit(end)
  PROVE  LatestError(end) \subseteq Limit
<1>1. Override(end) \in Limit
  BY LimitOverrides
<1>2. Override(end) # "none" /\ Override(end) \notin Stop
  BY <1>1 DEF Limit, Stop
<1>3. Status(end) = "failed"
  BY <1>2 DEF Status, Completes
<1>4. FirstError(end) = Override(end)
  BY <1>1, <1>2 DEF FirstError, OverrideError, Limit
<1>5. Latest(end) \in Limit
  BY <1>1, <1>2, <1>4 DEF Latest
<1> QED
  BY <1>3, <1>5 DEF LatestError

\* A limit in latest_error was reported by the worker.
LEMMA RecordedLimitWasSigned ==
  ASSUME NEW end \in End, NEW category \in Limit, category \in LatestError(end)
  PROVE  \E i \in DOMAIN end.signs : end.signs[i] = category
<1>1. CASE category \in Saved(end)
  BY <1>1 DEF Saved, At
<1>2. CASE category \notin Saved(end)
  <2>1. category = Latest(end)
    BY <1>2 DEF LatestError, Limit
  <2>2. category = FirstError(end)
    BY <2>1 DEF Latest, Limit
  <2>3. CASE Override(end) # "none"
    <3>1. category = Override(end)
      BY <2>2, <2>3 DEF FirstError, OverrideError, Limit
    <3> QED
      BY <2>3, <3>1, FirstIsSigned DEF Override
  <2>4. CASE Override(end) = "none"
    <3>1. category = First(end, Category)
      BY <2>2, <2>4 DEF FirstError, TerminalError, Limit
    <3>2. First(end, Category) # "none"
      BY <3>1 DEF Limit
    <3> QED
      BY <3>1, <3>2, FirstIsSigned
  <2> QED
    BY <2>3, <2>4
<1> QED
  BY <1>1, <1>2

(* However many errors a worker reports and stops it is sent, in any order: *)
(* its latest_error is a limit if a limit stopped it, and only if a limit   *)
(* was reported (finalizeRun, processManager.ts 597-646).                   *)
THEOREM LimitAlwaysDecides == \A end \in End : LimitDecides(end)
BY LimitIsRecorded, RecordedLimitWasSigned DEF LimitDecides

(* So rotation never judges a run by the wrong error, for any bound on the  *)
(* signs of a worker.                                                       *)
THEOREM RotationJudgesRightly == RotationSpec => []LimitsAreToldApart
<1>1. Ends \subseteq End
  <2>1. ASSUME NEW n \in Nat, NEW s \in [1..n -> Sign] PROVE s \in Seq(Sign)
    OBVIOUS
  <2>2. 0..MaxSign \subseteq Nat
    OBVIOUS
  <2> QED
    BY <2>1, <2>2 DEF Ends, End
<1>2. Misjudged = {}
  BY <1>1, LimitAlwaysDecides DEF Misjudged
<1>3. LimitsAreToldApart
  BY <1>2 DEF LimitsAreToldApart
<1> QED
  BY <1>3, PTL
-----------------------------------------------------------------------------
(* The safety of the rotation: its inductive invariant. *)

Record == [status : {"absent", "running", "terminal"},
           parent : Session, account : Account \cup {None},
           rotated : BOOLEAN, session : Session, requested : Session,
           error : {"none", "limit", "other"}, marker : Marker]
Call == [pc : Step, parent : Session, account : Account \cup {None},
         place : Place, rotates : BOOLEAN, session : Session, marker : Marker,
         seen : SUBSET Run]
Writer == [by : Run, account : Account, seen : [Account -> AccountEntry] \cup {NoSnapshot}]

CliTyped ==
  \/ cli = NoCli
  \/ cli \in [op : {"login", "set", "remove"}, account : Account,
              seen : [Account -> AccountEntry]]
  \/ cli \in [op : {"delete"}, account : Account]

Copies == {"copying", "reading", "renaming"}
Before == {"idle", "queued", "cooling", "creating"} \cup Copies
Choosing == {"cooling", "creating"} \cup Copies
Locking == Choosing \cup {"recording"}
AtWork == {"spawning", "working", "settled"}

\* A call agrees with the record of its run, and from its choice of an account to
\* the record of the rotation it is the first in the queue of its parent.
CallIsRight(r) ==
  LET c == call[r] IN
  /\ c.pc = "idle" => c = Idle
  /\ c.pc \in Before => meta[r] = Absent
  /\ c.pc \in {"recording"} \cup AtWork => meta[r].status = "running"
  /\ c.pc \in {"queued", "cooling"} \cup Copies => c.rotates
  /\ c.pc \in Locking \cup AtWork => c.account # None
  /\ c.rotates => c.parent # None /\ meta[c.parent].status # "absent"
  /\ c.rotates /\ c.pc \in Locking => Holds(r)
  /\ c.pc \in {"reading", "renaming"} => meta[c.parent].session # None
  /\ c.pc = "recording" => /\ meta[r].parent = c.parent /\ meta[r].account = c.account
                           /\ meta[r].rotated = c.rotates

RecordIsRight(r) ==
  meta[r].status # "absent" =>
    /\ meta[r].account # None
    /\ meta[r].rotated => meta[r].parent # None /\ meta[meta[r].parent].status # "absent"

\* What terminal_context says, or will say, is what the worker was asked to do.
MarkerIsRight(r) ==
  LET c == call[r] IN
  /\ c.pc \in {"queued", "cooling"} \cup Copies => c.marker # "resumed"
  /\ c.marker = "resumed" => c.session # None
  /\ c.pc \in {"recording"} \cup AtWork /\ c.marker = "resumed" => meta[r].requested = c.session
  /\ c.pc \in AtWork => meta[r].marker = c.marker

RunIsRight(r) == CallIsRight(r) /\ RecordIsRight(r) /\ MarkerIsRight(r)
RunsAreRight == \A r \in Run : RunIsRight(r)

\* A queue holds calls that wait or choose, none of them twice.
InQueue(c, p) == c.parent = p /\ c.rotates /\ c.pc \in {"queued"} \cup Locking
QueuesAreRight ==
  \A p \in Run :
    /\ \A i \in DOMAIN queue[p] : InQueue(call[queue[p][i]], p)
    /\ \A i, j \in DOMAIN queue[p] : queue[p][i] = queue[p][j] => i = j

\* The memory has the account of every rotated child, once it was rebuilt, except
\* of the one that is being recorded.
BeingRecorded(c, p) == call[c].pc = "recording" /\ call[c].rotates /\ call[c].parent = p
ClaimsAreRemembered ==
  ~lost => \A p \in rebuilt : \A c \in ChildrenOf(p) :
             meta[c].account \in claimed[p] \/ BeingRecorded(c, p)

\* The account that the holder of the lock has chosen is no sibling's.
ChoiceIsFree(r) ==
  LET p == call[r].parent IN
  call[r].rotates /\ call[r].pc \in Choosing =>
    /\ call[r].account # meta[p].account
    /\ \A c \in ChildrenOf(p) : meta[c].account = call[r].account => lost
ChoicesAreFree == \A r \in Run : ChoiceIsFree(r)

ClaimsAreRight ==
  /\ ClaimsAreRemembered
  /\ ChoicesAreFree
  /\ ClaimsAreOnDisk
  /\ SiblingsOnDistinctAccounts

\* Only the holder of the registry's lock has read the registry, and what it has
\* read is not behind accounts.json; what the CLI has read is not ahead of it.
Later(entries, others) == \A a \in Account : others[a].until <= entries[a].until
Near(entries) == \A a \in Account : entries[a].until <= now + Cooldown
CooldownsAreOrdered ==
  /\ Near(registry)
  /\ \A i \in DOMAIN writers : writers[i].seen # NoSnapshot =>
       i = 1 /\ Later(writers[i].seen, registry) /\ Near(writers[i].seen)
  /\ cli # NoCli /\ cli.op # "delete" => Later(registry, cli.seen)

RegistryIsRight == CliTyped /\ CooldownsAreOrdered

RotationInvariant ==
  /\ RotationTypeOK
  /\ RunsAreRight
  /\ QueuesAreRight
  /\ ClaimsAreRight
  /\ RegistryIsRight

USE RotationAssumption DEF history, Copies
-----------------------------------------------------------------------------
LEMMA Typed ==
  RotationTypeOK <=>
    /\ meta \in [Run -> Record] /\ registry \in [Account -> AccountEntry]
    /\ files \in [Place -> [Run -> SUBSET Run]]
    /\ call \in [Run -> Call] /\ queue \in [Run -> Seq(Run)]
    /\ claimed \in [Run -> SUBSET Account] /\ rebuilt \in SUBSET Run
    /\ writers \in Seq(Writer)
    /\ now \in Nat /\ lost \in BOOLEAN /\ overtaken \in SUBSET (Place \X Run)
    /\ faults \in Nat /\ clis \in Nat /\ crashes \in Nat
BY DEF RotationTypeOK, Record, Call, Writer

LEMMA TypedNext ==
  ASSUME meta' \in [Run -> Record], registry' \in [Account -> AccountEntry],
         files' \in [Place -> [Run -> SUBSET Run]],
         call' \in [Run -> Call], queue' \in [Run -> Seq(Run)],
         claimed' \in [Run -> SUBSET Account], rebuilt' \in SUBSET Run,
         writers' \in Seq(Writer),
         now' \in Nat, lost' \in BOOLEAN, overtaken' \in SUBSET (Place \X Run),
         faults' \in Nat, clis' \in Nat, crashes' \in Nat
  PROVE  RotationTypeOK'
BY DEF RotationTypeOK, Record, Call, Writer

LEMMA StartsTyped == Absent \in Record /\ Idle \in Call /\ [Idle EXCEPT !.pc = "over"] \in Call
BY DEF Absent, Idle, Record, Call, Session, Place, Marker, Step

LEMMA InvariantInit == RotationInit => RotationInvariant
<1> SUFFICES ASSUME RotationInit PROVE RotationInvariant
  OBVIOUS
<1> USE DEF RotationInit
<1>1. RotationTypeOK
  <2>1. [listed |-> TRUE, api |-> FALSE, until |-> 0] \in AccountEntry
    BY DEF AccountEntry
  <2>2. meta \in [Run -> Record] /\ call \in [Run -> Call]
    BY StartsTyped
  <2>3. queue \in [Run -> Seq(Run)] /\ writers \in Seq(Writer)
    OBVIOUS
  <2>4. files \in [Place -> [Run -> SUBSET Run]] /\ claimed \in [Run -> SUBSET Account]
    OBVIOUS
  <2> HIDE DEF RotationInit
  <2>5. /\ registry \in [Account -> AccountEntry] /\ rebuilt \in SUBSET Run
        /\ now \in Nat /\ lost \in BOOLEAN /\ faults \in Nat /\ clis \in Nat /\ crashes \in Nat
        /\ overtaken \in SUBSET (Place \X Run)
    BY <2>1 DEF RotationInit
  <2> QED
    BY <2>2, <2>3, <2>4, <2>5, Typed
<1>2. RunsAreRight
  BY DEF RunsAreRight, RunIsRight, CallIsRight, RecordIsRight, MarkerIsRight, Absent, Idle,
     Before, Locking, Choosing, AtWork
<1>3. QueuesAreRight
  BY DEF QueuesAreRight
<1>4. \A p \in Run : ChildrenOf(p) = {}
  BY DEF ChildrenOf, Absent
<1>5. ClaimsAreRight
  BY <1>4 DEF ClaimsAreRight, ClaimsAreRemembered, ChoicesAreFree, ChoiceIsFree, Idle,
     ClaimsAreOnDisk, SiblingsOnDistinctAccounts
<1>6. RegistryIsRight
  BY DEF RegistryIsRight, CliTyped, CooldownsAreOrdered, Near, NoCli
<1> QED
  BY <1>1, <1>2, <1>3, <1>5, <1>6 DEF RotationInvariant
-----------------------------------------------------------------------------
(* Types are preserved. *)

LEMMA FieldsTyped ==
  ASSUME RotationTypeOK, NEW r \in Run
  PROVE  /\ call[r] \in Call /\ meta[r] \in Record /\ queue[r] \in Seq(Run)
         /\ claimed[r] \in SUBSET Account
         /\ call[r].parent \in Session /\ meta[r].parent \in Session
         /\ call[r].session \in Session /\ meta[r].session \in Session
         /\ call[r].account \in Account \cup {None} /\ meta[r].account \in Account \cup {None}
         /\ call[r].place \in Place /\ call[r].rotates \in BOOLEAN /\ call[r].pc \in Step
         /\ call[r].marker \in Marker
BY Typed DEF Call, Record

LEMMA GotoTyped ==
  ASSUME RotationTypeOK, NEW r \in Run, NEW step \in Step
  PROVE  [call EXCEPT ![r].pc = step] \in [Run -> Call]
<1>1. [call[r] EXCEPT !.pc = step] \in Call
  <2>1. \A c \in Call : [c EXCEPT !.pc = step] \in Call
    BY DEF Call
  <2> QED
    BY <2>1, FieldsTyped
<1> QED
  BY <1>1, Typed

LEMMA ReleaseTyped ==
  ASSUME RotationTypeOK, NEW p \in Run, queue[p] # <<>>
  PROVE  [queue EXCEPT ![p] = Tail(@)] \in [Run -> Seq(Run)]
<1>1. queue[p] \in Seq(Run)
  BY FieldsTyped
<1>2. Tail(queue[p]) \in Seq(Run)
  BY <1>1
<1> QED
  BY <1>2, Typed

LEMMA FailsTyped ==
  ASSUME RotationTypeOK, RunsAreRight, NEW r \in Run, Fails(r), call[r].rotates => Holds(r)
  PROVE  call' \in [Run -> Call] /\ queue' \in [Run -> Seq(Run)]
<1>1. call' \in [Run -> Call]
  BY GotoTyped DEF Fails, Goto, Step
<1>2. CASE call[r].rotates
  <2>1. call[r].parent \in Run /\ queue[call[r].parent] # <<>>
    BY <1>2, FieldsTyped DEF Holds, Session
  <2> QED
    BY <1>1, <1>2, <2>1, ReleaseTyped DEF Fails, Release
<1>3. CASE ~call[r].rotates
  BY <1>1, <1>3, Typed DEF Fails
<1> QED
  BY <1>2, <1>3

LEMMA PickIsHealthy ==
  ASSUME NEW passed, PickHealthyAccount(passed) # None
  PROVE  PickHealthyAccount(passed) \in Account /\ Healthy(PickHealthyAccount(passed), passed)
<1> DEFINE fit == {i \in DOMAIN Priority : Healthy(Priority[i], passed)}
<1>1. fit # {} /\ PickHealthyAccount(passed) = Priority[CHOOSE i \in fit : \A j \in fit : i <= j]
  BY DEF PickHealthyAccount
<1>2. fit \in SUBSET Nat
  BY DEF RotationAssumption
<1>3. \E i \in fit : \A j \in fit : i <= j
  BY <1>1, <1>2, FirstPosition
<1>4. PICK i \in fit : PickHealthyAccount(passed) = Priority[i]
  BY <1>1, <1>3
<1> QED
  BY <1>4 DEF RotationAssumption

LEMMA SpawnPlaceTyped ==
  ASSUME NEW a \in Account PROVE SpawnPlace(a) \in Place
BY DEF SpawnPlace, Place

LEMMA EndingsTyped ==
  ASSUME NEW ending \in Endings PROVE ending.error \in {"none", "limit", "other"}
BY DEF Endings, ErrorOf

LEMMA WriterTyped ==
  ASSUME NEW r \in Run, NEW a \in Account, RotationTypeOK
  PROVE  Append(writers, [by |-> r, seen |-> NoSnapshot, account |-> a]) \in Seq(Writer)
<1>1. [by |-> r, seen |-> NoSnapshot, account |-> a] \in Writer
  BY DEF Writer
<1> QED
  BY <1>1, Typed

LEMMA FollowUpTypes ==
  ASSUME RotationInvariant, NEW f \in Run, NEW p \in Run,
         StartRun \/ PlainFollowUp(f, p) \/ RotatingFollowUp(f, p)
  PROVE  RotationTypeOK'
<1> USE DEF disk, memory, bounds, RotationInvariant
<1>1. CASE StartRun
  <2>1. PickHealthyAccount({}) \in Account
    BY <1>1, PickIsHealthy DEF StartRun
  <2>2. [call[Root] EXCEPT !.pc = "creating", !.account = PickHealthyAccount({}),
                           !.place = SpawnPlace(PickHealthyAccount({}))] \in Call
    <3>1. \A c \in Call : [c EXCEPT !.pc = "creating", !.account = PickHealthyAccount({}),
                              !.place = SpawnPlace(PickHealthyAccount({}))] \in Call
      BY <2>1, SpawnPlaceTyped DEF Call, Step
    <3> QED
      BY <3>1, FieldsTyped
  <2>3. call' \in [Run -> Call]
    BY <1>1, <2>2, Typed DEF StartRun
  <2> QED
    BY <1>1, <2>3, Typed, TypedNext DEF StartRun
<1>2. CASE PlainFollowUp(f, p)
  <2>1. meta[p].account \in Account /\ meta[p].session \in Session
    BY <1>2, FieldsTyped DEF PlainFollowUp, RunsAreRight, RunIsRight, RecordIsRight
  <2>2. [call[f] EXCEPT !.pc = "creating", !.parent = p, !.account = meta[p].account,
            !.place = SpawnPlace(meta[p].account), !.session = meta[p].session] \in Call
    <3>1. SpawnPlace(meta[p].account) \in Place /\ p \in Session /\ "creating" \in Step
      BY <2>1, SpawnPlaceTyped DEF Step, Session
    <3>2. call[f] \in Call
      BY FieldsTyped
    <3> QED
      BY <2>1, <3>1, <3>2 DEF Call
  <2>3. call' \in [Run -> Call]
    BY <1>2, <2>2, Typed DEF PlainFollowUp
  <2> QED
    BY <1>2, <2>3, Typed, TypedNext DEF PlainFollowUp
<1>3. CASE RotatingFollowUp(f, p)
  <2>1. [call[f] EXCEPT !.pc = "queued", !.parent = p, !.rotates = TRUE] \in Call
    <3>1. \A c \in Call : [c EXCEPT !.pc = "queued", !.parent = p, !.rotates = TRUE] \in Call
      BY DEF Call, Step, Session
    <3> QED
      BY <3>1, FieldsTyped
  <2>2. call' \in [Run -> Call]
    BY <1>3, <2>1, Typed DEF RotatingFollowUp
  <2>3. Append(queue[p], f) \in Seq(Run)
    BY FieldsTyped
  <2>4. queue' \in [Run -> Seq(Run)]
    BY <1>3, <2>3, Typed DEF RotatingFollowUp
  <2> QED
    BY <1>3, <2>2, <2>4, Typed, TypedNext DEF RotatingFollowUp
<1> QED
  BY <1>1, <1>2, <1>3

LEMMA ParentOfRotation ==
  ASSUME RotationInvariant, NEW r \in Run, call[r].rotates
  PROVE  call[r].parent \in Run /\ meta[call[r].parent].status # "absent"
         /\ meta[call[r].parent].account \in Account
BY FieldsTyped DEF RotationInvariant, RunsAreRight, RunIsRight, CallIsRight, RecordIsRight, Session

LEMMA RebuildTypes ==
  ASSUME RotationInvariant, NEW p \in Run, RebuildClaims(p)
  PROVE  /\ claimed' \in [Run -> SUBSET Account] /\ rebuilt' \in SUBSET Run
         /\ lost' \in BOOLEAN /\ faults' \in Nat
<1> USE DEF RotationInvariant
<1>1. CASE p \in rebuilt
  BY <1>1, Typed DEF RebuildClaims
<1>2. CASE p \notin rebuilt
  <2>1. rebuilt' \in SUBSET Run
    BY <1>2, Typed DEF RebuildClaims
  <2>2. CASE claimed' = [claimed EXCEPT ![p] = ClaimedDestinations(p)] /\ UNCHANGED <<lost, faults>>
    <3>1. ClaimedDestinations(p) \in SUBSET Account
      BY FieldsTyped DEF ClaimedDestinations, ChildrenOf, RunsAreRight, RunIsRight, RecordIsRight
    <3> QED
      BY <2>1, <2>2, <3>1, Typed
  <2>3. CASE Faulty /\ claimed' = [claimed EXCEPT ![p] = {}]
             /\ lost' = (lost \/ ClaimedDestinations(p) # {})
    <3>1. lost' \in BOOLEAN
      BY <2>3
    <3>2. faults' \in Nat
      BY <2>3, Typed DEF Faulty
    <3>3. claimed' \in [Run -> SUBSET Account]
      BY <2>3, Typed
    <3> QED
      BY <2>1, <3>1, <3>2, <3>3
  <2> QED
    BY <1>2, <2>2, <2>3 DEF RebuildClaims
<1> QED
  BY <1>1, <1>2

\* The three steps of a copy: what they leave alone, and the call after them.
CopyStep(f) == CheckTarget(f) \/ ReadSource(f) \/ RenameCopy(f)

KeepsCall(f) ==
  /\ call'[f].parent = call[f].parent /\ call'[f].account = call[f].account
  /\ call'[f].place = call[f].place /\ call'[f].rotates = call[f].rotates
  /\ \A q \in Run \ {f} : call'[q] = call[q]

LEMMA CopyingCall ==
  ASSUME RotationInvariant, NEW f \in Run, call[f].pc \in Copies
  PROVE  /\ call[f].parent \in Run /\ Source(f) \in Account /\ call[f].account \in Account
         /\ Conversation(f) \in Session /\ Holds(f) /\ call[f].rotates
         /\ Source(f) \in Place /\ call[f].account \in Place
         /\ call[f].pc # "copying" => Conversation(f) \in Run
<1>1. /\ call[f].rotates /\ Holds(f) /\ call[f].account # None
      /\ call[f].pc # "copying" => meta[call[f].parent].session # None
  BY DEF RotationInvariant, RunsAreRight, RunIsRight, CallIsRight, Locking, Choosing
<1> QED
  BY <1>1, ParentOfRotation, FieldsTyped DEF RotationInvariant, Source, Conversation, Place, Session

LEMMA CopyFrames ==
  ASSUME RotationInvariant, NEW f \in Run, CopyStep(f)
  PROVE  /\ UNCHANGED <<meta, registry, queue, claimed, rebuilt, writers, cli, now, lost, clis, crashes>>
         /\ faults' \in {faults, faults + 1} /\ call[f].pc \in Copies
         /\ RenameCopy(f) \/ UNCHANGED <<files, overtaken>>
<1>1. call[f].pc \in Copies
  BY DEF CopyStep, CheckTarget, ReadSource, RenameCopy
<1>2. RenameCopy(f) \/ UNCHANGED <<files, overtaken>>
  BY DEF CopyStep, CheckTarget, ReadSource, CopiesNothing
<1>3. UNCHANGED <<meta, registry, queue, claimed, rebuilt, writers, cli, now, lost, clis, crashes>>
  BY DEF CopyStep, CheckTarget, ReadSource, RenameCopy, CopyFrame
<1>4. faults' \in {faults, faults + 1}
  BY DEF CopyStep, CheckTarget, ReadSource, RenameCopy, Faulty
<1> QED
  BY <1>1, <1>2, <1>3, <1>4

\* The call after a step of its copy.
CopyMoved(f) ==
  \/ /\ call'[f].pc \in {"reading", "renaming"} /\ Conversation(f) \in Run
     /\ call'[f].session = call[f].session /\ call'[f].marker = call[f].marker
  \/ /\ call'[f].pc = "creating" /\ call'[f].marker = "fresh" /\ call'[f].session = call[f].session
  \/ /\ call'[f].pc = "creating" /\ call'[f].marker = "resumed"
     /\ call'[f].session = Conversation(f) /\ Conversation(f) \in Run /\ call[f].pc # "copying"

LEMMA CallAfterCopyStep ==
  ASSUME RotationInvariant, NEW f \in Run, CopyStep(f)
  PROVE  /\ call' \in [Run -> Call] /\ KeepsCall(f) /\ CopyMoved(f)
<1>1. call \in [Run -> Call] /\ call[f] \in Call
  BY Typed, FieldsTyped DEF RotationInvariant
<1>2. CASE StartsAfresh(f)
  <2>1. [call[f] EXCEPT !.pc = "creating", !.marker = "fresh", !.seen = {}] \in Call
    BY <1>1 DEF Call, Step, Marker
  <2>2. call' = [call EXCEPT ![f] = [call[f] EXCEPT !.pc = "creating", !.marker = "fresh", !.seen = {}]]
    BY <1>1, <1>2 DEF StartsAfresh
  <2>3. call' \in [Run -> Call]
    BY <1>1, <2>1, <2>2
  <2> QED
    BY <1>1, <2>2, <2>3 DEF KeepsCall, CopyMoved, Call
<1>3. CASE GoesOnWith(f, Conversation(f)) /\ Conversation(f) \in Run /\ call[f].pc # "copying"
  <2>1. PICK s \in Run : s = Conversation(f)
    BY <1>3
  <2>2. call' = [call EXCEPT ![f] = [call[f] EXCEPT !.pc = "creating", !.marker = "resumed",
                                                   !.session = s, !.seen = {}]]
    BY <1>1, <1>3, <2>1 DEF GoesOnWith
  <2>3. [call[f] EXCEPT !.pc = "creating", !.marker = "resumed", !.session = s, !.seen = {}] \in Call
    BY <1>1, <2>1 DEF Call, Step, Marker, Session
  <2>4. call' \in [Run -> Call]
    BY <1>1, <2>2, <2>3
  <2> QED
    BY <1>1, <1>3, <2>1, <2>2, <2>4 DEF KeepsCall, CopyMoved, Call
<1>4. ASSUME NEW step \in {"reading", "renaming"}, NEW file \in SUBSET Run, Reads(f, step, file),
             Conversation(f) \in Run
      PROVE  /\ call' \in [Run -> Call] /\ KeepsCall(f) /\ CopyMoved(f)
  <2>1. call' = [call EXCEPT ![f] = [call[f] EXCEPT !.pc = step, !.seen = file]]
    BY <1>1, <1>4 DEF Reads
  <2>2. [call[f] EXCEPT !.pc = step, !.seen = file] \in Call
    BY <1>1, <1>4 DEF Call, Step
  <2>3. call' \in [Run -> Call]
    BY <1>1, <2>1, <2>2
  <2> QED
    BY <1>1, <1>4, <2>1, <2>3 DEF KeepsCall, CopyMoved, Call
<1>5. CASE CheckTarget(f)
  <2>1. CASE Copyable(f) /\ Reads(f, "reading", TargetFile(call[f].account, Conversation(f)))
    <3>1. Conversation(f) \in Run /\ call[f].account \in Place
      BY <1>5, <2>1, CopyingCall DEF CheckTarget, Copyable, Session
    <3>2. TargetFile(call[f].account, Conversation(f)) \in SUBSET Run
      BY <3>1, Typed DEF TargetFile, RotationInvariant
    <3> QED
      BY <1>4, <2>1, <3>1, <3>2
  <2> QED
    BY <1>2, <1>5, <2>1 DEF CheckTarget
<1>6. CASE ReadSource(f)
  <2>1. Conversation(f) \in Run /\ Source(f) \in Place /\ call[f].pc # "copying"
    BY <1>6, CopyingCall DEF ReadSource
  <2>2. SourceFile(f) \in SUBSET Run
    BY <2>1, Typed DEF SourceFile, RotationInvariant
  <2>3. Reads(f, "renaming", SourceFile(f)) \/ GoesOnWith(f, Conversation(f)) \/ StartsAfresh(f)
    BY <1>6 DEF ReadSource
  <2> QED
    BY <1>2, <1>3, <1>4, <2>1, <2>2, <2>3
<1>7. CASE RenameCopy(f)
  <2>1. Conversation(f) \in Run /\ call[f].pc # "copying"
    BY <1>7, CopyingCall DEF RenameCopy
  <2>2. GoesOnWith(f, Conversation(f)) \/ StartsAfresh(f)
    BY <1>7 DEF RenameCopy
  <2> QED
    BY <1>2, <1>3, <2>1, <2>2
<1> QED
  BY <1>5, <1>6, <1>7 DEF CopyStep

\* What a rename writes, and where.
Renames(f) ==
  /\ call[f].seen # {} /\ files' = [files EXCEPT ![call[f].account][Conversation(f)] = call[f].seen]
  /\ overtaken' = overtaken \cup
       {<<call[f].account, Conversation(f)>> :
          other \in {o \in Run \ {f} : FoundNoTarget(o, call[f].account, Conversation(f))}}
  /\ GoesOnWith(f, Conversation(f))

LEMMA RenameWrites ==
  ASSUME RotationInvariant, NEW f \in Run, RenameCopy(f)
  PROVE  /\ call[f].pc = "renaming" /\ call[f].account \in Place /\ Conversation(f) \in Run
         /\ call[f].seen \in SUBSET Run
         /\ Renames(f) \/ (StartsAfresh(f) /\ UNCHANGED <<files, overtaken>>)
<1>1. call[f].pc = "renaming"
  BY DEF RenameCopy
<1>2. call[f].account \in Place /\ Conversation(f) \in Run
  BY <1>1, CopyingCall
<1>4. call[f].seen \in SUBSET Run
  BY FieldsTyped DEF RotationInvariant, Call
<1>3. Renames(f) \/ (StartsAfresh(f) /\ UNCHANGED <<files, overtaken>>)
  BY DEF RenameCopy, Renames, Copied, CopiesNothing
<1> QED
  BY <1>1, <1>2, <1>4, <1>3

LEMMA CopyTypes ==
  ASSUME RotationInvariant, NEW f \in Run, CopyStep(f)
  PROVE  RotationTypeOK'
<1>1. call' \in [Run -> Call]
  BY CallAfterCopyStep
<1>2. files' \in [Place -> [Run -> SUBSET Run]] /\ overtaken' \in SUBSET (Place \X Run)
  <2>1. CASE UNCHANGED <<files, overtaken>>
    BY <2>1, Typed DEF RotationInvariant
  <2>2. CASE Renames(f) /\ RenameCopy(f)
    <3>1. PICK to \in Place, s \in Run, file \in SUBSET Run :
            to = call[f].account /\ s = Conversation(f) /\ file = call[f].seen
      BY <2>2, RenameWrites
    <3>2. files' = [files EXCEPT ![to][s] = file]
      BY <2>2, <3>1 DEF Renames
    <3>3. files' \in [Place -> [Run -> SUBSET Run]]
      BY <3>1, <3>2, Typed DEF RotationInvariant
    <3>4. overtaken' \in SUBSET (overtaken \cup {<<to, s>>})
      BY <2>2, <3>1 DEF Renames
    <3>5. overtaken' \in SUBSET (Place \X Run)
      BY <3>1, <3>4, Typed DEF RotationInvariant
    <3> QED
      BY <3>3, <3>5
  <2> QED
    BY <2>1, <2>2, CopyFrames, RenameWrites
<1>3. UNCHANGED <<meta, registry, queue, claimed, rebuilt, writers, cli, now, lost, clis, crashes>>
  BY CopyFrames
<1>4. faults' \in Nat
  <2>1. faults \in Nat /\ faults' \in {faults, faults + 1}
    BY CopyFrames, Typed DEF RotationInvariant
  <2> QED
    BY <2>1
<1> QED
  BY <1>1, <1>2, <1>3, <1>4, Typed, TypedNext DEF RotationInvariant

LEMMA CallTypes ==
  ASSUME RotationInvariant, NEW r \in Run, CallStep(r)
  PROVE  RotationTypeOK'
<1> USE DEF disk, memory, bounds, RotationInvariant
<1>r. RunIsRight(r)
  BY DEF RunsAreRight
<1>1. CASE PickAccount(r)
  <2> DEFINE p == call[r].parent
  <2> DEFINE a == PickHealthyAccount(Passed(p))
  <2>1. call[r].rotates /\ p \in Run /\ meta[p].account \in Account
    BY <1>1, <1>r, ParentOfRotation DEF PickAccount, RunIsRight, CallIsRight
  <2>2. /\ claimed' \in [Run -> SUBSET Account] /\ rebuilt' \in SUBSET Run
        /\ lost' \in BOOLEAN /\ faults' \in Nat
    BY <1>1, <2>1, RebuildTypes DEF PickAccount
  <2>3. CASE a = None
    <3>1. Fails(r) /\ UNCHANGED writers
      BY <1>1, <2>3 DEF PickAccount
    <3>2. call' \in [Run -> Call] /\ queue' \in [Run -> Seq(Run)]
      BY <3>1, <1>1, FailsTyped DEF PickAccount
    <3> QED
      BY <1>1, <2>2, <3>1, <3>2, Typed, TypedNext DEF PickAccount
  <2>4. CASE a # None
    <3>1. a \in Account
      BY <2>4, PickIsHealthy
    <3>2. /\ call' = [call EXCEPT ![r].pc = "cooling", ![r].account = a, ![r].place = SpawnPlace(a)]
          /\ writers' = Append(writers, [by |-> r, seen |-> NoSnapshot, account |-> meta[p].account])
          /\ UNCHANGED queue
      BY <1>1, <2>4 DEF PickAccount
    <3> HIDE DEF a
    <3>3. [call[r] EXCEPT !.pc = "cooling", !.account = a, !.place = SpawnPlace(a)] \in Call
      <4>1. \A c \in Call : [c EXCEPT !.pc = "cooling", !.account = a, !.place = SpawnPlace(a)] \in Call
        BY <3>1, SpawnPlaceTyped DEF Call, Step
      <4> QED
        BY <4>1, FieldsTyped
    <3>4. call' \in [Run -> Call]
      BY <3>2, <3>3, Typed
    <3>5. writers' \in Seq(Writer)
      BY <2>1, <3>2, WriterTyped
    <3> QED
      BY <1>1, <2>2, <3>2, <3>4, <3>5, Typed, TypedNext DEF PickAccount
  <2> QED
    BY <2>3, <2>4
<1>2. CASE CopyStep(r)
  BY <1>2, CopyTypes
<1>3. CASE CreateRun(r)
  <2>1. NewRecord(call[r]) \in Record
    BY FieldsTyped, StartsTyped DEF NewRecord, Record, Session
  <2>2. meta' \in [Run -> Record] /\ faults' \in Nat
    <3>1. meta' \in [Run -> Record]
      BY <1>3, <2>1, Typed DEF CreateRun
    <3>2. faults' = faults \/ faults' = faults + 1
      BY <1>3 DEF CreateRun, Faulty
    <3> QED
      BY <3>1, <3>2, Typed
  <2>3. call' \in [Run -> Call] /\ queue' \in [Run -> Seq(Run)]
    <3>1. CASE Fails(r)
      BY <1>3, <1>r, <3>1, FailsTyped DEF CreateRun, RunIsRight, CallIsRight, Locking, Choosing
    <3>2. CASE Goto(r, "recording") /\ UNCHANGED queue
      BY <3>2, GotoTyped, Typed DEF Goto, Step
    <3> QED
      BY <1>3, <3>1, <3>2 DEF CreateRun
  <2> QED
    BY <1>3, <2>2, <2>3, Typed, TypedNext DEF CreateRun
<1>4. CASE RecordRun(r)
  <2>1. [meta[r] EXCEPT !.marker = call[r].marker] \in Record
    BY FieldsTyped DEF Record
  <2>2. meta' \in [Run -> Record] /\ faults' \in Nat
    <3>1. meta' \in [Run -> Record]
      BY <1>4, <2>1, Typed DEF RecordRun
    <3>2. faults' = faults \/ faults' = faults + 1
      BY <1>4 DEF RecordRun, Faulty
    <3> QED
      BY <3>1, <3>2, Typed
  <2>3. lost' \in BOOLEAN
    BY <1>4, Typed DEF RecordRun
  <2>4. call[r].rotates => Holds(r) /\ call[r].parent \in Run /\ queue[call[r].parent] # <<>>
    BY <1>4, <1>r, ParentOfRotation DEF RecordRun, RunIsRight, CallIsRight, Locking, Holds
  <2>5. claimed' \in [Run -> SUBSET Account]
    <3>1. CASE UNCHANGED claimed
      BY <3>1, Typed
    <3>2. CASE call[r].rotates /\ claimed' = [claimed EXCEPT ![call[r].parent] = @ \cup {call[r].account}]
      <4>1. call[r].account \in Account
        BY <1>4, <1>r, FieldsTyped DEF RecordRun, RunIsRight, CallIsRight, Locking
      <4> QED
        BY <2>4, <3>2, <4>1, Typed
    <3> QED
      BY <1>4, <3>1, <3>2 DEF RecordRun
  <2>6. call' \in [Run -> Call] /\ queue' \in [Run -> Seq(Run)]
    <3>1. CASE Fails(r)
      BY <2>4, <3>1, FailsTyped
    <3>2. CASE Goto(r, "spawning") /\ IF call[r].rotates THEN Release(call[r].parent) ELSE UNCHANGED queue
      <4>1. call' \in [Run -> Call]
        BY <3>2, GotoTyped DEF Goto, Step
      <4>2. queue' \in [Run -> Seq(Run)]
        <5>1. CASE call[r].rotates
          <6>1. queue' = [queue EXCEPT ![call[r].parent] = Tail(@)]
            BY <3>2, <5>1 DEF Release
          <6> QED
            BY <2>4, <5>1, <6>1, ReleaseTyped
        <5>2. CASE ~call[r].rotates
          BY <3>2, <5>2, Typed
        <5> QED
          BY <5>1, <5>2
      <4> QED
        BY <4>1, <4>2
    <3> QED
      BY <1>4, <3>1, <3>2 DEF RecordRun
  <2> QED
    BY <1>4, <2>2, <2>3, <2>5, <2>6, Typed, TypedNext DEF RecordRun
<1>5. CASE Spawn(r)
  BY <1>5, GotoTyped, Typed, TypedNext DEF Spawn, Goto, Step
<1>6. CASE SpawnAfresh(r)
  <2>1. [call[r] EXCEPT !.pc = "working", !.session = None, !.marker = "fresh"] \in Call
    <3>1. \A c \in Call : [c EXCEPT !.pc = "working", !.session = None, !.marker = "fresh"] \in Call
      BY DEF Call, Step, Session, Marker
    <3> QED
      BY <3>1, FieldsTyped
  <2>2. [meta[r] EXCEPT !.requested = None, !.marker = "fresh"] \in Record
    <3>1. meta[r] \in Record /\ None \in Session /\ "fresh" \in Marker
      BY Typed DEF Session, Marker
    <3> QED
      BY <3>1 DEF Record
  <2>3. call' \in [Run -> Call] /\ meta' \in [Run -> Record]
    BY <1>6, <2>1, <2>2, Typed DEF SpawnAfresh
  <2> QED
    BY <1>6, <2>3, Typed, TypedNext DEF SpawnAfresh
<1>7. CASE FailPreSpawn(r)
  <2>1. [meta[r] EXCEPT !.status = "terminal", !.error = "other"] \in Record
    BY FieldsTyped DEF Record
  <2>2. call' \in [Run -> Call] /\ meta' \in [Run -> Record]
    BY <1>7, <2>1, GotoTyped, Typed DEF FailPreSpawn, Goto, Step
  <2> QED
    BY <1>7, <2>2, Typed, TypedNext DEF FailPreSpawn
<1> QED
  BY <1>1, <1>2, <1>3, <1>4, <1>5, <1>6, <1>7 DEF CallStep, CopyStep

LEMMA WriterFields ==
  ASSUME RotationTypeOK, NEW i \in DOMAIN writers
  PROVE  /\ writers[i] \in Writer /\ i \in 1..Len(writers) /\ writers \in Seq(Writer)
         /\ writers[i].by \in Run /\ writers[i].account \in Account
         /\ writers[i].seen # NoSnapshot => writers[i].seen \in [Account -> AccountEntry]
<1>1. writers \in Seq(Writer) /\ i \in 1..Len(writers)
  BY Typed
<1>2. writers[i] \in Writer
  BY <1>1
<1>3. writers[i].seen \in [Account -> AccountEntry] \cup {NoSnapshot}
  BY <1>2 DEF Writer
<1>4. writers[i].by \in Run /\ writers[i].account \in Account
  BY <1>2 DEF Writer
<1> QED
  BY <1>1, <1>2, <1>3, <1>4

\* A mark that has read the registry is the first in its lock.
LEMMA MarkedEntries ==
  ASSUME RotationInvariant, NEW i \in DOMAIN writers, MarkWrite(i)
  PROVE  /\ i = 1
         /\ registry' \in [Account -> AccountEntry]
         /\ Later(registry', registry)
         /\ Near(registry')
<1> USE DEF RotationInvariant, RegistryIsRight
<1> DEFINE w == writers[i]
<1>1. w.seen # NoSnapshot /\ w.seen \in [Account -> AccountEntry] /\ w.account \in Account
  BY WriterFields DEF MarkWrite
<1>2. i = 1 /\ Later(w.seen, registry) /\ Near(w.seen)
  BY <1>1 DEF CooldownsAreOrdered
<1>3. registry \in [Account -> AccountEntry] /\ now \in Nat /\ Near(registry)
  BY Typed DEF CooldownsAreOrdered
<1>4. \A a \in Account : w.seen[a].until \in Nat /\ registry[a].until \in Nat
  BY <1>1, <1>3 DEF AccountEntry
<1>5. CASE registry' = registry
  BY <1>2, <1>3, <1>4, <1>5 DEF Later, Near, MarkWrite
<1>6. CASE registry' = [w.seen EXCEPT ![w.account].until = now + Cooldown]
  <2>1. [w.seen[w.account] EXCEPT !.until = now + Cooldown] \in AccountEntry
    <3>1. w.seen[w.account] \in AccountEntry
      BY <1>1
    <3>2. now + Cooldown \in Nat
      BY <1>3 DEF RotationAssumption
    <3> HIDE DEF w
    <3> QED
      BY <3>1, <3>2 DEF AccountEntry
  <2>2. registry' \in [Account -> AccountEntry]
    BY <1>1, <1>6, <2>1
  <2>3. \A a \in Account : registry'[a].until = IF a = w.account THEN now + Cooldown ELSE w.seen[a].until
    BY <1>1, <1>6 DEF AccountEntry
  <2>4. Later(registry', registry)
    <3> SUFFICES ASSUME NEW a \in Account PROVE registry[a].until <= registry'[a].until
      BY DEF Later
    <3>1. registry[a].until <= w.seen[a].until /\ registry[a].until <= now + Cooldown
      BY <1>2, <1>3 DEF Later, Near
    <3> QED
      BY <2>3, <3>1
  <2>5. Near(registry')
    <3> SUFFICES ASSUME NEW a \in Account PROVE registry'[a].until <= now + Cooldown
      <4>1. now' = now
        BY DEF MarkWrite
      <4> QED
        BY DEF Near
    <3>1. w.seen[a].until <= now + Cooldown
      BY <1>2 DEF Near
    <3> QED
      BY <1>3, <2>3, <3>1 DEF RotationAssumption
  <2> QED
    BY <1>2, <2>2, <2>4, <2>5
<1> QED
  BY <1>5, <1>6 DEF MarkWrite

LEMMA WithoutTyped ==
  ASSUME RotationTypeOK, NEW i \in DOMAIN writers
  PROVE  WithoutWriter(i) \in Seq(Writer)
<1>1. Len(writers) - 1 \in Nat /\ writers \in Seq(Writer) /\ i \in 1..Len(writers)
  BY WriterFields
<1>2. \A j \in 1..(Len(writers) - 1) : (IF j < i THEN writers[j] ELSE writers[j + 1]) \in Writer
  BY <1>1
<1> QED
  BY <1>1, <1>2 DEF WithoutWriter

LEMMA RegistryTypes ==
  ASSUME RotationInvariant, RegistryStep
  PROVE  RotationTypeOK'
<1> USE DEF disk, memory, bounds, RotationInvariant
<1>1. PICK i \in DOMAIN writers : MarkRead(i) \/ MarkWrite(i)
  BY DEF RegistryStep
<1>2. CASE MarkRead(i)
  <2>1. [writers[i] EXCEPT !.seen = registry] \in Writer
    BY WriterFields, Typed DEF Writer
  <2>2. writers' \in Seq(Writer)
    BY <1>2, <2>1, WriterFields DEF MarkRead
  <2> QED
    BY <1>2, <2>2, Typed, TypedNext DEF MarkRead
<1>3. CASE MarkWrite(i)
  <2>1. call' \in [Run -> Call]
    <3>1. call' = call \/ call' = [call EXCEPT ![writers[i].by].pc = "copying"]
      BY <1>3 DEF MarkWrite
    <3> QED
      <4>1. writers[i].by \in Run /\ "copying" \in Step
        BY WriterFields DEF Step
      <4>2. [call EXCEPT ![writers[i].by].pc = "copying"] \in [Run -> Call]
        BY <4>1, GotoTyped
      <4> QED
        BY <3>1, <4>2, Typed
  <2>2. writers' \in Seq(Writer)
    BY <1>3, WithoutTyped DEF MarkWrite
  <2>3. faults' \in Nat
    BY <1>3, Typed DEF MarkWrite, Faulty
  <2>4. UNCHANGED <<meta, files, queue, claimed, rebuilt, cli, now, lost, overtaken, clis, crashes>>
    BY <1>3 DEF MarkWrite
  <2> QED
    BY <1>3, <2>1, <2>2, <2>3, <2>4, MarkedEntries, Typed, TypedNext
<1> QED
  BY <1>1, <1>2, <1>3

LEMMA CliTypes ==
  ASSUME RotationInvariant,
         \/ \E a \in Touched : Login(a) \/ SetKey(a) \/ RemoveAccount(a)
         \/ CliWrite \/ DeleteConfigDir
  PROVE  RotationTypeOK'
<1> USE DEF disk, memory, bounds, RotationInvariant
<1>1. ASSUME NEW op, NEW a, CliRead(op, a) PROVE RotationTypeOK'
  BY <1>1, Typed, TypedNext DEF CliRead
<1>2. CASE CliWrite
  <2>1. cli \in [op : {"login", "set", "remove"}, account : Account, seen : [Account -> AccountEntry]]
    BY <1>2 DEF CliWrite, RegistryIsRight, CliTyped
  <2>2. \A api \in BOOLEAN : Upserted(api) \in AccountEntry
    BY DEF Upserted, AccountEntry
  <2>3. Removed(cli.seen[cli.account]) \in AccountEntry
    <3>1. cli.account \in Account /\ cli.seen \in [Account -> AccountEntry]
      BY <2>1
    <3>2. \A e \in AccountEntry : [e EXCEPT !.listed = FALSE, !.api = FALSE, !.until = 0] \in AccountEntry
      BY DEF AccountEntry
    <3> QED
      BY <3>1, <3>2 DEF Removed
  <2>4. registry' \in [Account -> AccountEntry]
    BY <1>2, <2>1, <2>2, <2>3 DEF CliWrite
  <2> QED
    BY <1>2, <2>4, Typed, TypedNext DEF CliWrite
<1>3. CASE DeleteConfigDir
  <2>1. /\ files' \in [Place -> [Run -> SUBSET Run]]
        /\ UNCHANGED <<meta, registry, queue, claimed, rebuilt, writers, now, lost, overtaken,
                       faults, clis, crashes>>
    BY <1>3, Typed DEF DeleteConfigDir
  <2>2. call' \in [Run -> Call]
    <3>1. \A r \in Run : [call[r] EXCEPT !.seen = {}] \in Call
      <4>1. \A c \in Call : [c EXCEPT !.seen = {}] \in Call
        BY DEF Call
      <4> QED
        BY <4>1, Typed
    <3>2. call \in [Run -> Call]
      BY Typed
    <3> QED
      BY <1>3, <3>1, <3>2 DEF DeleteConfigDir
  <2> QED
    BY <2>1, <2>2, Typed, TypedNext
<1> QED
  BY <1>1, <1>2, <1>3 DEF Login, SetKey, RemoveAccount

LEMMA WorkerTypes ==
  ASSUME RotationInvariant, NEW r \in Run, WorkerStep(r)
  PROVE  RotationTypeOK'
<1> USE DEF disk, memory, bounds, RotationInvariant
<1>r. RunIsRight(r)
  BY DEF RunsAreRight
<1>1. CASE OpenSession(r)
  <2> DEFINE s == IF call[r].session = None THEN r ELSE call[r].session
  <2>1. s \in Run /\ call[r].place \in Place
    BY FieldsTyped DEF Session
  <2>2. meta' = [meta EXCEPT ![r].session = s] /\ files' = [files EXCEPT ![call[r].place][s] = @ \cup {r}]
    BY <1>1 DEF OpenSession
  <2> HIDE DEF s
  <2>3. [meta[r] EXCEPT !.session = s] \in Record
    BY <2>1, FieldsTyped DEF Record, Session
  <2>4. meta' \in [Run -> Record]
    BY <2>2, <2>3, Typed
  <2>5. files' \in [Place -> [Run -> SUBSET Run]]
    BY <2>1, <2>2, Typed
  <2>6. call' \in [Run -> Call]
    BY <1>1, GotoTyped DEF OpenSession, Goto, Step
  <2> QED
    BY <1>1, <2>4, <2>5, <2>6, Typed, TypedNext DEF OpenSession
<1>2. CASE RetryAfresh(r)
  <2>1. [call[r] EXCEPT !.session = None, !.marker = "fresh"] \in Call
    <3>1. \A c \in Call : [c EXCEPT !.session = None, !.marker = "fresh"] \in Call
      BY DEF Call, Session, Marker
    <3> QED
      BY <3>1, FieldsTyped
  <2>2. [meta[r] EXCEPT !.marker = "fresh"] \in Record
    BY FieldsTyped DEF Record, Marker
  <2>3. call' \in [Run -> Call] /\ meta' \in [Run -> Record]
    BY <1>2, <2>1, <2>2, Typed DEF RetryAfresh, OnRetryFired
  <2> QED
    BY <1>2, <2>3, Typed, TypedNext DEF RetryAfresh
<1>3. ASSUME NEW ending \in Endings, EndRun(r, ending) PROVE RotationTypeOK'
  <2>1. [meta[r] EXCEPT !.status = "terminal", !.error = ending.error] \in Record
    BY FieldsTyped, EndingsTyped DEF Record
  <2>2. meta' \in [Run -> Record]
    BY <1>3, <2>1, Typed DEF EndRun
  <2>3. call' \in [Run -> Call]
    BY <1>3, GotoTyped DEF EndRun, Goto, Step
  <2>4. meta[r].account \in Account
    BY <1>3, <1>r, FieldsTyped DEF EndRun, RunIsRight, CallIsRight, RecordIsRight, AtWork
  <2>5. writers' \in Seq(Writer)
    BY <1>3, <2>4, WriterTyped, Typed DEF EndRun
  <2> QED
    BY <1>3, <2>2, <2>3, <2>5, Typed, TypedNext DEF EndRun
<1> QED
  BY <1>1, <1>2, <1>3 DEF WorkerStep

LEMMA CrashTypes ==
  ASSUME RotationInvariant, Crash
  PROVE  RotationTypeOK'
<1> USE DEF disk, memory, bounds, RotationInvariant
<1>1. call' \in [Run -> Call]
  BY StartsTyped, Typed DEF Crash
<1>2. meta' \in [Run -> Record]
  <2>1. PICK saved \in [{r \in Run : call[r].pc \in {"working", "settled"}} -> {"none", "limit", "other"}] :
          meta' = [r \in Run |-> IF meta[r].status # "running" THEN meta[r]
                    ELSE [meta[r] EXCEPT !.status = "terminal",
                                         !.error = IF r \in DOMAIN saved THEN saved[r] ELSE "none"]]
    BY DEF Crash
  <2>2. \A r \in Run, e \in {"none", "limit", "other"} :
          [meta[r] EXCEPT !.status = "terminal", !.error = e] \in Record
    <3>1. \A m \in Record, e \in {"none", "limit", "other"} :
            [m EXCEPT !.status = "terminal", !.error = e] \in Record
      BY DEF Record
    <3> QED
      BY <3>1, FieldsTyped
  <2>3. \A r \in Run : (IF r \in DOMAIN saved THEN saved[r] ELSE "none") \in {"none", "limit", "other"}
    OBVIOUS
  <2> QED
    BY <2>1, <2>2, <2>3, Typed
<1>3. queue' \in [Run -> Seq(Run)] /\ claimed' \in [Run -> SUBSET Account] /\ rebuilt' \in SUBSET Run
  <2>1. /\ queue' = [r \in Run |-> <<>>] /\ claimed' = [r \in Run |-> {}] /\ rebuilt' = {}
    BY DEF Crash
  <2>2. <<>> \in Seq(Run)
    OBVIOUS
  <2> QED
    BY <2>1, <2>2
<1>4. writers' \in Seq(Writer)
  <2>1. writers' = <<>>
    BY DEF Crash
  <2> QED
    BY <2>1
<1>5. UNCHANGED <<registry, files, cli, now, lost, overtaken, faults, clis>> /\ crashes' = crashes + 1
  BY DEF Crash
<1> QED
  BY <1>1, <1>2, <1>3, <1>4, <1>5, Typed, TypedNext
-----------------------------------------------------------------------------
(* The registry *)

LEMMA EntriesAreNumbers ==
  ASSUME RotationInvariant
  PROVE  /\ now \in Nat /\ Cooldown \in Nat
         /\ \A a \in Account : registry[a].until \in Nat
         /\ \A i \in DOMAIN writers : writers[i].seen # NoSnapshot =>
              \A a \in Account : writers[i].seen[a].until \in Nat
         /\ cli # NoCli /\ cli.op # "delete" => \A a \in Account : cli.seen[a].until \in Nat
<1> USE DEF RotationInvariant
<1>1. \A entries \in [Account -> AccountEntry], a \in Account : entries[a].until \in Nat
  BY DEF AccountEntry
<1>2. ASSUME cli # NoCli, cli.op # "delete" PROVE cli.seen \in [Account -> AccountEntry]
  BY <1>2 DEF RegistryIsRight, CliTyped
<1> QED
  BY <1>1, <1>2, WriterFields, Typed DEF RotationAssumption

\* Waiting in the registry's lock, leaving it for good and the clock change nothing.
LEMMA RegistryFrame ==
  ASSUME RotationInvariant, UNCHANGED <<registry, cli>>, now' \in {now, now + 1},
         \/ writers' = writers
         \/ writers' = <<>>
         \/ \E w : writers' = Append(writers, w) /\ w.seen = NoSnapshot
  PROVE  RegistryIsRight'
<1> USE DEF RotationInvariant
<1>1. CliTyped'
  BY DEF RegistryIsRight, CliTyped
<1>2. ASSUME NEW entries, Near(entries), \A a \in Account : entries[a].until \in Nat
      PROVE  \A a \in Account : entries[a].until <= now' + Cooldown
  <2> SUFFICES ASSUME NEW a \in Account PROVE entries[a].until <= now' + Cooldown
    OBVIOUS
  <2>1. entries[a].until <= now + Cooldown /\ entries[a].until \in Nat
    BY <1>2 DEF Near
  <2> QED
    BY <2>1, EntriesAreNumbers
<1>3. Near(registry)'
  BY <1>2, EntriesAreNumbers DEF RegistryIsRight, CooldownsAreOrdered, Near
<1>4. ASSUME NEW i \in DOMAIN writers', writers'[i].seen # NoSnapshot
      PROVE  i \in DOMAIN writers /\ writers'[i] = writers[i]
  <2>1. writers \in Seq(Writer)
    BY Typed
  <2>2. CASE writers' = writers
    BY <1>4, <2>2
  <2>3. CASE writers' = <<>>
    BY <1>4, <2>3
  <2>4. ASSUME NEW w, writers' = Append(writers, w), w.seen = NoSnapshot
        PROVE  i \in DOMAIN writers /\ writers'[i] = writers[i]
    <3>1. i \in 1..(Len(writers) + 1) /\ Len(writers) \in Nat
      BY <1>4, <2>1, <2>4
    <3>2. i # Len(writers) + 1
      BY <1>4, <2>1, <2>4
    <3> QED
      BY <2>1, <2>4, <3>1, <3>2
  <2> QED
    BY <2>2, <2>3, <2>4
<1>5. ASSUME NEW i \in DOMAIN writers', writers'[i].seen # NoSnapshot
      PROVE  /\ i = 1 /\ Later(writers'[i].seen, registry')
             /\ \A a \in Account : writers'[i].seen[a].until <= now' + Cooldown
  <2>1. i \in DOMAIN writers /\ writers'[i] = writers[i]
    BY <1>4, <1>5
  <2>2. i = 1 /\ Later(writers[i].seen, registry) /\ Near(writers[i].seen)
    BY <1>5, <2>1 DEF RegistryIsRight, CooldownsAreOrdered
  <2>3. \A a \in Account : writers[i].seen[a].until \in Nat
    BY <1>5, <2>1, EntriesAreNumbers
  <2> QED
    BY <1>2, <2>1, <2>2, <2>3
<1>6. cli' # NoCli /\ cli'.op # "delete" => Later(registry', cli'.seen)
  BY DEF RegistryIsRight, CooldownsAreOrdered
<1> QED
  BY <1>1, <1>3, <1>5, <1>6 DEF RegistryIsRight, CooldownsAreOrdered, Near, Later

LEMMA RegistryStepKept ==
  ASSUME RotationInvariant, RegistryStep
  PROVE  RegistryIsRight' /\ Later(registry', registry)
<1> USE DEF RotationInvariant
<1>1. PICK i \in DOMAIN writers : MarkRead(i) \/ MarkWrite(i)
  BY DEF RegistryStep
<1>2. now' = now /\ cli' = cli
  BY <1>1 DEF MarkRead, MarkWrite
<1>3. CliTyped'
  BY <1>2 DEF RegistryIsRight, CliTyped
<1>4. CASE MarkRead(i)
  <2>1. /\ i = 1 /\ registry' = registry /\ writers' = [writers EXCEPT ![i].seen = registry]
    BY <1>4 DEF MarkRead, HoldsRegistry, disk
  <2>2. /\ writers'[1].seen = registry
        /\ \A j \in DOMAIN writers' : j \in DOMAIN writers /\ (j # 1 => writers'[j] = writers[j])
    BY <2>1, WriterFields DEF Writer
  <2>3. Later(registry, registry)
    BY EntriesAreNumbers DEF Later
  <2>4. \A j \in DOMAIN writers' : writers'[j].seen # NoSnapshot => j = 1
    BY <2>2 DEF RegistryIsRight, CooldownsAreOrdered
  <2> QED
    BY <1>2, <1>3, <2>1, <2>2, <2>3, <2>4 DEF RegistryIsRight, CooldownsAreOrdered, Near, Later
<1>5. CASE MarkWrite(i)
  <2>1. /\ i = 1 /\ Later(registry', registry) /\ Near(registry')
    BY <1>5, MarkedEntries
  <2>2. Near(registry)'
    BY <1>2, <2>1 DEF Near
  <2>3. \A j \in DOMAIN writers' : writers'[j].seen = NoSnapshot
    <3>1. \A j \in DOMAIN writers' : j + 1 \in DOMAIN writers /\ writers'[j] = writers[j + 1] /\ j + 1 # 1
      BY <1>5, <2>1, WriterFields DEF MarkWrite, WithoutWriter
    <3> QED
      BY <3>1 DEF RegistryIsRight, CooldownsAreOrdered
  <2>4. cli' # NoCli /\ cli'.op # "delete" => Later(registry', cli'.seen)
    <3> SUFFICES ASSUME cli # NoCli, cli.op # "delete", NEW a \in Account
                 PROVE  cli.seen[a].until <= registry'[a].until
      BY <1>2 DEF Later
    <3>1. cli.seen[a].until <= registry[a].until /\ registry[a].until <= registry'[a].until
      BY <2>1 DEF RegistryIsRight, CooldownsAreOrdered, Later
    <3>2. registry'[a].until \in Nat
      BY <1>5, MarkedEntries DEF AccountEntry
    <3> QED
      BY <3>1, <3>2, EntriesAreNumbers
  <2> QED
    BY <1>3, <2>1, <2>2, <2>3, <2>4 DEF RegistryIsRight, CooldownsAreOrdered, Later
<1> QED
  BY <1>1, <1>4, <1>5

LEMMA CliReadKept ==
  ASSUME RotationInvariant, NEW op \in {"login", "set", "remove"}, NEW a \in Touched, CliRead(op, a)
  PROVE  RegistryIsRight'
<1> USE DEF RotationInvariant
<1>1. /\ cli' = [op |-> op, account |-> a, seen |-> registry]
      /\ UNCHANGED <<registry, writers, now>>
  BY DEF CliRead, disk, memory
<1>2. CliTyped'
  BY <1>1, Typed DEF CliTyped, RotationAssumption
<1>3. Later(registry, registry)
  BY EntriesAreNumbers DEF Later
<1> QED
  BY <1>1, <1>2, <1>3 DEF RegistryIsRight, CooldownsAreOrdered, Near, Later

LEMMA CliWriteKept ==
  ASSUME RotationInvariant, CliWrite
  PROVE  RegistryIsRight' /\ cli' # cli
<1> USE DEF RotationInvariant
<1>1. /\ cli \in [op : {"login", "set", "remove"}, account : Account, seen : [Account -> AccountEntry]]
      /\ Later(registry, cli.seen) /\ UNCHANGED <<writers, now>>
      /\ cli' \in {NoCli, [op |-> "delete", account |-> cli.account]}
  BY DEF CliWrite, RegistryIsRight, CliTyped, CooldownsAreOrdered, memory
<1>2. CliTyped' /\ cli' # cli
  BY <1>1 DEF CliTyped, NoCli
<1>3. \A a \in Account : registry'[a].until \in {0, cli.seen[a].until}
  BY <1>1 DEF CliWrite, Upserted, Removed, AccountEntry
<1>4. Later(registry, registry')
  <2> SUFFICES ASSUME NEW a \in Account PROVE registry'[a].until <= registry[a].until
    BY DEF Later
  <2>1. cli.seen[a].until <= registry[a].until
    BY <1>1 DEF Later
  <2> QED
    BY <1>3, <2>1, EntriesAreNumbers
<1>5. \A a \in Account : registry'[a].until \in Nat
  <2>1. cli.seen \in [Account -> AccountEntry]
    BY <1>1
  <2> QED
    BY <1>3, <2>1 DEF AccountEntry
<1>6. Near(registry)'
  <2> SUFFICES ASSUME NEW a \in Account PROVE registry'[a].until <= now + Cooldown
    BY <1>1 DEF Near
  <2>1. registry[a].until <= now + Cooldown
    BY DEF RegistryIsRight, CooldownsAreOrdered, Near
  <2> QED
    BY <1>4, <1>5, <2>1, EntriesAreNumbers DEF Later
<1>7. ASSUME NEW i \in DOMAIN writers, writers[i].seen # NoSnapshot
      PROVE  i = 1 /\ Later(writers[i].seen, registry') /\ Near(writers[i].seen)
  <2>1. i = 1 /\ Later(writers[i].seen, registry) /\ Near(writers[i].seen)
    BY <1>7 DEF RegistryIsRight, CooldownsAreOrdered
  <2> SUFFICES ASSUME NEW a \in Account PROVE registry'[a].until <= writers[i].seen[a].until
    BY <2>1 DEF Later
  <2>2. registry'[a].until <= registry[a].until /\ registry[a].until <= writers[i].seen[a].until
    BY <1>4, <2>1 DEF Later
  <2>3. registry'[a].until \in Nat /\ registry[a].until \in Nat /\ writers[i].seen[a].until \in Nat
    BY <1>5, <1>7, EntriesAreNumbers
  <2> QED
    BY <2>2, <2>3
<1>8. cli' = NoCli \/ cli'.op = "delete"
  BY <1>1
<1> QED
  BY <1>1, <1>2, <1>6, <1>7, <1>8 DEF RegistryIsRight, CooldownsAreOrdered, Near, Later
-----------------------------------------------------------------------------
(* The picker's queues: one call moves, the others keep their places. *)

Stays(r) == queue' = queue /\ \A p \in Run : InQueue(call[r], p) => InQueue(call'[r], p)
Leaves(r) == call[r].rotates /\ Holds(r) /\ Release(call[r].parent)
Enters(r) ==
  \E p \in Run : call[r] = Idle /\ InQueue(call'[r], p) /\ queue' = [queue EXCEPT ![p] = Append(@, r)]
Moves(r) ==
  /\ Stays(r) \/ Leaves(r) \/ Enters(r)
  /\ \A q \in Run \ {r} : call'[q] = call[q] /\ meta'[q] = meta[q]
  /\ meta[r].status # "absent" => meta'[r].status # "absent"
  /\ meta[r].session # None => meta'[r].session # None

LEMMA HoldersDiffer ==
  ASSUME NEW q \in Run, NEW r \in Run, Holds(q), Holds(r), call[q].parent = call[r].parent
  PROVE  q = r
BY DEF Holds

LEMMA QueuedOnce ==
  ASSUME RotationInvariant, NEW p \in Run, NEW i \in DOMAIN queue[p]
  PROVE  /\ queue[p] \in Seq(Run) /\ queue[p][i] \in Run /\ i \in 1..Len(queue[p])
         /\ InQueue(call[queue[p][i]], p)
         /\ \A j \in DOMAIN queue[p] : queue[p][j] = queue[p][i] => j = i
BY FieldsTyped DEF RotationInvariant, QueuesAreRight

LEMMA StayingKeepsQueues ==
  ASSUME RotationInvariant, NEW r \in Run, Moves(r), Stays(r)
  PROVE  /\ QueuesAreRight'
         /\ \A q \in Run \ {r} : call[q].rotates /\ Holds(q) => Holds(q)'
<1>1. \A p \in Run : \A i \in DOMAIN queue[p] : InQueue(call'[queue[p][i]], p)
  BY QueuedOnce DEF Moves, Stays
<1>2. QueuesAreRight'
  BY <1>1, QueuedOnce DEF Stays, QueuesAreRight
<1> QED
  BY <1>2 DEF Moves, Stays, Holds

LEMMA LeavingKeepsQueues ==
  ASSUME RotationInvariant, NEW r \in Run, Moves(r), Leaves(r)
  PROVE  /\ QueuesAreRight'
         /\ \A q \in Run \ {r} : call[q].rotates /\ Holds(q) => Holds(q)'
<1> DEFINE p == call[r].parent
<1>1. p \in Run /\ queue[p] \in Seq(Run) /\ queue[p] # <<>> /\ queue[p][1] = r
  BY ParentOfRotation, FieldsTyped DEF Leaves, Holds, RotationInvariant
<1>2. queue' = [queue EXCEPT ![p] = Tail(queue[p])]
  BY DEF Leaves, Release
<1> HIDE DEF p
<1>3. queue'[p] = Tail(queue[p]) /\ \A o \in Run \ {p} : queue'[o] = queue[o]
  BY <1>1, <1>2, Typed DEF RotationInvariant
<1>4. ASSUME NEW i \in DOMAIN queue'[p]
      PROVE  i + 1 \in DOMAIN queue[p] /\ queue'[p][i] = queue[p][i + 1] /\ queue[p][i + 1] # r
  <2>1. i + 1 \in DOMAIN queue[p] /\ queue'[p][i] = queue[p][i + 1] /\ i + 1 # 1 /\ 1 \in DOMAIN queue[p]
    BY <1>1, <1>3
  <2> QED
    BY <1>1, <2>1, QueuedOnce
<1>5. ASSUME NEW o \in Run, NEW i \in DOMAIN queue'[o] PROVE InQueue(call'[queue'[o][i]], o)
  <2>1. CASE o = p
    BY <1>1, <1>4, <2>1, QueuedOnce DEF Moves
  <2>2. CASE o # p
    <3>1. i \in DOMAIN queue[o] /\ queue'[o][i] = queue[o][i] /\ InQueue(call[queue[o][i]], o)
      BY <1>3, <2>2, QueuedOnce
    <3>2. queue[o][i] # r
      BY <2>2, <3>1 DEF InQueue, p
    <3> QED
      BY <3>1, <3>2, QueuedOnce DEF Moves
  <2> QED
    BY <2>1, <2>2
<1>6. ASSUME NEW o \in Run, NEW i \in DOMAIN queue'[o], NEW j \in DOMAIN queue'[o],
             queue'[o][i] = queue'[o][j]
      PROVE  i = j
  <2>1. CASE o = p
    <3>1. i + 1 = j + 1
      BY <1>1, <1>4, <1>6, <2>1, QueuedOnce
    <3>2. i \in Nat /\ j \in Nat
      <4>1. queue'[p] \in Seq(Run)
        BY <1>1, <1>3
      <4>2. i \in DOMAIN queue'[p] /\ j \in DOMAIN queue'[p]
        BY <1>6, <2>1
      <4> QED
        BY <4>1, <4>2
    <3> QED
      BY <3>1, <3>2
  <2>2. CASE o # p
    BY <1>3, <1>6, <2>2, QueuedOnce
  <2> QED
    BY <2>1, <2>2
<1>7. ASSUME NEW q \in Run \ {r}, call[q].rotates, Holds(q) PROVE Holds(q)'
  <2>1. call[q].parent \in Run /\ call[q].parent # p /\ call'[q] = call[q]
    BY <1>7, HoldersDiffer, ParentOfRotation DEF Leaves, Moves, p
  <2> QED
    BY <1>3, <1>7, <2>1 DEF Holds
<1> QED
  BY <1>5, <1>6, <1>7 DEF QueuesAreRight

LEMMA EnteringKeepsQueues ==
  ASSUME RotationInvariant, NEW r \in Run, Moves(r), Enters(r)
  PROVE  /\ QueuesAreRight'
         /\ \A q \in Run \ {r} : call[q].rotates /\ Holds(q) => Holds(q)'
<1>1. PICK p \in Run : call[r] = Idle /\ InQueue(call'[r], p) /\ queue' = [queue EXCEPT ![p] = Append(@, r)]
  BY DEF Enters
<1>2. queue[p] \in Seq(Run) /\ queue'[p] = Append(queue[p], r) /\ \A o \in Run \ {p} : queue'[o] = queue[o]
  BY <1>1, Typed DEF RotationInvariant
<1>3. \A o \in Run : ~InQueue(call[r], o)
  BY <1>1 DEF Idle, InQueue
<1>4. ASSUME NEW o \in Run, NEW i \in DOMAIN queue[o]
      PROVE  queue[o][i] # r /\ InQueue(call'[queue[o][i]], o)
  BY <1>3, QueuedOnce DEF Moves
<1>5. ASSUME NEW i \in DOMAIN queue'[p]
      PROVE  \/ i \in DOMAIN queue[p] /\ queue'[p][i] = queue[p][i]
             \/ i = Len(queue[p]) + 1 /\ queue'[p][i] = r
  BY <1>2
<1>6. ASSUME NEW o \in Run, NEW i \in DOMAIN queue'[o] PROVE InQueue(call'[queue'[o][i]], o)
  BY <1>1, <1>2, <1>4, <1>5
<1>7. ASSUME NEW o \in Run, NEW i \in DOMAIN queue'[o], NEW j \in DOMAIN queue'[o],
             queue'[o][i] = queue'[o][j]
      PROVE  i = j
  <2>1. CASE o = p
    BY <1>4, <1>5, <1>7, <2>1, QueuedOnce
  <2>2. CASE o # p
    BY <1>2, <1>7, <2>2, QueuedOnce
  <2> QED
    BY <2>1, <2>2
<1>8. ASSUME NEW q \in Run \ {r}, call[q].rotates, Holds(q) PROVE Holds(q)'
  <2> DEFINE o == call[q].parent
  <2>1. o \in Run /\ call'[q] = call[q] /\ queue[o] # <<>> /\ Head(queue[o]) = q /\ o # None
    BY <1>8, ParentOfRotation DEF Moves, Holds
  <2>2. queue'[o] # <<>> /\ Head(queue'[o]) = q
    <3>1. CASE o = p
      BY <1>2, <2>1, <3>1
    <3>2. CASE o # p
      BY <1>2, <2>1, <3>2
    <3> QED
      BY <3>1, <3>2
  <2> QED
    BY <2>1, <2>2 DEF Holds
<1> QED
  BY <1>6, <1>7, <1>8 DEF QueuesAreRight

LEMMA OthersKept ==
  ASSUME RotationInvariant, NEW r \in Run, Moves(r), RunIsRight(r)'
  PROVE  RunsAreRight' /\ QueuesAreRight'
<1>1. QueuesAreRight' /\ \A q \in Run \ {r} : call[q].rotates /\ Holds(q) => Holds(q)'
  BY StayingKeepsQueues, LeavingKeepsQueues, EnteringKeepsQueues DEF Moves
<1>2. ASSUME NEW q \in Run \ {r} PROVE RunIsRight(q)'
  <2>1. RunIsRight(q) /\ call'[q] = call[q] /\ meta'[q] = meta[q]
    BY DEF Moves, RotationInvariant, RunsAreRight
  <2>2. \A o \in Run : /\ meta[o].status # "absent" => meta'[o].status # "absent"
                       /\ meta[o].session # None => meta'[o].session # None
    BY DEF Moves
  <2>3. meta[q].parent # None => meta[q].parent \in Run
    BY FieldsTyped DEF RotationInvariant, Session
  <2>4. call[q].rotates => call[q].parent \in Run
    BY ParentOfRotation
  <2>5. CallIsRight(q)'
    BY <1>1, <2>1, <2>2, <2>4 DEF RunIsRight, CallIsRight
  <2>6. RecordIsRight(q)' /\ MarkerIsRight(q)'
    BY <2>1, <2>2, <2>3 DEF RunIsRight, RecordIsRight, MarkerIsRight
  <2> QED
    BY <2>5, <2>6 DEF RunIsRight
<1> QED
  BY <1>1, <1>2 DEF RunsAreRight

\* The call makes no claim and chooses no account.
Quiet(r) ==
  /\ UNCHANGED <<claimed, rebuilt>> /\ (lost => lost')
  /\ call[r].pc = "recording" /\ call[r].rotates => lost'
  /\ call'[r].rotates /\ call'[r].pc \in Choosing =>
       /\ call[r].rotates /\ call[r].pc \in Choosing
       /\ call'[r].account = call[r].account /\ call'[r].parent = call[r].parent

SameRotation(r) ==
  /\ meta'[r].parent = meta[r].parent /\ meta'[r].account = meta[r].account
  /\ meta'[r].rotated = meta[r].rotated
  /\ meta'[r].status = "absent" <=> meta[r].status = "absent"

LEMMA ChildrenSame ==
  ASSUME \A r \in Run : SameRotation(r), NEW p \in Run
  PROVE  /\ ChildrenOf(p)' = ChildrenOf(p)
         /\ \A c \in ChildrenOf(p) : c \in Run /\ meta'[c].account = meta[c].account
         /\ ClaimedDestinations(p)' = ClaimedDestinations(p)
<1>1. ChildrenOf(p)' = ChildrenOf(p)
  BY DEF ChildrenOf, SameRotation
<1>2. \A c \in ChildrenOf(p) : c \in Run /\ meta'[c].account = meta[c].account
  BY DEF ChildrenOf, SameRotation
<1> QED
  BY <1>1, <1>2 DEF ClaimedDestinations

LEMMA QuietKeepsClaims ==
  ASSUME RotationInvariant, NEW r \in Run, Moves(r), Quiet(r), SameRotation(r)
  PROVE  ClaimsAreRight'
<1> USE DEF RotationInvariant, ClaimsAreRight
<1>1. \A o \in Run : SameRotation(o)
  BY DEF Moves, SameRotation
<1>2. \A c, p \in Run : BeingRecorded(c, p) => BeingRecorded(c, p)' \/ lost'
  BY DEF Moves, Quiet, BeingRecorded
<1>3. ClaimsAreRemembered'
  <2> SUFFICES ASSUME ~lost', NEW p \in rebuilt', NEW c \in ChildrenOf(p)'
               PROVE  meta'[c].account \in claimed'[p] \/ BeingRecorded(c, p)'
    BY DEF ClaimsAreRemembered
  <2>1. p \in Run /\ p \in rebuilt /\ ~lost /\ claimed'[p] = claimed[p]
    BY Typed DEF Quiet
  <2>2. c \in ChildrenOf(p) /\ c \in Run /\ meta'[c].account = meta[c].account
    BY <1>1, <2>1, ChildrenSame
  <2> QED
    BY <1>2, <2>1, <2>2 DEF ClaimsAreRemembered
<1>4. ChoicesAreFree'
  <2> SUFFICES ASSUME NEW o \in Run, call'[o].rotates, call'[o].pc \in Choosing
               PROVE  ChoiceIsFree(o)'
    BY DEF ChoicesAreFree, ChoiceIsFree
  <2>1. /\ call[o].rotates /\ call[o].pc \in Choosing
        /\ call'[o].account = call[o].account /\ call'[o].parent = call[o].parent
    BY DEF Quiet, Moves
  <2>2. PICK p \in Run : p = call[o].parent
    BY <2>1, ParentOfRotation
  <2>3. /\ meta'[p].account = meta[p].account /\ ChildrenOf(p)' = ChildrenOf(p)
        /\ \A c \in ChildrenOf(p) : meta'[c].account = meta[c].account
    BY <1>1, ChildrenSame DEF SameRotation
  <2>4. /\ call[o].account # meta[p].account
        /\ \A c \in ChildrenOf(p) : meta[c].account = call[o].account => lost
    BY <2>1, <2>2 DEF ChoicesAreFree, ChoiceIsFree
  <2>5. /\ call'[o].account # meta'[p].account
        /\ \A c \in ChildrenOf(p)' : meta'[c].account = call'[o].account => lost'
    BY <2>1, <2>3, <2>4 DEF Quiet
  <2> QED
    BY <2>1, <2>2, <2>5 DEF ChoiceIsFree
<1>5. ClaimsAreOnDisk'
  BY <1>1, ChildrenSame DEF ClaimsAreOnDisk, Quiet
<1>6. SiblingsOnDistinctAccounts'
  <2> SUFFICES ASSUME NEW p \in Run, NEW c \in ChildrenOf(p)'
               PROVE  /\ meta'[c].account # meta'[p].account
                      /\ \A d \in ChildrenOf(p)' \ {c} : meta'[c].account = meta'[d].account => lost'
    BY DEF SiblingsOnDistinctAccounts
  <2>1. ChildrenOf(p)' = ChildrenOf(p) /\ meta'[p].account = meta[p].account
    BY <1>1, ChildrenSame DEF SameRotation
  <2>2. \A d \in ChildrenOf(p) : meta'[d].account = meta[d].account
    BY <1>1, ChildrenSame
  <2> QED
    BY <2>1, <2>2 DEF SiblingsOnDistinctAccounts, Quiet
<1> QED
  BY <1>3, <1>4, <1>5, <1>6
-----------------------------------------------------------------------------
(* Every step of a call moves it. *)

\* A call whose progress and record change, and which keeps its parent, its
\* account, and whether it rotates.
LEMMA MovedAtWork ==
  ASSUME RotationInvariant, NEW r \in Run, NEW step \in AtWork \cup {"over"},
         call[r].pc \in AtWork,
         \A q \in Run \ {r} : call'[q] = call[q] /\ meta'[q] = meta[q],
         UNCHANGED <<queue, claimed, rebuilt, lost>>,
         /\ call'[r].pc = step /\ call'[r].parent = call[r].parent
         /\ call'[r].rotates = call[r].rotates /\ call'[r].account = call[r].account,
         /\ meta'[r].status = IF step = "over" THEN "terminal" ELSE "running"
         /\ meta'[r].parent = meta[r].parent /\ meta'[r].account = meta[r].account
         /\ meta'[r].rotated = meta[r].rotated
         /\ meta[r].session # None => meta'[r].session # None,
         MarkerIsRight(r)'
  PROVE  RunsAreRight' /\ QueuesAreRight' /\ ClaimsAreRight'
<1>1. RunIsRight(r)
  BY DEF RotationInvariant, RunsAreRight
<1>2. \A p \in Run : ~InQueue(call[r], p)
  BY DEF InQueue, AtWork, Locking, Choosing
<1>3. Moves(r)
  BY <1>2 DEF Moves, Stays
<1>4. \A o \in Run : meta[o].status # "absent" => meta'[o].status # "absent"
  BY <1>3 DEF Moves
<1>5. meta[r].status = "running" /\ call[r].account # None
  BY <1>1 DEF RunIsRight, CallIsRight
<1>6. CallIsRight(r)'
  BY <1>1, <1>4, <1>5, ParentOfRotation DEF RunIsRight, CallIsRight, AtWork, Before, Locking, Choosing
<1>7. RecordIsRight(r)'
  BY <1>1, <1>4, <1>5, FieldsTyped DEF RunIsRight, RecordIsRight, RotationInvariant, Session
<1>8. Quiet(r) /\ SameRotation(r)
  BY <1>5 DEF Quiet, SameRotation, AtWork, Choosing
<1> QED
  BY <1>3, <1>6, <1>7, <1>8, OthersKept, QuietKeepsClaims DEF RunIsRight

LEMMA FollowUpMoves ==
  ASSUME RotationInvariant, NEW f \in Run, NEW p \in Run,
         StartRun \/ PlainFollowUp(f, p) \/ RotatingFollowUp(f, p)
  PROVE  RunsAreRight' /\ QueuesAreRight' /\ ClaimsAreRight'
<1> USE DEF disk, memory
<1>r. call \in [Run -> Call] /\ meta \in [Run -> Record]
  BY Typed DEF RotationInvariant
<1>1. CASE StartRun
  <2> DEFINE a == PickHealthyAccount({})
  <2>1. /\ call[Root].pc = "idle" /\ a # None /\ UNCHANGED <<meta, queue>>
        /\ call' = [call EXCEPT ![Root].pc = "creating", ![Root].account = a, ![Root].place = SpawnPlace(a)]
    BY <1>1 DEF StartRun
  <2> HIDE DEF a
  <2>2. Root \in Run /\ RunIsRight(Root) /\ call[Root] = Idle
    BY <2>1 DEF RotationInvariant, RunsAreRight, RunIsRight, CallIsRight, RotationAssumption
  <2>3. /\ call'[Root].pc = "creating" /\ call'[Root].account = a
        /\ ~call'[Root].rotates /\ call'[Root].marker = "none"
    BY <1>r, <2>1, <2>2 DEF Idle
  <2>4. Moves(Root)
    <3>1. \A o \in Run : ~InQueue(call[Root], o)
      BY <2>2 DEF InQueue, Idle
    <3> QED
      BY <1>r, <2>1, <2>2, <3>1 DEF Moves, Stays
  <2>5. RunIsRight(Root)'
    BY <2>1, <2>2, <2>3 DEF RunIsRight, CallIsRight, RecordIsRight, MarkerIsRight, Before, Locking,
       Choosing, AtWork, Absent, Idle
  <2>6. Quiet(Root) /\ SameRotation(Root)
    BY <1>1, <2>1, <2>2, <2>3 DEF StartRun, Quiet, SameRotation, Idle
  <2> QED
    BY <2>2, <2>4, <2>5, <2>6, OthersKept, QuietKeepsClaims
<1>2. CASE PlainFollowUp(f, p)
  <2>1. /\ call[f].pc = "idle" /\ UNCHANGED <<meta, queue>> /\ meta[p].status = "terminal"
        /\ call' = [call EXCEPT ![f] = [@ EXCEPT !.pc = "creating", !.parent = p, !.account = meta[p].account,
                      !.place = SpawnPlace(meta[p].account), !.session = meta[p].session]]
    BY <1>2 DEF PlainFollowUp
  <2>2. RunIsRight(f) /\ call[f] = Idle /\ meta[p].account # None
    BY <2>1 DEF RotationInvariant, RunsAreRight, RunIsRight, CallIsRight, RecordIsRight
  <2>3. /\ call'[f].pc = "creating" /\ call'[f].account = meta[p].account
        /\ ~call'[f].rotates /\ call'[f].marker = "none"
    BY <1>r, <2>1, <2>2 DEF Idle
  <2>4. Moves(f)
    <3>1. \A o \in Run : ~InQueue(call[f], o)
      BY <2>2 DEF InQueue, Idle
    <3> QED
      BY <1>r, <2>1, <2>2, <3>1 DEF Moves, Stays
  <2>5. RunIsRight(f)'
    BY <2>1, <2>2, <2>3 DEF RunIsRight, CallIsRight, RecordIsRight, MarkerIsRight, Before, Locking,
       Choosing, AtWork, Absent, Idle
  <2>6. Quiet(f) /\ SameRotation(f)
    BY <1>2, <2>1, <2>2, <2>3 DEF PlainFollowUp, Quiet, SameRotation, Idle
  <2> QED
    BY <2>4, <2>5, <2>6, OthersKept, QuietKeepsClaims
<1>3. CASE RotatingFollowUp(f, p)
  <2>1. /\ call[f].pc = "idle" /\ UNCHANGED meta /\ meta[p].status = "terminal"
        /\ call' = [call EXCEPT ![f].pc = "queued", ![f].parent = p, ![f].rotates = TRUE]
        /\ queue' = [queue EXCEPT ![p] = Append(@, f)]
    BY <1>3 DEF RotatingFollowUp
  <2>2. RunIsRight(f) /\ call[f] = Idle
    BY <2>1 DEF RotationInvariant, RunsAreRight, RunIsRight, CallIsRight
  <2>3. call'[f].pc = "queued" /\ call'[f].rotates /\ call'[f].parent = p /\ call'[f].marker = "none"
    BY <1>r, <2>1, <2>2 DEF Idle
  <2>4. Moves(f)
    BY <1>r, <2>1, <2>2, <2>3 DEF Moves, Enters, InQueue
  <2>5. RunIsRight(f)'
    BY <2>1, <2>2, <2>3 DEF RunIsRight, CallIsRight, RecordIsRight, MarkerIsRight, Before, Locking,
       Choosing, AtWork, Absent, Idle, RotationAssumption
  <2>6. Quiet(f) /\ SameRotation(f)
    BY <1>3, <2>1, <2>2, <2>3 DEF RotatingFollowUp, Quiet, SameRotation, Idle, Choosing
  <2> QED
    BY <2>4, <2>5, <2>6, OthersKept, QuietKeepsClaims
<1> QED
  BY <1>1, <1>2, <1>3

LEMMA FailingMoves ==
  ASSUME RotationInvariant, NEW r \in Run, Fails(r), call[r].rotates => Holds(r), UNCHANGED meta
  PROVE  /\ RunsAreRight' /\ QueuesAreRight'
         /\ UNCHANGED <<claimed, rebuilt>> /\ (lost => lost')
            /\ (call[r].pc = "recording" /\ call[r].rotates => lost')
            => ClaimsAreRight'
<1>1. RunIsRight(r) /\ call \in [Run -> Call]
  BY Typed DEF RotationInvariant, RunsAreRight
<1>2. call' = [call EXCEPT ![r].pc = "over"]
  BY DEF Fails, Goto
<1>3. /\ call'[r].pc = "over" /\ call'[r].rotates = call[r].rotates /\ call'[r].parent = call[r].parent
      /\ call'[r].marker = call[r].marker /\ call'[r].session = call[r].session
      /\ \A q \in Run \ {r} : call'[q] = call[q]
  BY <1>1, <1>2 DEF Call
<1>4. Moves(r)
  <2>1. CASE call[r].rotates
    BY <1>3, <2>1 DEF Moves, Leaves, Fails
  <2>2. CASE ~call[r].rotates
    BY <1>3, <2>2 DEF Moves, Stays, InQueue, Fails
  <2> QED
    BY <2>1, <2>2
<1>5. RunIsRight(r)'
  BY <1>1, <1>3 DEF RunIsRight, CallIsRight, RecordIsRight, MarkerIsRight, Before, Locking, Choosing, AtWork
<1>6. SameRotation(r)
  BY DEF SameRotation
<1>7. ASSUME UNCHANGED <<claimed, rebuilt>>, lost => lost',
             call[r].pc = "recording" /\ call[r].rotates => lost'
      PROVE  Quiet(r)
  BY <1>3, <1>7 DEF Quiet, Choosing
<1> QED
  BY <1>4, <1>5, <1>6, <1>7, OthersKept, QuietKeepsClaims

\* The holder of the picker's lock goes on with its choice.
LEMMA ChoosingMoves ==
  ASSUME RotationInvariant, NEW r \in Run, Holds(r),
         call[r].pc \in {"queued"} \cup Choosing, call[r].rotates,
         \A q \in Run \ {r} : call'[q] = call[q],
         UNCHANGED <<meta, queue>>,
         /\ call'[r].pc \in Choosing /\ call'[r].rotates /\ call'[r].parent = call[r].parent
         /\ call'[r].account # None
         /\ call'[r].pc \in {"reading", "renaming"} => meta[call[r].parent].session # None,
         MarkerIsRight(r)'
  PROVE  /\ RunsAreRight' /\ QueuesAreRight'
         /\ /\ call[r].pc \in Choosing /\ call'[r].account = call[r].account
            /\ UNCHANGED <<claimed, rebuilt, lost>>
            => ClaimsAreRight'
<1>1. RunIsRight(r)
  BY DEF RotationInvariant, RunsAreRight
<1>2. Moves(r)
  BY DEF Moves, Stays, InQueue, Locking
<1>3. Holds(r)'
  BY DEF Holds
<1>4. RunIsRight(r)'
  BY <1>1, <1>3 DEF RunIsRight, CallIsRight, RecordIsRight, Before, Locking, Choosing, AtWork
<1>5. SameRotation(r)
  BY DEF SameRotation
<1>6. ASSUME call[r].pc \in Choosing, call'[r].account = call[r].account, UNCHANGED <<claimed, rebuilt, lost>>
      PROVE  Quiet(r)
  BY <1>6 DEF Quiet, Choosing
<1> QED
  BY <1>2, <1>4, <1>5, <1>6, OthersKept, QuietKeepsClaims

LEMMA PickMoves ==
  ASSUME RotationInvariant, NEW r \in Run, PickAccount(r)
  PROVE  RunsAreRight' /\ QueuesAreRight'
<1> DEFINE p == call[r].parent
<1> DEFINE a == PickHealthyAccount(Passed(p))
<1>1. /\ call[r].pc = "queued" /\ Holds(r) /\ UNCHANGED meta /\ call \in [Run -> Call]
      /\ RunIsRight(r)
  BY Typed DEF PickAccount, disk, RotationInvariant, RunsAreRight
<1>2. CASE a = None
  BY <1>1, <1>2, FailingMoves DEF PickAccount
<1>3. CASE a # None
  <2>1. /\ call' = [call EXCEPT ![r].pc = "cooling", ![r].account = a, ![r].place = SpawnPlace(a)]
        /\ UNCHANGED queue
    BY <1>3 DEF PickAccount
  <2> HIDE DEF a
  <2>2. /\ call'[r].pc = "cooling" /\ call'[r].account = a /\ call'[r].rotates = call[r].rotates
        /\ call'[r].parent = call[r].parent /\ call'[r].marker = call[r].marker
        /\ \A q \in Run \ {r} : call'[q] = call[q]
    BY <1>1, <2>1 DEF Call
  <2>3. MarkerIsRight(r)'
    BY <1>1, <2>2 DEF RunIsRight, MarkerIsRight, AtWork
  <2>4. call[r].rotates
    BY <1>1 DEF RunIsRight, CallIsRight
  <2> QED
    BY <1>1, <1>3, <2>1, <2>2, <2>3, <2>4, ChoosingMoves DEF Choosing
<1> QED
  BY <1>2, <1>3

LEMMA CopyMoves ==
  ASSUME RotationInvariant, NEW r \in Run, CopyStep(r)
  PROVE  RunsAreRight' /\ QueuesAreRight' /\ ClaimsAreRight'
<1>1. /\ UNCHANGED <<meta, queue, claimed, rebuilt, lost>> /\ call[r].pc \in Copies
      /\ KeepsCall(r) /\ CopyMoved(r)
  BY CopyFrames, CallAfterCopyStep
<1>2. call[r].rotates /\ Holds(r) /\ call[r].account # None /\ call[r].parent \in Run
  BY <1>1, CopyingCall, RotationAssumption
<1>3. MarkerIsRight(r) /\ call[r].marker # "resumed"
  BY <1>1 DEF RotationInvariant, RunsAreRight, RunIsRight, MarkerIsRight
<1>4. MarkerIsRight(r)'
  BY <1>1, <1>3 DEF MarkerIsRight, AtWork, CopyMoved, RotationAssumption
<1>5. call'[r].pc \in {"reading", "renaming"} => meta[call[r].parent].session # None
  BY <1>1 DEF CopyMoved, Conversation, RotationAssumption
<1> QED
  BY <1>1, <1>2, <1>4, <1>5, ChoosingMoves DEF Choosing, KeepsCall, CopyMoved

LEMMA MarkMoves ==
  ASSUME RotationInvariant, RegistryStep
  PROVE  RunsAreRight' /\ QueuesAreRight' /\ ClaimsAreRight'
<1>1. PICK i \in DOMAIN writers : MarkRead(i) \/ MarkWrite(i)
  BY DEF RegistryStep
<1>2. UNCHANGED <<meta, queue, claimed, rebuilt, lost>>
  BY <1>1 DEF MarkRead, MarkWrite, disk
<1>3. CASE call' = call
  BY <1>2, <1>3 DEF RotationInvariant, RunsAreRight, RunIsRight, CallIsRight, RecordIsRight, MarkerIsRight,
     QueuesAreRight, Holds, ClaimsAreRight, ClaimsAreRemembered, BeingRecorded, ChoicesAreFree, ChoiceIsFree,
     ClaimsAreOnDisk, SiblingsOnDistinctAccounts, ChildrenOf, ClaimedDestinations
<1>4. CASE call' # call
  <2>1. PICK r \in Run : call[r].pc = "cooling" /\ call' = [call EXCEPT ![r].pc = "copying"]
    BY <1>1, <1>4, WriterFields DEF MarkRead, MarkWrite, RotationInvariant
  <2>2. call \in [Run -> Call] /\ RunIsRight(r)
    BY Typed DEF RotationInvariant, RunsAreRight
  <2>3. /\ call'[r].pc = "copying" /\ call'[r].account = call[r].account
        /\ call'[r].rotates = call[r].rotates /\ call'[r].parent = call[r].parent
        /\ call'[r].marker = call[r].marker
        /\ \A q \in Run \ {r} : call'[q] = call[q]
    BY <2>1, <2>2 DEF Call
  <2>4. MarkerIsRight(r)'
    BY <2>1, <2>2, <2>3 DEF RunIsRight, MarkerIsRight, AtWork
  <2>5. call[r].rotates /\ Holds(r) /\ call[r].account # None
    BY <2>1, <2>2 DEF RunIsRight, CallIsRight, Locking, Choosing
  <2> QED
    BY <1>2, <2>1, <2>2, <2>3, <2>4, <2>5, ChoosingMoves DEF Choosing
<1> QED
  BY <1>3, <1>4

LEMMA CreateMoves ==
  ASSUME RotationInvariant, NEW r \in Run, CreateRun(r)
  PROVE  RunsAreRight' /\ QueuesAreRight'
<1>1. /\ call[r].pc = "creating" /\ call \in [Run -> Call] /\ RunIsRight(r) /\ meta \in [Run -> Record]
  BY Typed DEF CreateRun, RotationInvariant, RunsAreRight
<1>2. (call[r].rotates => Holds(r)) /\ call[r].account # None
  BY <1>1 DEF RunIsRight, CallIsRight, Locking, Choosing
<1>3. CASE Fails(r) /\ UNCHANGED meta
  BY <1>2, <1>3, FailingMoves
<1>4. CASE meta' = [meta EXCEPT ![r] = NewRecord(call[r])] /\ Goto(r, "recording") /\ UNCHANGED queue
  <2>1. /\ call'[r].pc = "recording" /\ call'[r].account = call[r].account
        /\ call'[r].rotates = call[r].rotates /\ call'[r].parent = call[r].parent
        /\ call'[r].marker = call[r].marker /\ call'[r].session = call[r].session
        /\ \A q \in Run \ {r} : call'[q] = call[q] /\ meta'[q] = meta[q]
    BY <1>1, <1>4 DEF Call, Goto
  <2>2. /\ meta'[r].status = "running" /\ meta'[r].parent = call[r].parent
        /\ meta'[r].account = call[r].account /\ meta'[r].rotated = call[r].rotates
        /\ meta'[r].requested = call[r].session /\ meta[r].session = None
    BY <1>1, <1>4 DEF NewRecord, Absent, RunIsRight, CallIsRight, Before
  <2>3. Moves(r)
    BY <1>1, <1>4, <2>1, <2>2 DEF Moves, Stays, InQueue, Locking
  <2>4. call[r].rotates => /\ call[r].parent # None /\ meta'[call[r].parent].status # "absent"
                           /\ Holds(r)'
    BY <1>2, <1>4, <2>1, <2>2, ParentOfRotation DEF Holds
  <2>5. CallIsRight(r)'
    BY <1>2, <2>1, <2>2, <2>4 DEF CallIsRight, Before, AtWork
  <2>6. RecordIsRight(r)'
    BY <1>2, <2>2, <2>4 DEF RecordIsRight
  <2>7. MarkerIsRight(r)'
    BY <1>1, <2>1, <2>2 DEF RunIsRight, MarkerIsRight, AtWork
  <2> QED
    BY <2>3, <2>5, <2>6, <2>7, OthersKept DEF RunIsRight
<1> QED
  BY <1>3, <1>4 DEF CreateRun

LEMMA RecordMoves ==
  ASSUME RotationInvariant, NEW r \in Run, RecordRun(r)
  PROVE  RunsAreRight' /\ QueuesAreRight'
<1>1. /\ call[r].pc = "recording" /\ call \in [Run -> Call] /\ RunIsRight(r) /\ meta \in [Run -> Record]
  BY Typed DEF RecordRun, RotationInvariant, RunsAreRight
<1>2. (call[r].rotates => Holds(r)) /\ call[r].account # None
  BY <1>1 DEF RunIsRight, CallIsRight, Locking
<1>3. CASE Fails(r) /\ UNCHANGED meta
  BY <1>2, <1>3, FailingMoves
<1>4. CASE /\ meta' = [meta EXCEPT ![r].marker = call[r].marker] /\ Goto(r, "spawning")
           /\ IF call[r].rotates THEN Release(call[r].parent) ELSE UNCHANGED queue
  <2>1. /\ call'[r].pc = "spawning" /\ call'[r].account = call[r].account
        /\ call'[r].rotates = call[r].rotates /\ call'[r].parent = call[r].parent
        /\ call'[r].marker = call[r].marker /\ call'[r].session = call[r].session
        /\ \A q \in Run \ {r} : call'[q] = call[q] /\ meta'[q] = meta[q]
    BY <1>1, <1>4 DEF Call, Goto
  <2>2. /\ meta'[r].status = meta[r].status /\ meta'[r].parent = meta[r].parent
        /\ meta'[r].account = meta[r].account /\ meta'[r].rotated = meta[r].rotated
        /\ meta'[r].requested = meta[r].requested /\ meta'[r].marker = call[r].marker
    BY <1>1, <1>4 DEF Record
  <2>3. Moves(r)
    BY <1>1, <1>2, <1>4, <2>1, <2>2 DEF Moves, Stays, Leaves, InQueue
  <2>4. \A o \in Run : meta'[o].status = meta[o].status
    BY <2>1, <2>2
  <2>5. CallIsRight(r)'
    BY <1>1, <1>2, <2>1, <2>2, <2>4, ParentOfRotation DEF RunIsRight, CallIsRight, Before, AtWork, Locking, Choosing
  <2>6. RecordIsRight(r)'
    BY <1>1, <2>2, <2>4, FieldsTyped DEF RunIsRight, RecordIsRight, RotationInvariant, Session
  <2>7. MarkerIsRight(r)'
    BY <1>1, <2>1, <2>2 DEF RunIsRight, MarkerIsRight, AtWork
  <2> QED
    BY <2>3, <2>5, <2>6, <2>7, OthersKept DEF RunIsRight
<1> QED
  BY <1>3, <1>4 DEF RecordRun

LEMMA SpawnMoves ==
  ASSUME RotationInvariant, NEW r \in Run, Spawn(r) \/ SpawnAfresh(r) \/ FailPreSpawn(r)
  PROVE  RunsAreRight' /\ QueuesAreRight' /\ ClaimsAreRight'
<1>1. /\ call[r].pc = "spawning" /\ call[r].pc \in AtWork /\ UNCHANGED <<queue, claimed, rebuilt, lost>>
      /\ call[r] \in Call /\ meta[r] \in Record /\ RunIsRight(r)
      /\ call \in [Run -> Call] /\ meta \in [Run -> Record]
  BY Typed, FieldsTyped DEF Spawn, SpawnAfresh, FailPreSpawn, AtWork, RotationInvariant, RunsAreRight, disk
<1>2. meta[r].status = "running"
  BY <1>1 DEF RunIsRight, CallIsRight
<1>3. CASE Spawn(r)
  <2>1. call' = [call EXCEPT ![r].pc = "working"] /\ meta' = meta
    BY <1>3 DEF Spawn, Goto, disk
  <2>2. MarkerIsRight(r)'
    BY <1>1, <2>1 DEF RunIsRight, MarkerIsRight, AtWork, Call
  <2> QED
    BY <1>1, <1>2, <2>1, <2>2, MovedAtWork DEF AtWork, Call
<1>4. CASE SpawnAfresh(r)
  <2>1. /\ call' = [call EXCEPT ![r].pc = "working", ![r].session = None, ![r].marker = "fresh"]
        /\ meta' = [meta EXCEPT ![r].requested = None, ![r].marker = "fresh"]
    BY <1>4 DEF SpawnAfresh
  <2>2. MarkerIsRight(r)'
    BY <1>1, <2>1 DEF MarkerIsRight, AtWork, Call, Record
  <2>3. /\ call'[r].pc = "working" /\ call'[r].parent = call[r].parent
        /\ call'[r].rotates = call[r].rotates /\ call'[r].account = call[r].account
    BY <1>1, <2>1 DEF Call
  <2>4. /\ meta'[r].status = "running"
        /\ meta'[r].parent = meta[r].parent /\ meta'[r].account = meta[r].account
        /\ meta'[r].rotated = meta[r].rotated
        /\ meta[r].session # None => meta'[r].session # None
    BY <1>1, <1>2, <2>1 DEF Record
  <2> QED
    BY <1>1, <2>1, <2>2, <2>3, <2>4, MovedAtWork DEF AtWork
<1>5. CASE FailPreSpawn(r)
  <2>1. /\ call' = [call EXCEPT ![r].pc = "over"]
        /\ meta' = [meta EXCEPT ![r].status = "terminal", ![r].error = "other"]
    BY <1>5 DEF FailPreSpawn, Goto
  <2>2. MarkerIsRight(r)'
    BY <1>1, <2>1 DEF RunIsRight, MarkerIsRight, AtWork, Call, Record
  <2>3. /\ call'[r].pc = "over" /\ call'[r].parent = call[r].parent
        /\ call'[r].rotates = call[r].rotates /\ call'[r].account = call[r].account
    BY <1>1, <2>1 DEF Call
  <2>4. /\ meta'[r].status = "terminal"
        /\ meta'[r].parent = meta[r].parent /\ meta'[r].account = meta[r].account
        /\ meta'[r].rotated = meta[r].rotated
        /\ meta[r].session # None => meta'[r].session # None
    BY <1>1, <2>1 DEF Record
  <2> QED
    BY <1>1, <2>1, <2>2, <2>3, <2>4, MovedAtWork
<1> QED
  BY <1>3, <1>4, <1>5

LEMMA WorkerMoves ==
  ASSUME RotationInvariant, NEW r \in Run, WorkerStep(r)
  PROVE  RunsAreRight' /\ QueuesAreRight' /\ ClaimsAreRight'
<1>1. /\ call[r].pc \in {"working", "settled"} /\ call[r].pc \in AtWork /\ UNCHANGED <<queue, claimed, rebuilt, lost>>
      /\ call[r] \in Call /\ meta[r] \in Record /\ RunIsRight(r)
      /\ call \in [Run -> Call] /\ meta \in [Run -> Record]
  BY Typed, FieldsTyped DEF WorkerStep, OpenSession, RetryAfresh, EndRun, AtWork, RotationInvariant,
     RunsAreRight
<1>2. meta[r].status = "running"
  BY <1>1 DEF RunIsRight, CallIsRight
<1>3. CASE OpenSession(r)
  <2>1. PICK s \in Run : call' = [call EXCEPT ![r].pc = "settled"] /\ meta' = [meta EXCEPT ![r].session = s]
    BY <1>3, FieldsTyped DEF OpenSession, Goto, RotationInvariant, Session
  <2>2. MarkerIsRight(r)'
    BY <1>1, <2>1 DEF RunIsRight, MarkerIsRight, AtWork, Call, Record
  <2>3. /\ call'[r].pc = "settled" /\ call'[r].parent = call[r].parent
        /\ call'[r].rotates = call[r].rotates /\ call'[r].account = call[r].account
    BY <1>1, <2>1 DEF Call
  <2>4. /\ meta'[r].status = "running"
        /\ meta'[r].parent = meta[r].parent /\ meta'[r].account = meta[r].account
        /\ meta'[r].rotated = meta[r].rotated
        /\ meta[r].session # None => meta'[r].session # None
    BY <1>1, <1>2, <2>1 DEF Record
  <2> QED
    BY <1>1, <2>1, <2>2, <2>3, <2>4, MovedAtWork DEF AtWork
<1>4. CASE RetryAfresh(r)
  <2>1. /\ call[r].pc = "working"
        /\ call' = [call EXCEPT ![r].session = None, ![r].marker = "fresh"]
        /\ meta' = [meta EXCEPT ![r].marker = "fresh"]
    BY <1>4 DEF RetryAfresh, OnRetryFired
  <2>2. MarkerIsRight(r)'
    BY <1>1, <2>1 DEF MarkerIsRight, AtWork, Call, Record
  <2>3. /\ call'[r].pc = "working" /\ call'[r].parent = call[r].parent
        /\ call'[r].rotates = call[r].rotates /\ call'[r].account = call[r].account
    BY <1>1, <2>1 DEF Call
  <2>4. /\ meta'[r].status = "running"
        /\ meta'[r].parent = meta[r].parent /\ meta'[r].account = meta[r].account
        /\ meta'[r].rotated = meta[r].rotated
        /\ meta[r].session # None => meta'[r].session # None
    BY <1>1, <1>2, <2>1 DEF Record
  <2> QED
    BY <1>1, <2>1, <2>2, <2>3, <2>4, MovedAtWork DEF AtWork
<1>5. ASSUME NEW ending \in Endings, EndRun(r, ending) PROVE RunsAreRight' /\ QueuesAreRight' /\ ClaimsAreRight'
  <2>1. /\ call' = [call EXCEPT ![r].pc = "over"]
        /\ meta' = [meta EXCEPT ![r].status = "terminal", ![r].error = ending.error]
    BY <1>5 DEF EndRun, Goto
  <2>2. MarkerIsRight(r)'
    BY <1>1, <2>1 DEF RunIsRight, MarkerIsRight, AtWork, Call, Record
  <2>3. /\ call'[r].pc = "over" /\ call'[r].parent = call[r].parent
        /\ call'[r].rotates = call[r].rotates /\ call'[r].account = call[r].account
    BY <1>1, <2>1 DEF Call
  <2>4. /\ meta'[r].status = "terminal"
        /\ meta'[r].parent = meta[r].parent /\ meta'[r].account = meta[r].account
        /\ meta'[r].rotated = meta[r].rotated
        /\ meta[r].session # None => meta'[r].session # None
    BY <1>1, <2>1 DEF Record
  <2> QED
    BY <1>1, <2>1, <2>2, <2>3, <2>4, MovedAtWork
<1> QED
  BY <1>3, <1>4, <1>5 DEF WorkerStep

LEMMA CrashMoves ==
  ASSUME RotationInvariant, Crash
  PROVE  RunsAreRight' /\ QueuesAreRight'
<1> USE DEF RotationInvariant
<1>1. QueuesAreRight'
  <2>1. \A p \in Run : queue'[p] = <<>>
    BY DEF Crash
  <2> QED
    BY <2>1 DEF QueuesAreRight
<1>2. PICK saved : meta' = [r \in Run |-> IF meta[r].status # "running" THEN meta[r]
                  ELSE [meta[r] EXCEPT !.status = "terminal",
                                       !.error = IF r \in DOMAIN saved THEN saved[r] ELSE "none"]]
  BY DEF Crash
<1>3. ASSUME NEW r \in Run
      PROVE  /\ meta'[r].parent = meta[r].parent /\ meta'[r].account = meta[r].account
             /\ meta'[r].rotated = meta[r].rotated
             /\ meta'[r].status = "absent" <=> meta[r].status = "absent"
             /\ meta[r] = Absent => meta'[r] = Absent
  <2>1. CASE meta[r].status # "running"
    BY <1>2, <2>1
  <2>2. CASE meta[r].status = "running"
    <3>1. meta'[r] = [meta[r] EXCEPT !.status = "terminal",
                                    !.error = IF r \in DOMAIN saved THEN saved[r] ELSE "none"]
      BY <1>2, <2>2
    <3>2. meta[r] \in Record /\ meta[r] # Absent
      BY <2>2, FieldsTyped DEF Absent
    <3> QED
      BY <2>2, <3>1, <3>2 DEF Record
  <2> QED
    BY <2>1, <2>2
<1>4. ASSUME NEW r \in Run PROVE RunIsRight(r)'
  <2>1. \/ call[r].pc = "idle" /\ call'[r] = call[r]
        \/ call'[r] = [Idle EXCEPT !.pc = "over"]
    BY DEF Crash
  <2>2. RunIsRight(r)
    BY DEF RunsAreRight
  <2>3. CASE call[r].pc = "idle" /\ call'[r] = call[r]
    <3>1. call'[r] = Idle /\ meta'[r] = Absent
      BY <1>3, <2>2, <2>3 DEF RunIsRight, CallIsRight, Before
    <3> QED
      BY <3>1 DEF RunIsRight, CallIsRight, RecordIsRight, MarkerIsRight, Before, Locking, Choosing,
         AtWork, Absent, Idle
  <2>4. CASE call'[r] = [Idle EXCEPT !.pc = "over"]
    <3>1. call'[r].pc = "over" /\ ~call'[r].rotates /\ call'[r].marker = "none"
      BY <2>4 DEF Idle
    <3>2. RecordIsRight(r)'
      BY <1>3, <2>2, FieldsTyped DEF RunIsRight, RecordIsRight, Session
    <3> QED
      BY <3>1, <3>2 DEF RunIsRight, CallIsRight, MarkerIsRight, Before, Locking, Choosing, AtWork
  <2> QED
    BY <2>1, <2>3, <2>4
<1> QED
  BY <1>1, <1>4 DEF RunsAreRight
-----------------------------------------------------------------------------
(* The claims, in the steps that make or read them. *)

LEMMA NobodyElseRecords ==
  ASSUME RotationInvariant, NEW r \in Run, NEW c \in Run, NEW p \in Run,
         Holds(r), call[r].parent = p, BeingRecorded(c, p)
  PROVE  c = r
<1>1. Holds(c)
  BY DEF BeingRecorded, RotationInvariant, RunsAreRight, RunIsRight, CallIsRight, Locking
<1> QED
  BY <1>1, HoldersDiffer DEF BeingRecorded

\* With nobody recording, the memory has every account that is taken, unless it lost one.
LEMMA RebuiltClaims ==
  ASSUME RotationInvariant, NEW p \in Run, RebuildClaims(p), UNCHANGED meta,
         \A c \in Run : ~BeingRecorded(c, p)
  PROVE  /\ lost => lost'
         /\ \A o \in Run \ {p} : claimed'[o] = claimed[o] /\ (o \in rebuilt' => o \in rebuilt)
         /\ claimed'[p] \subseteq ClaimedDestinations(p)
         /\ ~lost' => \A c \in ChildrenOf(p) : meta[c].account \in claimed'[p]
<1> USE DEF RotationInvariant, ClaimsAreRight
<1>1. CASE p \in rebuilt
  <2>1. UNCHANGED <<claimed, rebuilt, lost>>
    BY <1>1 DEF RebuildClaims
  <2>2. ~lost => \A c \in ChildrenOf(p) : meta[c].account \in claimed[p]
    BY <1>1 DEF ClaimsAreRemembered, ChildrenOf
  <2> QED
    BY <2>1, <2>2 DEF ClaimsAreOnDisk
<1>2. CASE p \notin rebuilt
  <2>1. rebuilt' = rebuilt \cup {p}
    BY <1>2 DEF RebuildClaims
  <2>2. CASE claimed' = [claimed EXCEPT ![p] = ClaimedDestinations(p)] /\ lost' = lost
    BY <2>1, <2>2, Typed DEF ClaimedDestinations
  <2>3. CASE claimed' = [claimed EXCEPT ![p] = {}] /\ lost' = (lost \/ ClaimedDestinations(p) # {})
    <3>1. (lost => lost') /\ (~lost' => ClaimedDestinations(p) = {})
      BY <2>3
    <3>2. claimed'[p] = {} /\ \A o \in Run \ {p} : claimed'[o] = claimed[o]
      BY <2>3, Typed
    <3>3. ClaimedDestinations(p) = {} => ChildrenOf(p) = {}
      BY DEF ClaimedDestinations
    <3> QED
      BY <2>1, <3>1, <3>2, <3>3
  <2> QED
    BY <1>2, <2>2, <2>3 DEF RebuildClaims
<1> QED
  BY <1>1, <1>2

LEMMA PickClaims ==
  ASSUME RotationInvariant, NEW r \in Run, PickAccount(r)
  PROVE  ClaimsAreRight'
<1> USE DEF RotationInvariant, ClaimsAreRight
<1>1. PICK p \in Run : p = call[r].parent /\ call[r].pc = "queued" /\ call[r].rotates /\ Holds(r)
  BY ParentOfRotation DEF PickAccount, RunsAreRight, RunIsRight, CallIsRight
<1>2. UNCHANGED meta /\ RebuildClaims(p)
  BY <1>1 DEF PickAccount, disk
<1>3. \A c \in Run : ~BeingRecorded(c, p)
  BY <1>1, NobodyElseRecords DEF BeingRecorded
<1>4. /\ lost => lost'
      /\ \A o \in Run \ {p} : claimed'[o] = claimed[o] /\ (o \in rebuilt' => o \in rebuilt)
      /\ claimed'[p] \subseteq ClaimedDestinations(p)
      /\ ~lost' => \A c \in ChildrenOf(p) : meta[c].account \in claimed'[p]
  BY <1>2, <1>3, RebuiltClaims
<1> DEFINE a == PickHealthyAccount(Passed(p))
<1>5. IF a = None THEN call' = [call EXCEPT ![r].pc = "over"]
      ELSE call' = [call EXCEPT ![r].pc = "cooling", ![r].account = a, ![r].place = SpawnPlace(a)]
  BY <1>1 DEF PickAccount, Fails, Goto
<1>6. a # None => a \notin claimed'[p] /\ a # meta[p].account
  BY PickIsHealthy DEF Healthy, Passed
<1> HIDE DEF a
<1>7. /\ \A q \in Run \ {r} : call'[q] = call[q]
      /\ call'[r].pc \in {"over", "cooling"}
      /\ call'[r].pc = "cooling" => call'[r].account = a /\ call'[r].parent = p /\ a # None
  BY <1>1, <1>5, Typed DEF Call
<1>8. \A o \in Run : ChildrenOf(o)' = ChildrenOf(o) /\ ClaimedDestinations(o)' = ClaimedDestinations(o)
  BY <1>2 DEF ChildrenOf, ClaimedDestinations
<1>9. ClaimsAreRemembered'
  <2> SUFFICES ASSUME ~lost', NEW o \in rebuilt', NEW c \in ChildrenOf(o)'
               PROVE  meta'[c].account \in claimed'[o] \/ BeingRecorded(c, o)'
    BY DEF ClaimsAreRemembered
  <2>1. o \in Run /\ c \in ChildrenOf(o) /\ c \in Run
    <3>1. o \in Run
      BY <1>2, RebuildTypes
    <3> QED
      BY <1>8, <3>1 DEF ChildrenOf
  <2>2. CASE o = p
    BY <1>2, <1>4, <2>1, <2>2
  <2>3. CASE o # p
    <3>1. ~lost /\ o \in rebuilt /\ claimed'[o] = claimed[o]
      BY <1>4, <2>1, <2>3
    <3>2. meta[c].account \in claimed[o] \/ BeingRecorded(c, o)
      BY <2>1, <3>1 DEF ClaimsAreRemembered
    <3> QED
      BY <1>1, <1>2, <1>7, <2>1, <3>1, <3>2 DEF BeingRecorded
  <2> QED
    BY <2>2, <2>3
<1>10. ChoicesAreFree'
  <2> SUFFICES ASSUME NEW o \in Run, call'[o].rotates, call'[o].pc \in Choosing
               PROVE  ChoiceIsFree(o)'
    BY DEF ChoicesAreFree, ChoiceIsFree
  <2>1. CASE o = r
    <3>1. call'[o].account = a /\ call'[o].parent = p /\ a # None
      BY <1>7, <2>1 DEF Choosing
    <3>2. a # meta[p].account /\ \A c \in ChildrenOf(p) : meta[c].account = a => lost'
      BY <1>4, <1>6, <3>1
    <3> QED
      BY <1>2, <1>8, <3>1, <3>2 DEF ChoiceIsFree
  <2>2. CASE o # r
    <3>1. call'[o] = call[o] /\ ChoiceIsFree(o)
      BY <1>7, <2>2 DEF ChoicesAreFree
    <3>2. PICK d \in Run : d = call[o].parent
      BY <3>1, ParentOfRotation
    <3> QED
      BY <1>2, <1>4, <1>8, <3>1, <3>2 DEF ChoiceIsFree
  <2> QED
    BY <2>1, <2>2
<1>11. ClaimsAreOnDisk'
  BY <1>4, <1>8 DEF ClaimsAreOnDisk
<1>12. SiblingsOnDistinctAccounts'
  BY <1>2, <1>4, <1>8 DEF SiblingsOnDistinctAccounts
<1> QED
  BY <1>9, <1>10, <1>11, <1>12

LEMMA CreateClaims ==
  ASSUME RotationInvariant, NEW r \in Run, CreateRun(r)
  PROVE  ClaimsAreRight'
<1> USE DEF RotationInvariant, ClaimsAreRight
<1>1. /\ call[r].pc = "creating" /\ RunIsRight(r) /\ meta[r] = Absent
      /\ UNCHANGED <<claimed, rebuilt, lost>>
  BY DEF CreateRun, RunsAreRight, RunIsRight, CallIsRight, Before
<1>2. call[r].rotates => Holds(r)
  BY <1>1 DEF RunIsRight, CallIsRight, Locking, Choosing
<1>3. CASE Fails(r) /\ UNCHANGED meta
  BY <1>1, <1>2, <1>3, FailingMoves
<1>4. CASE meta' = [meta EXCEPT ![r] = NewRecord(call[r])] /\ Goto(r, "recording")
  <2>1. /\ call'[r].pc = "recording" /\ call'[r].rotates = call[r].rotates
        /\ call'[r].parent = call[r].parent
        /\ \A q \in Run \ {r} : call'[q] = call[q] /\ meta'[q] = meta[q]
    BY <1>4, Typed DEF Call, Goto
  <2>2. /\ meta'[r].status = "running" /\ meta'[r].parent = call[r].parent
        /\ meta'[r].account = call[r].account /\ meta'[r].rotated = call[r].rotates
    BY <1>4, Typed DEF NewRecord, Absent
  <2>3. ASSUME NEW o \in Run, NEW c \in Run
        PROVE  c \in ChildrenOf(o)' <=> \/ c \in ChildrenOf(o)
                                        \/ c = r /\ call[r].rotates /\ call[r].parent = o
    BY <1>1, <2>1, <2>2 DEF ChildrenOf, Absent
  <2>4. \A o \in Run : \A c \in ChildrenOf(o) : c \in Run /\ c # r /\ o # r /\ meta'[c] = meta[c]
    BY <1>1, <2>1 DEF ChildrenOf, Absent, RunsAreRight, RunIsRight, RecordIsRight
  <2>5. call[r].rotates => call[r].parent \in Run /\ call[r].parent # r
    BY <1>1, ParentOfRotation DEF Absent
  <2>6. ClaimsAreRemembered'
    <3> SUFFICES ASSUME ~lost', NEW o \in rebuilt', NEW c \in ChildrenOf(o)'
                 PROVE  meta'[c].account \in claimed'[o] \/ BeingRecorded(c, o)'
      BY DEF ClaimsAreRemembered
    <3>1. o \in rebuilt /\ o \in Run /\ c \in Run /\ ~lost
      BY <1>1, Typed DEF ChildrenOf
    <3>2. CASE c \in ChildrenOf(o)
      BY <1>1, <2>1, <2>4, <3>1, <3>2 DEF ClaimsAreRemembered, BeingRecorded
    <3>3. CASE c \notin ChildrenOf(o)
      BY <2>1, <2>3, <3>1, <3>3 DEF BeingRecorded
    <3> QED
      BY <3>2, <3>3
  <2>7. ChoicesAreFree'
    <3> SUFFICES ASSUME NEW o \in Run, call'[o].rotates, call'[o].pc \in Choosing
                 PROVE  ChoiceIsFree(o)'
      BY DEF ChoicesAreFree, ChoiceIsFree
    <3>1. o # r /\ call'[o] = call[o] /\ ChoiceIsFree(o)
      BY <2>1 DEF Choosing, ChoicesAreFree
    <3>2. PICK p \in Run : p = call[o].parent /\ meta[p].status # "absent"
      BY <3>1, ParentOfRotation
    <3>3. Holds(o)
      BY <3>1 DEF RunsAreRight, RunIsRight, CallIsRight, Locking
    <3>4. ~(call[r].rotates /\ call[r].parent = p)
      BY <1>2, <3>1, <3>2, <3>3, HoldersDiffer
    <3>5. meta'[p] = meta[p]
      BY <1>1, <2>1, <3>2 DEF Absent
    <3>6. \A c \in ChildrenOf(p)' : c \in ChildrenOf(p) /\ meta'[c] = meta[c]
      <4>1. ChildrenOf(p)' \subseteq Run
        BY DEF ChildrenOf
      <4> QED
        BY <2>3, <2>4, <3>4, <4>1
    <3>7. /\ call[o].account # meta[p].account
          /\ \A c \in ChildrenOf(p) : meta[c].account = call[o].account => lost
      BY <3>1, <3>2 DEF ChoiceIsFree
    <3>8. /\ call'[o].account # meta'[p].account
          /\ \A c \in ChildrenOf(p)' : meta'[c].account = call'[o].account => lost'
      BY <1>1, <3>1, <3>5, <3>6, <3>7
    <3> QED
      BY <3>1, <3>2, <3>8 DEF ChoiceIsFree
  <2>8. ClaimsAreOnDisk'
    <3> SUFFICES ASSUME NEW o \in Run, NEW a \in claimed[o] PROVE a \in ClaimedDestinations(o)'
      BY <1>1 DEF ClaimsAreOnDisk
    <3>1. PICK c \in ChildrenOf(o) : a = meta[c].account
      BY DEF ClaimsAreOnDisk, ClaimedDestinations
    <3>2. c \in ChildrenOf(o)' /\ a = meta'[c].account
      BY <2>3, <2>4, <3>1
    <3> QED
      BY <3>2 DEF ClaimedDestinations
  <2>9. SiblingsOnDistinctAccounts'
    <3> SUFFICES ASSUME NEW o \in Run, NEW c \in ChildrenOf(o)'
                 PROVE  /\ meta'[c].account # meta'[o].account
                        /\ \A d \in ChildrenOf(o)' \ {c} : meta'[c].account = meta'[d].account => lost'
      BY DEF SiblingsOnDistinctAccounts
    <3>1. c \in Run /\ o # r
      <4>1. c \in Run
        BY DEF ChildrenOf
      <4> QED
        BY <2>3, <2>4, <2>5, <4>1
    <3>2. meta'[o] = meta[o]
      BY <2>1, <3>1
    <3>3. \A d \in ChildrenOf(o)' : d \in Run
      BY DEF ChildrenOf
    <3>4. CASE call[r].rotates /\ call[r].parent = o
      <4>1. /\ call[r].account # meta[o].account
            /\ \A d \in ChildrenOf(o) : meta[d].account = call[r].account => lost
        BY <1>1, <3>4 DEF ChoicesAreFree, ChoiceIsFree, Choosing
      <4>2. ASSUME NEW d \in ChildrenOf(o)', d # r
            PROVE  d \in ChildrenOf(o) /\ meta'[d] = meta[d]
        <5>1. d \in Run
          BY <3>3
        <5>2. d \in ChildrenOf(o)
          BY <2>3, <4>2, <5>1
        <5> QED
          BY <2>4, <5>2
      <4>3. CASE c = r
        BY <1>1, <2>2, <3>2, <4>1, <4>2, <4>3
      <4>4. CASE c # r
        BY <1>1, <2>2, <3>2, <4>1, <4>2, <4>4 DEF SiblingsOnDistinctAccounts
      <4> QED
        BY <4>3, <4>4
    <3>5. CASE ~(call[r].rotates /\ call[r].parent = o)
      <4>1. \A d \in ChildrenOf(o)' : d \in ChildrenOf(o) /\ meta'[d] = meta[d]
        BY <2>3, <2>4, <3>3, <3>5
      <4> QED
        BY <1>1, <3>2, <4>1 DEF SiblingsOnDistinctAccounts
    <3> QED
      BY <3>4, <3>5
  <2> QED
    BY <2>6, <2>7, <2>8, <2>9
<1> QED
  BY <1>3, <1>4 DEF CreateRun

LEMMA RecordClaims ==
  ASSUME RotationInvariant, NEW r \in Run, RecordRun(r)
  PROVE  ClaimsAreRight'
<1> USE DEF RotationInvariant, ClaimsAreRight
<1>1. /\ call[r].pc = "recording" /\ UNCHANGED rebuilt /\ call \in [Run -> Call] /\ meta \in [Run -> Record]
      /\ RunIsRight(r)
  BY Typed DEF RecordRun, RunsAreRight
<1>2. call[r].rotates => Holds(r)
  BY <1>1 DEF RunIsRight, CallIsRight, Locking
<1>3. CASE Fails(r) /\ call[r].rotates /\ lost' = TRUE /\ UNCHANGED <<meta, claimed>>
  BY <1>1, <1>2, <1>3, FailingMoves
<1>4. CASE /\ meta' = [meta EXCEPT ![r].marker = call[r].marker]
           /\ claimed' = IF call[r].rotates
                         THEN [claimed EXCEPT ![call[r].parent] = @ \cup {call[r].account}]
                         ELSE claimed
           /\ Goto(r, "spawning") /\ UNCHANGED lost
  <2>1. call'[r].pc = "spawning" /\ \A q \in Run \ {r} : call'[q] = call[q]
    BY <1>1, <1>4 DEF Call, Goto
  <2>2. \A o \in Run : SameRotation(o) /\ meta'[o].account = meta[o].account
    BY <1>1, <1>4 DEF SameRotation, Record
  <2>3. \A o \in Run : /\ ChildrenOf(o)' = ChildrenOf(o)
                       /\ \A c \in ChildrenOf(o) : c \in Run /\ meta'[c].account = meta[c].account
                       /\ ClaimedDestinations(o)' = ClaimedDestinations(o)
    BY <2>2, ChildrenSame
  <2>4. ASSUME call[r].rotates
        PROVE  /\ call[r].parent \in Run /\ r \in ChildrenOf(call[r].parent)
               /\ meta[r].account = call[r].account
    BY <1>1, <2>4, ParentOfRotation DEF RunIsRight, CallIsRight, ChildrenOf
  <2>5. ASSUME NEW o \in Run
        PROVE  claimed'[o] = IF call[r].rotates /\ call[r].parent = o
                             THEN claimed[o] \cup {call[r].account} ELSE claimed[o]
    BY <1>4, <2>4, Typed
  <2>6. ClaimsAreRemembered'
    <3> SUFFICES ASSUME ~lost', NEW o \in rebuilt', NEW c \in ChildrenOf(o)'
                 PROVE  meta'[c].account \in claimed'[o] \/ BeingRecorded(c, o)'
      BY DEF ClaimsAreRemembered
    <3>1. o \in Run /\ o \in rebuilt /\ ~lost
      BY <1>1, <1>4, Typed
    <3>2. c \in ChildrenOf(o) /\ c \in Run /\ meta'[c].account = meta[c].account
      BY <2>3, <3>1
    <3>3. CASE meta[c].account \in claimed[o]
      BY <2>5, <3>1, <3>2, <3>3
    <3>4. CASE BeingRecorded(c, o) /\ c # r
      BY <2>1, <3>2, <3>4 DEF BeingRecorded
    <3>5. CASE BeingRecorded(c, o) /\ c = r
      <4>1. call[r].rotates /\ call[r].parent = o
        BY <3>5 DEF BeingRecorded
      <4>2. meta[r].account = call[r].account
        BY <2>4, <4>1
      <4>3. claimed'[o] = claimed[o] \cup {call[r].account}
        BY <2>5, <3>1, <4>1
      <4> QED
        BY <3>2, <3>5, <4>2, <4>3
    <3> QED
      BY <3>1, <3>2, <3>3, <3>4, <3>5 DEF ClaimsAreRemembered
  <2>7. ChoicesAreFree'
    <3> SUFFICES ASSUME NEW o \in Run, call'[o].rotates, call'[o].pc \in Choosing
                 PROVE  ChoiceIsFree(o)'
      BY DEF ChoicesAreFree, ChoiceIsFree
    <3>1. call'[o] = call[o] /\ ChoiceIsFree(o)
      BY <2>1 DEF ChoicesAreFree, Choosing
    <3>2. PICK p \in Run : p = call[o].parent
      BY <3>1, ParentOfRotation
    <3>3. /\ call[o].account # meta[p].account
          /\ \A c \in ChildrenOf(p) : meta[c].account = call[o].account => lost
      BY <3>1, <3>2 DEF ChoiceIsFree
    <3>4. /\ call'[o].account # meta'[p].account
          /\ \A c \in ChildrenOf(p)' : meta'[c].account = call'[o].account => lost'
      BY <1>4, <2>2, <2>3, <3>1, <3>3
    <3> QED
      BY <3>1, <3>2, <3>4 DEF ChoiceIsFree
  <2>8. ClaimsAreOnDisk'
    <3> SUFFICES ASSUME NEW o \in Run PROVE claimed'[o] \subseteq ClaimedDestinations(o)
      BY <2>3 DEF ClaimsAreOnDisk
    <3>1. claimed[o] \subseteq ClaimedDestinations(o)
      BY DEF ClaimsAreOnDisk
    <3>2. call[r].rotates /\ call[r].parent = o => call[r].account \in ClaimedDestinations(o)
      BY <2>4 DEF ClaimedDestinations
    <3>3. CASE call[r].rotates /\ call[r].parent = o
      <4>1. claimed'[o] = claimed[o] \cup {call[r].account}
        BY <2>5, <3>3
      <4> QED
        BY <3>1, <3>2, <3>3, <4>1
    <3>4. CASE ~(call[r].rotates /\ call[r].parent = o)
      <4>1. claimed'[o] = claimed[o]
        BY <2>5, <3>4
      <4> QED
        BY <3>1, <4>1
    <3> QED
      BY <3>3, <3>4
  <2>9. SiblingsOnDistinctAccounts'
    <3> SUFFICES ASSUME NEW o \in Run, NEW c \in ChildrenOf(o)'
                 PROVE  /\ meta'[c].account # meta'[o].account
                        /\ \A d \in ChildrenOf(o)' \ {c} : meta'[c].account = meta'[d].account => lost'
      BY DEF SiblingsOnDistinctAccounts
    <3>1. ChildrenOf(o)' = ChildrenOf(o) /\ \A d \in ChildrenOf(o) : meta'[d].account = meta[d].account
      BY <2>3
    <3> QED
      BY <1>4, <2>2, <3>1 DEF SiblingsOnDistinctAccounts
  <2> QED
    BY <2>6, <2>7, <2>8, <2>9
<1> QED
  BY <1>3, <1>4 DEF RecordRun

LEMMA CrashClaims ==
  ASSUME RotationInvariant, Crash
  PROVE  ClaimsAreRight'
<1> USE DEF RotationInvariant, ClaimsAreRight
<1>1. PICK saved : meta' = [r \in Run |-> IF meta[r].status # "running" THEN meta[r]
                  ELSE [meta[r] EXCEPT !.status = "terminal",
                                       !.error = IF r \in DOMAIN saved THEN saved[r] ELSE "none"]]
  BY DEF Crash
<1>2. \A r \in Run : SameRotation(r) /\ meta'[r].account = meta[r].account
  <2> SUFFICES ASSUME NEW r \in Run PROVE SameRotation(r)
    BY DEF SameRotation
  <2>1. meta[r] \in Record
    BY FieldsTyped
  <2> QED
    BY <1>1, <2>1 DEF SameRotation, Record
<1>3. /\ rebuilt' = {} /\ \A p \in Run : claimed'[p] = {}
      /\ lost' = lost
  BY DEF Crash
<1>4. \A r \in Run : ~call'[r].rotates
  <2> SUFFICES ASSUME NEW r \in Run PROVE ~call'[r].rotates
    OBVIOUS
  <2>1. \/ call[r].pc = "idle" /\ call'[r] = call[r]
        \/ call'[r] = [Idle EXCEPT !.pc = "over"]
    BY DEF Crash
  <2>2. call[r].pc = "idle" => call[r] = Idle
    BY DEF RunsAreRight, RunIsRight, CallIsRight
  <2> QED
    BY <2>1, <2>2 DEF Idle
<1>5. SiblingsOnDistinctAccounts'
  <2> SUFFICES ASSUME NEW o \in Run, NEW c \in ChildrenOf(o)'
               PROVE  /\ meta'[c].account # meta'[o].account
                      /\ \A d \in ChildrenOf(o)' \ {c} : meta'[c].account = meta'[d].account => lost'
    BY DEF SiblingsOnDistinctAccounts
  <2>1. ChildrenOf(o)' = ChildrenOf(o) /\ \A d \in ChildrenOf(o) : meta'[d].account = meta[d].account
    BY <1>2, ChildrenSame
  <2> QED
    BY <1>2, <1>3, <2>1 DEF SiblingsOnDistinctAccounts
<1> QED
  BY <1>3, <1>4, <1>5 DEF ClaimsAreRemembered, ChoicesAreFree, ChoiceIsFree, ClaimsAreOnDisk

-----------------------------------------------------------------------------
(* The invariant *)

\* A step that changes nothing of a call but what its copy has read.
Unmoved(r) ==
  /\ call'[r].pc = call[r].pc /\ call'[r].parent = call[r].parent
  /\ call'[r].account = call[r].account /\ call'[r].place = call[r].place
  /\ call'[r].rotates = call[r].rotates /\ call'[r].session = call[r].session
  /\ call'[r].marker = call[r].marker
  /\ call'[r] = call[r] \/ call[r].pc = "renaming"

LEMMA QuietStep ==
  ASSUME RotationInvariant, UNCHANGED <<meta, queue, claimed, rebuilt, lost>>,
         \A r \in Run : Unmoved(r)
  PROVE  RunsAreRight' /\ QueuesAreRight' /\ ClaimsAreRight'
<1>1. RunsAreRight'
  <2> SUFFICES ASSUME NEW r \in Run PROVE RunIsRight(r)'
    BY DEF RunsAreRight
  <2>1. Unmoved(r) /\ RunIsRight(r) /\ UNCHANGED <<meta, queue>>
    BY DEF RotationInvariant, RunsAreRight
  <2>2. CallIsRight(r)'
    BY <2>1 DEF RunIsRight, CallIsRight, Unmoved, Holds
  <2>3. RecordIsRight(r)' /\ MarkerIsRight(r)'
    BY <2>1 DEF RunIsRight, RecordIsRight, MarkerIsRight, Unmoved
  <2> QED
    BY <2>2, <2>3 DEF RunIsRight
<1>2. QueuesAreRight'
  <2> SUFFICES ASSUME NEW p \in Run
               PROVE  /\ \A i \in DOMAIN queue[p] : InQueue(call'[queue[p][i]], p)
                      /\ \A i, j \in DOMAIN queue[p] : queue[p][i] = queue[p][j] => i = j
    BY DEF QueuesAreRight
  <2>1. ASSUME NEW i \in DOMAIN queue[p] PROVE InQueue(call'[queue[p][i]], p)
    <3>1. queue[p] \in Seq(Run)
      BY FieldsTyped DEF RotationInvariant
    <3>2. PICK r \in Run : r = queue[p][i]
      BY <3>1
    <3>3. InQueue(call[r], p)
      BY <3>2 DEF RotationInvariant, QueuesAreRight
    <3> QED
      BY <3>2, <3>3 DEF InQueue, Unmoved
  <2> QED
    BY <2>1 DEF RotationInvariant, QueuesAreRight
<1>3. ClaimsAreRemembered' /\ ClaimsAreOnDisk' /\ SiblingsOnDistinctAccounts'
  BY DEF RotationInvariant, ClaimsAreRight, ClaimsAreRemembered, BeingRecorded, ClaimsAreOnDisk,
     SiblingsOnDistinctAccounts, ChildrenOf, ClaimedDestinations, Unmoved
<1>4. ChoicesAreFree'
  <2> SUFFICES ASSUME NEW r \in Run PROVE ChoiceIsFree(r)'
    BY DEF ChoicesAreFree
  <2>1. Unmoved(r) /\ ChoiceIsFree(r) /\ UNCHANGED <<meta, lost>>
    BY DEF RotationInvariant, ClaimsAreRight, ChoicesAreFree
  <2> QED
    BY <2>1 DEF ChoiceIsFree, ChildrenOf, Unmoved
<1> QED
  BY <1>1, <1>2, <1>3, <1>4 DEF ClaimsAreRight

LEMMA StillStep ==
  ASSUME RotationInvariant, UNCHANGED <<meta, call, queue, claimed, rebuilt, lost>>
  PROVE  RunsAreRight' /\ QueuesAreRight' /\ ClaimsAreRight'
BY QuietStep DEF Unmoved

\* What a step does to the registry, which only the CLI undoes, and to session files.
Harmless ==
  /\ \A a \in Account : registry'[a].until < registry[a].until => cli # cli'
  /\ \A p \in Place, s \in Run :
       \/ files[p][s] \in {{}, files'[p][s]}
       \/ cli # cli'
       \/ \E r \in Run : call[r].pc = "working" /\ call[r].place = p
                         /\ files'[p][s] = files[p][s] \cup {r}
       \/ \E r \in Run : FoundNoTarget(r, p, s) /\ call[r].pc = "renaming"

LEMMA UntouchedIsHarmless ==
  ASSUME RotationInvariant
  PROVE  /\ registry' = registry => \A a \in Account : ~(registry'[a].until < registry[a].until)
         /\ files' = files => \A p \in Place, s \in Run : files[p][s] \in {{}, files'[p][s]}
BY EntriesAreNumbers

LEMMA FollowUpKeeps ==
  ASSUME RotationInvariant, NEW f \in Run, NEW p \in Run,
         StartRun \/ PlainFollowUp(f, p) \/ RotatingFollowUp(f, p)
  PROVE  RotationInvariant' /\ Harmless
<1>1. UNCHANGED <<registry, files, writers, cli, now>>
  BY DEF StartRun, PlainFollowUp, RotatingFollowUp, disk
<1>2. RegistryIsRight'
  BY <1>1, RegistryFrame
<1> QED
  BY <1>1, <1>2, FollowUpTypes, FollowUpMoves, UntouchedIsHarmless DEF RotationInvariant, Harmless

LEMMA CopyIsHarmless ==
  ASSUME RotationInvariant, NEW f \in Run, CopyStep(f)
  PROVE  \A p \in Place, s \in Run :
           \/ files[p][s] \in {{}, files'[p][s]}
           \/ FoundNoTarget(f, p, s) /\ call[f].pc = "renaming"
<1>1. CASE UNCHANGED files
  BY <1>1, UntouchedIsHarmless
<1>2. CASE RenameCopy(f) /\ Renames(f)
  <2>1. /\ call[f].pc = "renaming" /\ call[f].parent \in Run
        /\ files' = [files EXCEPT ![call[f].account][Conversation(f)] = call[f].seen]
    BY <1>2, RenameWrites, CopyingCall DEF Renames
  <2>2. PICK to \in Place, t \in Run, file \in SUBSET Run :
          to = call[f].account /\ t = Conversation(f) /\ file = call[f].seen
    BY <1>2, RenameWrites
  <2>3. FoundNoTarget(f, to, t)
    BY <2>1, <2>2 DEF FoundNoTarget
  <2>4. files' = [files EXCEPT ![to][t] = file] /\ files \in [Place -> [Run -> SUBSET Run]]
    BY <2>1, <2>2, Typed DEF RotationInvariant
  <2>5. \A p \in Place, s \in Run : files'[p][s] = files[p][s] \/ (p = to /\ s = t)
    BY <2>4
  <2> QED
    BY <2>1, <2>3, <2>5
<1> QED
  BY <1>1, <1>2, CopyFrames, RenameWrites

LEMMA CallKeeps ==
  ASSUME RotationInvariant, NEW r \in Run, CallStep(r)
  PROVE  RotationInvariant' /\ Harmless
<1>1. RunsAreRight' /\ QueuesAreRight' /\ ClaimsAreRight'
  BY PickMoves, PickClaims, CopyMoves, CreateMoves, CreateClaims, RecordMoves, RecordClaims, SpawnMoves
     DEF CallStep, CopyStep
<1>2. UNCHANGED <<registry, cli, now>>
  BY CopyFrames DEF CallStep, CopyStep, PickAccount, CreateRun, RecordRun, Spawn, SpawnAfresh, FailPreSpawn, disk
<1>3. \/ writers' = writers
      \/ \E w : writers' = Append(writers, w) /\ w.seen = NoSnapshot
  <2>1. CASE PickAccount(r)
    <3> DEFINE w == [by |-> r, seen |-> NoSnapshot, account |-> meta[call[r].parent].account]
    <3>1. writers' = writers \/ writers' = Append(writers, w)
      BY <2>1 DEF PickAccount
    <3>2. w.seen = NoSnapshot
      OBVIOUS
    <3> HIDE DEF w
    <3> QED
      BY <3>1, <3>2
  <2>2. CASE ~PickAccount(r)
    BY <2>2, CopyFrames DEF CallStep, CopyStep, CreateRun, RecordRun, Spawn, SpawnAfresh, FailPreSpawn, memory
  <2> QED
    BY <2>1, <2>2
<1>4. RegistryIsRight'
  BY <1>2, <1>3, RegistryFrame
<1>5. CopyStep(r) \/ files' = files
  BY DEF CallStep, CopyStep, PickAccount, CreateRun, RecordRun, Spawn, SpawnAfresh, FailPreSpawn, disk
<1> QED
  BY <1>1, <1>2, <1>4, <1>5, CallTypes, CopyIsHarmless, UntouchedIsHarmless DEF RotationInvariant, Harmless

LEMMA WorkerKeeps ==
  ASSUME RotationInvariant, NEW r \in Run, WorkerStep(r)
  PROVE  RotationInvariant' /\ Harmless
<1>1. UNCHANGED <<registry, cli, now>>
  BY DEF WorkerStep, OpenSession, RetryAfresh, EndRun
<1>2. \/ writers' = writers
      \/ \E w : writers' = Append(writers, w) /\ w.seen = NoSnapshot
  <2>1. CASE OpenSession(r) \/ RetryAfresh(r)
    BY <2>1 DEF OpenSession, RetryAfresh
  <2>2. ASSUME NEW ending \in Endings, EndRun(r, ending)
        PROVE  \/ writers' = writers
               \/ \E w : writers' = Append(writers, w) /\ w.seen = NoSnapshot
    <3> DEFINE w == [by |-> r, seen |-> NoSnapshot, account |-> meta[r].account]
    <3>1. writers' = writers \/ writers' = Append(writers, w)
      BY <2>2 DEF EndRun
    <3>2. w.seen = NoSnapshot
      OBVIOUS
    <3> HIDE DEF w
    <3> QED
      BY <3>1, <3>2
  <2> QED
    BY <2>1, <2>2 DEF WorkerStep
<1>3. RegistryIsRight'
  BY <1>1, <1>2, RegistryFrame
<1>4. CASE files' = files
  BY <1>1, <1>3, <1>4, WorkerTypes, WorkerMoves, UntouchedIsHarmless DEF RotationInvariant, Harmless
<1>5. CASE OpenSession(r)
  <2>1. PICK s \in Run : files' = [files EXCEPT ![call[r].place][s] = @ \cup {r}]
    BY <1>5, FieldsTyped DEF OpenSession, RotationInvariant, Session
  <2>2. files \in [Place -> [Run -> SUBSET Run]] /\ call[r].place \in Place /\ call[r].pc = "working"
    BY <1>5, FieldsTyped, Typed DEF RotationInvariant, OpenSession
  <2>3. \A p \in Place, t \in Run : \/ files[p][t] \in {{}, files'[p][t]}
                                    \/ call[r].place = p /\ files'[p][t] = files[p][t] \cup {r}
    BY <2>1, <2>2
  <2> QED
    BY <1>1, <1>3, <2>2, <2>3, WorkerTypes, WorkerMoves, UntouchedIsHarmless DEF RotationInvariant, Harmless
<1> QED
  BY <1>4, <1>5 DEF WorkerStep, RetryAfresh, EndRun

LEMMA RegistryKeeps ==
  ASSUME RotationInvariant, RegistryStep
  PROVE  RotationInvariant' /\ Harmless
<1>1. UNCHANGED files
  BY DEF RegistryStep, MarkRead, MarkWrite, disk
<1>2. RotationInvariant' /\ Later(registry', registry)
  BY RegistryTypes, MarkMoves, RegistryStepKept DEF RotationInvariant
<1>3. \A a \in Account : registry'[a].until \in Nat /\ registry[a].until \in Nat
  <2>1. registry' \in [Account -> AccountEntry]
    BY <1>2 DEF RotationInvariant, RotationTypeOK
  <2> QED
    BY <2>1, EntriesAreNumbers DEF AccountEntry
<1>4. \A a \in Account : ~(registry'[a].until < registry[a].until)
  BY <1>2, <1>3 DEF Later
<1> QED
  BY <1>1, <1>2, <1>4, UntouchedIsHarmless DEF Harmless

LEMMA CliKeeps ==
  ASSUME RotationInvariant,
         \/ \E a \in Touched : Login(a) \/ SetKey(a) \/ RemoveAccount(a)
         \/ CliWrite \/ DeleteConfigDir
  PROVE  RotationInvariant' /\ Harmless
<1>1. RunsAreRight' /\ QueuesAreRight' /\ ClaimsAreRight'
  <2>1. CASE DeleteConfigDir
    <3>1. UNCHANGED <<meta, queue, claimed, rebuilt, lost>>
      BY <2>1 DEF DeleteConfigDir
    <3>2. ASSUME NEW r \in Run PROVE Unmoved(r)
      <4>1. call[r] \in Call
        BY FieldsTyped DEF RotationInvariant
      <4>2. \/ call'[r] = call[r]
            \/ call[r].pc = "renaming" /\ call'[r] = [call[r] EXCEPT !.seen = {}]
        BY <2>1 DEF DeleteConfigDir
      <4> QED
        BY <4>1, <4>2 DEF Unmoved, Call
    <3> QED
      BY <3>1, <3>2, QuietStep
  <2>2. CASE ~DeleteConfigDir
    BY <2>2, StillStep DEF Login, SetKey, RemoveAccount, CliRead, CliWrite, disk, memory
  <2> QED
    BY <2>1, <2>2
<1>2. RotationTypeOK'
  BY CliTypes
<1>3. CASE CliWrite
  BY <1>1, <1>2, <1>3, CliWriteKept DEF RotationInvariant, Harmless
<1>4. CASE DeleteConfigDir
  <2>1. UNCHANGED <<registry, writers, now>> /\ cli' = NoCli /\ cli' # cli
    BY <1>4 DEF DeleteConfigDir, memory
  <2>2. RegistryIsRight'
    BY <2>1 DEF RotationInvariant, RegistryIsRight, CliTyped, CooldownsAreOrdered, Near, Later
  <2> QED
    BY <1>1, <1>2, <2>1, <2>2 DEF RotationInvariant, Harmless
<1>5. CASE \E a \in Touched : Login(a) \/ SetKey(a) \/ RemoveAccount(a)
  <2>1. PICK op \in {"login", "set", "remove"}, a \in Touched : CliRead(op, a)
    BY <1>5 DEF Login, SetKey, RemoveAccount
  <2>2. RegistryIsRight' /\ UNCHANGED <<registry, files>>
    BY <2>1, CliReadKept DEF CliRead, disk
  <2> QED
    BY <1>1, <1>2, <2>2, UntouchedIsHarmless DEF RotationInvariant, Harmless
<1> QED
  BY <1>3, <1>4, <1>5

LEMMA NextKeeps ==
  ASSUME RotationInvariant, [RotationNext]_rotationVars
  PROVE  RotationInvariant' /\ (RotationNext => Harmless)
<1>1. CASE UNCHANGED rotationVars
  <2>1. RunsAreRight' /\ QueuesAreRight' /\ ClaimsAreRight'
    BY <1>1, StillStep DEF rotationVars, disk, memory
  <2>2. RegistryIsRight' /\ UNCHANGED <<registry, files>>
    BY <1>1, RegistryFrame DEF rotationVars, disk, memory
  <2>3. RotationTypeOK'
    BY <1>1, Typed, TypedNext DEF rotationVars, disk, memory, bounds, RotationInvariant
  <2> QED
    BY <2>1, <2>2, <2>3, UntouchedIsHarmless DEF RotationInvariant, Harmless
<1>2. CASE Crash
  <2>1. UNCHANGED <<registry, files, cli, now>> /\ writers' = <<>>
    BY <1>2 DEF Crash
  <2>2. RegistryIsRight'
    BY <2>1, RegistryFrame
  <2> QED
    BY <1>2, <2>1, <2>2, CrashTypes, CrashMoves, CrashClaims, UntouchedIsHarmless DEF RotationInvariant, Harmless
<1>3. CASE Tick
  <2>1. now' = now + 1 /\ UNCHANGED <<disk, memory, cli, history, bounds>>
    BY <1>3 DEF Tick
  <2>2. RunsAreRight' /\ QueuesAreRight' /\ ClaimsAreRight'
    BY <2>1, StillStep DEF disk, memory
  <2>3. RegistryIsRight' /\ UNCHANGED <<registry, files>>
    BY <2>1, RegistryFrame DEF disk, memory
  <2>4. RotationTypeOK'
    BY <2>1, Typed, TypedNext DEF disk, memory, bounds, RotationInvariant
  <2> QED
    BY <2>2, <2>3, <2>4, UntouchedIsHarmless DEF RotationInvariant, Harmless
<1> QED
  BY <1>1, <1>2, <1>3, FollowUpKeeps, CallKeeps, WorkerKeeps, RegistryKeeps, CliKeeps
     DEF RotationNext, RotationAssumption
-----------------------------------------------------------------------------
(* The theorems *)

LEMMA InvariantHolds == RotationSpec => []RotationInvariant
<1>1. RotationInvariant /\ [RotationNext]_rotationVars => RotationInvariant'
  BY NextKeeps
<1> QED
  BY InvariantInit, <1>1, PTL DEF RotationSpec

(* However many follow-ups of a parent rotate at once, and however often the *)
(* daemon is killed and rebuilds its claims, no two of them get one account  *)
(* and none gets the one that hit the limit, unless a failing write or scan  *)
(* lost a claim (orchestratorService.ts 958-970, 1086-1128).                 *)
THEOREM SiblingsStayApart == RotationSpec => []SiblingsOnDistinctAccounts
<1>1. RotationInvariant => SiblingsOnDistinctAccounts
  BY DEF RotationInvariant, ClaimsAreRight
<1> QED
  BY <1>1, InvariantHolds, PTL

(* The claims in memory can be rebuilt from disk, and a run that is shown as *)
(* resumed runs in the session that it asked for, through every retry and    *)
(* restart of its worker (orchestratorService.ts 958-1008).                  *)
THEOREM RecordsAgree == RotationSpec => []RotationConsistent
<1>1. RotationInvariant => RotationConsistent
  <2> SUFFICES ASSUME RotationInvariant PROVE RotationConsistent
    OBVIOUS
  <2>1. ResumedMarkerIsTrue
    <3> SUFFICES ASSUME NEW r \in Run, call[r].pc = "settled", meta[r].marker = "resumed"
                 PROVE  call[r].session # None /\ call[r].session = meta[r].requested
      BY DEF ResumedMarkerIsTrue
    <3> QED
      BY DEF RotationInvariant, RunsAreRight, RunIsRight, MarkerIsRight, AtWork
  <2> QED
    BY <2>1 DEF RotationConsistent, RotationInvariant, ClaimsAreRight
<1> QED
  BY <1>1, InvariantHolds, PTL
-----------------------------------------------------------------------------
(* What a copy found.  A place that had no file of a session when a copy    *)
(* looked has none when it renames, or another copy came there meanwhile:   *)
(* who works in a session has found its file, and who begins one has no     *)
(* follow-up before its id is known.                                        *)

ParentHasEnded(r) == call[r].parent # None => meta[call[r].parent].status = "terminal"

Done == {"settled", "over"}
SessionsAreOpened ==
  \A r, s \in Run : s \in {meta[r].session, call[r].session} => call[s].pc \in Done

TargetIsFree(r) ==
  \A to \in Place, s \in Run :
    FoundNoTarget(r, to, s) /\ <<to, s>> \notin overtaken => files[to][s] = {}

Lookups ==
  /\ \A r \in Run : ParentHasEnded(r)
  /\ SessionsAreOpened
  /\ \A r \in Run : TargetIsFree(r)

LEMMA LookupsInit == RotationInit => Lookups
BY DEF RotationInit, Lookups, ParentHasEnded, SessionsAreOpened, TargetIsFree, Absent, Idle

\* A step that moves one run, its call and its record, and is no copy's.
OneMoves(r) ==
  /\ UNCHANGED <<files, overtaken>>
  /\ \A x \in Run \ {r} : call'[x] = call[x] /\ meta'[x] = meta[x]
  /\ meta[r].status = "terminal" => meta'[r] = meta[r]
  /\ call[r].pc \in Done => call'[r].pc \in Done
  /\ call'[r].pc \notin {"reading", "renaming"}
  /\ call'[r].parent \in {None, call[r].parent}
     \/ (call'[r].parent \in Run /\ meta[call'[r].parent].status = "terminal")
  /\ call'[r].session \in {None, call[r].session}
     \/ (\E p \in Run : call'[r].session = meta[p].session)
  /\ meta'[r].session \in {None, meta[r].session, call[r].session}

\* The record of a run that is followed up stays as it is.
LEMMA ParentStays ==
  ASSUME RotationInvariant, Lookups, NEW x \in Run, call[x].parent # None,
         \A p \in Run : meta[p].status = "terminal" => meta'[p] = meta[p]
  PROVE  call[x].parent \in Run /\ meta'[call[x].parent] = meta[call[x].parent]
<1>1. call[x].parent \in Run
  BY FieldsTyped DEF RotationInvariant, Session
<1> QED
  BY <1>1 DEF Lookups, ParentHasEnded

\* A call that goes on with the same parent finds what it found.
LEMMA StillFound ==
  ASSUME RotationInvariant, Lookups, NEW x \in Run, NEW to \in Place, NEW s \in Run,
         \A p \in Run : meta[p].status = "terminal" => meta'[p] = meta[p],
         call'[x] = call[x] \/ Unmoved(x), FoundNoTarget(x, to, s)'
  PROVE  FoundNoTarget(x, to, s)
<1>1. /\ call'[x].parent = call[x].parent /\ call'[x].account = call[x].account
      /\ call'[x].pc = call[x].pc
      /\ call[x].pc = "reading" => call'[x].seen = call[x].seen
  BY DEF Unmoved
<1>2. call[x].parent # None
  BY <1>1 DEF FoundNoTarget
<1>3. meta'[call[x].parent] = meta[call[x].parent]
  BY <1>2, ParentStays
<1> QED
  BY <1>1, <1>3 DEF FoundNoTarget, Conversation

LEMMA LookupsOfOne ==
  ASSUME RotationInvariant, Lookups, NEW r \in Run, OneMoves(r)
  PROVE  Lookups'
<1>1. \A p \in Run : meta[p].status = "terminal" => meta'[p] = meta[p]
  BY DEF OneMoves
<1>2. ASSUME NEW x \in Run PROVE ParentHasEnded(x)'
  <2>1. CASE call'[x].parent = call[x].parent /\ call[x].parent # None
    BY <1>1, <2>1, ParentStays DEF ParentHasEnded, Lookups
  <2>2. CASE call'[x].parent \in Run /\ meta[call'[x].parent].status = "terminal"
    BY <1>1, <2>2 DEF ParentHasEnded
  <2>3. call'[x].parent \in {None, call[x].parent}
        \/ (call'[x].parent \in Run /\ meta[call'[x].parent].status = "terminal")
    BY DEF OneMoves
  <2> QED
    BY <2>1, <2>2, <2>3 DEF ParentHasEnded
<1>3. SessionsAreOpened'
  <2> SUFFICES ASSUME NEW x \in Run, NEW s \in Run, s \in {meta'[x].session, call'[x].session}
               PROVE  call'[s].pc \in Done
    BY DEF SessionsAreOpened
  <2>1. \E y \in Run : s \in {meta[y].session, call[y].session}
    BY RotationAssumption DEF OneMoves
  <2>2. call[s].pc \in Done
    BY <2>1 DEF Lookups, SessionsAreOpened
  <2> QED
    BY <2>2 DEF OneMoves
<1>4. ASSUME NEW x \in Run PROVE TargetIsFree(x)'
  <2> SUFFICES ASSUME NEW to \in Place, NEW s \in Run, FoundNoTarget(x, to, s)',
                      <<to, s>> \notin overtaken'
               PROVE  files'[to][s] = {}
    BY DEF TargetIsFree
  <2>1. x # r /\ call'[x] = call[x] /\ UNCHANGED <<files, overtaken>>
    BY DEF OneMoves, FoundNoTarget
  <2>2. FoundNoTarget(x, to, s)
    BY <1>1, <2>1, StillFound
  <2> QED
    BY <2>1, <2>2 DEF Lookups, TargetIsFree
<1> QED
  BY <1>2, <1>3, <1>4 DEF Lookups

LEMMA FollowUpMovesOne ==
  ASSUME RotationInvariant, NEW f \in Run, NEW p \in Run,
         PlainFollowUp(f, p) \/ RotatingFollowUp(f, p)
  PROVE  OneMoves(f)
<1>1. call[f] = Idle /\ call \in [Run -> Call] /\ UNCHANGED <<meta, files, overtaken>>
      /\ meta[p].status = "terminal"
  BY Typed DEF RotationInvariant, RunsAreRight, RunIsRight, CallIsRight, PlainFollowUp,
     RotatingFollowUp, disk
<1>2. CASE PlainFollowUp(f, p)
  <2>1. call' = [call EXCEPT ![f] = [call[f] EXCEPT !.pc = "creating", !.parent = p,
                   !.account = meta[p].account, !.place = SpawnPlace(meta[p].account),
                   !.session = meta[p].session]]
    BY <1>1, <1>2 DEF PlainFollowUp
  <2>2. /\ call'[f].pc = "creating" /\ call'[f].parent = p /\ call'[f].session = meta[p].session
        /\ \A x \in Run \ {f} : call'[x] = call[x]
    BY <1>1, <2>1 DEF Idle
  <2> QED
    BY <1>1, <2>2 DEF OneMoves, Idle, Done
<1>3. CASE RotatingFollowUp(f, p)
  <2>1. call' = [call EXCEPT ![f] = [call[f] EXCEPT !.pc = "queued", !.parent = p,
                                                    !.rotates = TRUE]]
    BY <1>1, <1>3 DEF RotatingFollowUp
  <2>2. /\ call'[f].pc = "queued" /\ call'[f].parent = p /\ call'[f].session = None
        /\ \A x \in Run \ {f} : call'[x] = call[x]
    BY <1>1, <2>1 DEF Idle
  <2> QED
    BY <1>1, <2>2 DEF OneMoves, Idle, Done
<1> QED
  BY <1>2, <1>3

LEMMA StartMovesOne ==
  ASSUME RotationInvariant, StartRun
  PROVE  Root \in Run /\ OneMoves(Root)
<1>1. call[Root] = Idle /\ call \in [Run -> Call] /\ UNCHANGED <<meta, files, overtaken>>
  BY Typed DEF RotationInvariant, RunsAreRight, RunIsRight, CallIsRight, StartRun, disk
<1>2. PICK a : call' = [call EXCEPT ![Root] = [call[Root] EXCEPT !.pc = "creating", !.account = a,
                                                                !.place = SpawnPlace(a)]]
  BY <1>1 DEF StartRun
<1>3. /\ call'[Root].pc = "creating" /\ call'[Root].parent = None /\ call'[Root].session = None
      /\ \A x \in Run \ {Root} : call'[x] = call[x]
  BY <1>1, <1>2 DEF Idle
<1> QED
  BY <1>1, <1>3 DEF OneMoves, Idle, Done

\* A call goes to its next step, or gives up.
LEMMA GotoMovesOne ==
  ASSUME RotationInvariant, NEW r \in Run, NEW step, Goto(r, step),
         step \notin {"reading", "renaming"}, call[r].pc \notin Done,
         UNCHANGED <<files, overtaken>>, \A x \in Run \ {r} : meta'[x] = meta[x],
         meta[r].status = "terminal" => meta'[r] = meta[r],
         meta'[r].session \in {None, meta[r].session, call[r].session}
  PROVE  OneMoves(r)
<1>1. call \in [Run -> Call] /\ call' = [call EXCEPT ![r] = [call[r] EXCEPT !.pc = step]]
  BY Typed DEF RotationInvariant, Goto
<1>2. /\ call'[r].pc = step /\ call'[r].parent = call[r].parent /\ call'[r].session = call[r].session
      /\ \A x \in Run \ {r} : call'[x] = call[x]
  BY <1>1 DEF Call
<1> QED
  BY <1>2 DEF OneMoves

LEMMA PickMovesOne ==
  ASSUME RotationInvariant, NEW f \in Run, PickAccount(f)
  PROVE  OneMoves(f)
<1>1. UNCHANGED <<meta, files, overtaken>> /\ call[f].pc = "queued" /\ call \in [Run -> Call]
  BY Typed DEF PickAccount, disk, RotationInvariant
<1> DEFINE a == PickHealthyAccount(Passed(call[f].parent))
<1>2. \/ Goto(f, "over")
      \/ call' = [call EXCEPT ![f].pc = "cooling", ![f].account = a, ![f].place = SpawnPlace(a)]
  BY DEF PickAccount, Fails
<1>3. CASE Goto(f, "over")
  BY <1>1, <1>3, GotoMovesOne DEF Done
<1>4. CASE call' = [call EXCEPT ![f].pc = "cooling", ![f].account = a, ![f].place = SpawnPlace(a)]
  <2>1. call' = [call EXCEPT ![f] = [call[f] EXCEPT !.pc = "cooling", !.account = a,
                                                    !.place = SpawnPlace(a)]]
    BY <1>1, <1>4
  <2> HIDE DEF a
  <2>2. /\ call'[f].pc = "cooling" /\ call'[f].parent = call[f].parent
        /\ call'[f].session = call[f].session /\ \A x \in Run \ {f} : call'[x] = call[x]
    BY <1>1, <2>1 DEF Call
  <2> QED
    BY <1>1, <2>2 DEF OneMoves, Done
<1> QED
  BY <1>2, <1>3, <1>4

LEMMA RecordMovesOne ==
  ASSUME RotationInvariant, NEW r \in Run, CreateRun(r) \/ RecordRun(r)
  PROVE  OneMoves(r)
<1>1. /\ UNCHANGED <<files, overtaken>> /\ call[r].pc \in {"creating", "recording"}
      /\ meta \in [Run -> Record] /\ meta[r].status # "terminal"
  BY Typed DEF CreateRun, RecordRun, RotationInvariant, RunsAreRight, RunIsRight, CallIsRight,
     Before, Absent
<1>2. CASE CreateRun(r)
  <2>1. \/ Goto(r, "recording") /\ meta' = [meta EXCEPT ![r] = NewRecord(call[r])]
        \/ Goto(r, "over") /\ UNCHANGED meta
    BY <1>2 DEF CreateRun, Fails
  <2>2. NewRecord(call[r]).session \in {None, call[r].session}
    BY DEF NewRecord, Absent
  <2> QED
    BY <1>1, <2>1, <2>2, GotoMovesOne DEF Done
<1>3. CASE RecordRun(r)
  <2>1. \/ Goto(r, "spawning") /\ meta' = [meta EXCEPT ![r] = [meta[r] EXCEPT !.marker = call[r].marker]]
        \/ Goto(r, "over") /\ UNCHANGED meta
    BY <1>1, <1>3 DEF RecordRun, Fails
  <2>2. [meta[r] EXCEPT !.marker = call[r].marker].session = meta[r].session
    BY <1>1 DEF Record
  <2> QED
    BY <1>1, <2>1, <2>2, GotoMovesOne DEF Done
<1> QED
  BY <1>2, <1>3

LEMMA SpawnMovesOne ==
  ASSUME RotationInvariant, NEW r \in Run, Spawn(r) \/ SpawnAfresh(r) \/ FailPreSpawn(r)
  PROVE  OneMoves(r)
<1>1. /\ UNCHANGED <<files, overtaken>> /\ call[r].pc = "spawning" /\ call \in [Run -> Call]
      /\ meta \in [Run -> Record] /\ meta[r].status # "terminal"
  BY Typed DEF Spawn, SpawnAfresh, FailPreSpawn, disk, RotationInvariant, RunsAreRight, RunIsRight,
     CallIsRight, AtWork
<1>2. CASE Spawn(r)
  BY <1>1, <1>2, GotoMovesOne DEF Spawn, disk, Done
<1>3. CASE SpawnAfresh(r)
  <2>1. /\ call' = [call EXCEPT ![r] = [call[r] EXCEPT !.pc = "working", !.session = None,
                                                      !.marker = "fresh"]]
        /\ meta' = [meta EXCEPT ![r] = [meta[r] EXCEPT !.requested = None, !.marker = "fresh"]]
    BY <1>1, <1>3 DEF SpawnAfresh
  <2>2. /\ call'[r].pc = "working" /\ call'[r].session = None /\ call'[r].parent = call[r].parent
        /\ \A x \in Run \ {r} : call'[x] = call[x]
    BY <1>1, <2>1 DEF Call
  <2>3. meta'[r].session = meta[r].session /\ \A x \in Run \ {r} : meta'[x] = meta[x]
    BY <1>1, <2>1 DEF Record
  <2> QED
    BY <1>1, <2>2, <2>3 DEF OneMoves, Done
<1>4. CASE FailPreSpawn(r)
  <2>1. Goto(r, "over") /\ meta' = [meta EXCEPT ![r] = [meta[r] EXCEPT !.status = "terminal", !.error = "other"]]
    BY <1>1, <1>4 DEF FailPreSpawn
  <2>2. meta'[r].session = meta[r].session /\ \A x \in Run \ {r} : meta'[x] = meta[x]
    BY <1>1, <2>1 DEF Record
  <2> QED
    BY <1>1, <2>1, <2>2, GotoMovesOne DEF Done
<1> QED
  BY <1>2, <1>3, <1>4

LEMMA EndMovesOne ==
  ASSUME RotationInvariant, NEW r \in Run, RetryAfresh(r) \/ \E ending \in Endings : EndRun(r, ending)
  PROVE  OneMoves(r)
<1>1. /\ UNCHANGED <<files, overtaken>> /\ call[r].pc \in {"working", "settled"}
      /\ meta \in [Run -> Record] /\ meta[r].status # "terminal" /\ call \in [Run -> Call]
  BY Typed DEF RetryAfresh, EndRun, RotationInvariant, RunsAreRight, RunIsRight, CallIsRight, AtWork
<1>2. CASE RetryAfresh(r)
  <2>1. /\ call' = [call EXCEPT ![r] = [call[r] EXCEPT !.session = None, !.marker = "fresh"]]
        /\ meta' = [meta EXCEPT ![r] = [meta[r] EXCEPT !.marker = "fresh"]] /\ call[r].pc = "working"
    BY <1>1, <1>2 DEF RetryAfresh, OnRetryFired
  <2>2. /\ call'[r].pc = "working" /\ call'[r].session = None /\ call'[r].parent = call[r].parent
        /\ \A x \in Run \ {r} : call'[x] = call[x]
    BY <1>1, <2>1 DEF Call
  <2>3. meta'[r].session = meta[r].session /\ \A x \in Run \ {r} : meta'[x] = meta[x]
    BY <1>1, <2>1 DEF Record
  <2> QED
    BY <1>1, <2>1, <2>2, <2>3 DEF OneMoves, Done
<1>3. ASSUME NEW ending \in Endings, EndRun(r, ending)
      PROVE  OneMoves(r)
  <2>1. /\ meta' = [meta EXCEPT ![r] = [meta[r] EXCEPT !.status = "terminal", !.error = ending.error]]
        /\ call' = [call EXCEPT ![r] = [call[r] EXCEPT !.pc = "over"]]
    BY <1>1, <1>3 DEF EndRun, Goto
  <2>2. /\ call'[r].pc = "over" /\ call'[r].session = call[r].session /\ call'[r].parent = call[r].parent
        /\ \A x \in Run \ {r} : call'[x] = call[x]
    BY <1>1, <2>1 DEF Call
  <2>3. meta'[r].session = meta[r].session /\ \A x \in Run \ {r} : meta'[x] = meta[x]
    BY <1>1, <2>1 DEF Record
  <2> QED
    BY <1>1, <2>2, <2>3 DEF OneMoves, Done
<1> QED
  BY <1>2, <1>3

LEMMA MarkMovesOne ==
  ASSUME RotationInvariant, RegistryStep
  PROVE  UNCHANGED <<meta, call, files, overtaken>> \/ \E r \in Run : OneMoves(r)
<1>1. UNCHANGED <<meta, files, overtaken>> /\ call \in [Run -> Call]
  BY Typed DEF RegistryStep, MarkRead, MarkWrite, disk, RotationInvariant
<1>2. ASSUME NEW i \in DOMAIN writers, MarkWrite(i), call' # call
      PROVE  \E r \in Run : OneMoves(r)
  <2>1. PICK r \in Run : r = writers[i].by
    BY <1>2, WriterFields DEF RotationInvariant
  <2>2. call[r].pc = "cooling" /\ Goto(r, "copying")
    BY <1>2, <2>1 DEF MarkWrite, Goto
  <2> QED
    BY <1>1, <2>2, GotoMovesOne DEF Done
<1> QED
  BY <1>1, <1>2 DEF RegistryStep, MarkRead

\* A step of a copy: it looks, and stops looking where another copy came.
LEMMA CopyLookups ==
  ASSUME RotationInvariant, Lookups, NEW f \in Run, CopyStep(f)
  PROVE  Lookups'
<1>1. /\ UNCHANGED meta /\ KeepsCall(f) /\ CopyMoved(f) /\ call[f].pc \in Copies
      /\ call[f].parent \in Run /\ call[f].account \in Place
  BY CopyFrames, CallAfterCopyStep, CopyingCall
<1>2. overtaken \subseteq overtaken'
  BY CopyFrames, RenameWrites DEF Renames
<1>3. ASSUME NEW x \in Run PROVE ParentHasEnded(x)'
  BY <1>1 DEF KeepsCall, Lookups, ParentHasEnded
<1>4. SessionsAreOpened'
  <2> SUFFICES ASSUME NEW x \in Run, NEW s \in Run, s \in {meta'[x].session, call'[x].session}
               PROVE  call'[s].pc \in Done
    BY DEF SessionsAreOpened
  <2>1. \E y \in Run : s \in {meta[y].session, call[y].session}
    BY <1>1 DEF KeepsCall, CopyMoved, Conversation
  <2>2. call[s].pc \in Done
    BY <2>1 DEF Lookups, SessionsAreOpened
  <2> QED
    BY <1>1, <2>2 DEF KeepsCall, Done
<1>5. ASSUME NEW x \in Run PROVE TargetIsFree(x)'
  <2> SUFFICES ASSUME NEW to \in Place, NEW s \in Run, FoundNoTarget(x, to, s)',
                      <<to, s>> \notin overtaken'
               PROVE  files'[to][s] = {}
    BY DEF TargetIsFree
  <2>1. \A p \in Run : meta[p].status = "terminal" => meta'[p] = meta[p]
    BY <1>1
  <2>2. CASE FoundNoTarget(x, to, s)
    <3>1. files[to][s] = {}
      BY <1>2, <2>2 DEF Lookups, TargetIsFree
    <3>2. CASE UNCHANGED files
      BY <3>1, <3>2
    <3>3. CASE RenameCopy(f) /\ Renames(f)
      <4>1. PICK at \in Place, t \in Run, file \in SUBSET Run :
              at = call[f].account /\ t = Conversation(f) /\ file = call[f].seen
        BY <3>3, RenameWrites
      <4>2. /\ files' = [files EXCEPT ![at][t] = file]
            /\ overtaken' = overtaken \cup
                 {<<at, t>> : other \in {o \in Run \ {f} : FoundNoTarget(o, at, t)}}
        BY <3>3, <4>1 DEF Renames
      <4>3. x # f
        <5>1. CASE x = f
          <6>1. call'[f].pc = "creating"
            BY <3>3, Typed DEF Renames, GoesOnWith, RotationInvariant, Call
          <6> QED
            BY <5>1, <6>1 DEF FoundNoTarget
        <5> QED
          BY <5>1
      <4>4. to # at \/ s # t
        BY <2>2, <4>2, <4>3
      <4>5. files'[to][s] = files[to][s]
        BY <4>1, <4>2, <4>4, Typed DEF RotationInvariant
      <4> QED
        BY <3>1, <4>5
    <3> QED
      BY <3>2, <3>3, CopyFrames, RenameWrites
  <2>3. CASE ~FoundNoTarget(x, to, s)
    <3>1. x = f
      BY <1>1, <2>1, <2>3, StillFound DEF KeepsCall
    <3>2. /\ call'[f].account = to /\ call[f].account = to /\ Conversation(f) = s
          /\ call'[f].parent = call[f].parent
          /\ \/ call'[f].pc = "reading" /\ call'[f].seen = {}
             \/ call'[f].pc = "renaming"
      BY <1>1, <3>1 DEF FoundNoTarget, KeepsCall, Conversation
    <3>3. call \in [Run -> Call]
      BY Typed DEF RotationInvariant
    <3>4. \A file : Reads(f, "renaming", file) => call'[f].pc = "renaming"
      BY <3>3 DEF Reads, Call
    <3>5. \A file : Reads(f, "reading", file) => call'[f].pc = "reading" /\ call'[f].seen = file
      BY <3>3 DEF Reads, Call
    <3>6. StartsAfresh(f) => call'[f].pc = "creating"
      BY <3>3 DEF StartsAfresh, Call
    <3>7. GoesOnWith(f, s) => call'[f].pc = "creating"
      BY <3>3 DEF GoesOnWith, Call
    <3>8. CASE CheckTarget(f)
      <4>1. UNCHANGED files
        BY <3>8 DEF CheckTarget, CopiesNothing
      <4>2. Reads(f, "reading", files[to][s])
        BY <3>2, <3>6, <3>8 DEF CheckTarget, TargetFile
      <4> QED
        BY <3>2, <3>5, <4>1, <4>2
    <3>9. CASE ReadSource(f)
      <4>1. call[f].seen = {} /\ call[f].pc = "reading"
        BY <3>2, <3>6, <3>7, <3>9 DEF ReadSource
      <4> QED
        BY <1>1, <2>3, <3>1, <3>2, <4>1 DEF FoundNoTarget
    <3>10. CASE RenameCopy(f)
      BY <3>2, <3>6, <3>7, <3>10, RenameWrites DEF Renames
    <3> QED
      BY <3>8, <3>9, <3>10 DEF CopyStep
  <2> QED
    BY <2>2, <2>3
<1> QED
  BY <1>3, <1>4, <1>5 DEF Lookups

\* The worker opens its session.
LEMMA OpenLookups ==
  ASSUME RotationInvariant, Lookups, NEW r \in Run, OpenSession(r)
  PROVE  Lookups'
<1>1. /\ call[r].pc = "working" /\ UNCHANGED overtaken
      /\ call \in [Run -> Call] /\ files \in [Place -> [Run -> SUBSET Run]]
      /\ meta \in [Run -> Record] /\ meta[r].status = "running"
  BY Typed DEF OpenSession, RotationInvariant, RunsAreRight, RunIsRight, CallIsRight, AtWork
<1>2. PICK t \in Run, at \in Place :
        t = (IF call[r].session = None THEN r ELSE call[r].session) /\ at = call[r].place
  BY FieldsTyped DEF RotationInvariant, Session
<1>3. /\ files' = [files EXCEPT ![at][t] = files[at][t] \cup {r}]
      /\ meta' = [meta EXCEPT ![r] = [meta[r] EXCEPT !.session = t]]
      /\ call' = [call EXCEPT ![r] = [call[r] EXCEPT !.pc = "settled"]]
      /\ call[r].session # None => files[at][t] # {}
  BY <1>1, <1>2 DEF OpenSession, Goto
<1>4. /\ call'[r].pc = "settled" /\ call'[r].parent = call[r].parent
      /\ call'[r].session = call[r].session /\ \A x \in Run \ {r} : call'[x] = call[x]
  BY <1>1, <1>3 DEF Call
<1>5. /\ meta'[r].session = t /\ \A x \in Run \ {r} : meta'[x] = meta[x]
      /\ \A p \in Run : meta[p].status = "terminal" => meta'[p] = meta[p]
  BY <1>1, <1>3 DEF Record
<1>6. ASSUME NEW x \in Run PROVE ParentHasEnded(x)'
  <2>1. call'[x].parent = call[x].parent
    BY <1>4
  <2> QED
    BY <1>5, <2>1, ParentStays DEF Lookups, ParentHasEnded
<1>7. SessionsAreOpened'
  <2> SUFFICES ASSUME NEW x \in Run, NEW s \in Run, s \in {meta'[x].session, call'[x].session}
               PROVE  call'[s].pc \in Done
    BY DEF SessionsAreOpened
  <2>1. s = r \/ \E y \in Run : s \in {meta[y].session, call[y].session}
    BY <1>2, <1>4, <1>5
  <2>2. s = r \/ call[s].pc \in Done
    BY <2>1 DEF Lookups, SessionsAreOpened
  <2> QED
    BY <1>4, <2>2 DEF Done
<1>8. ASSUME NEW x \in Run PROVE TargetIsFree(x)'
  <2> SUFFICES ASSUME NEW to \in Place, NEW s \in Run, FoundNoTarget(x, to, s)',
                      <<to, s>> \notin overtaken'
               PROVE  files'[to][s] = {}
    BY DEF TargetIsFree
  <2>1. x # r
    BY <1>4 DEF FoundNoTarget
  <2>2. FoundNoTarget(x, to, s)
    BY <1>4, <1>5, <2>1, StillFound
  <2>3. files[to][s] = {}
    BY <1>1, <2>2 DEF Lookups, TargetIsFree
  <2>4. CASE to = at /\ s = t
    <3>1. call[r].session = None /\ s = r
      BY <1>2, <1>3, <2>3, <2>4
    <3>2. call[x].parent \in Run /\ meta[call[x].parent].session = r
      BY <2>2, <3>1, FieldsTyped DEF FoundNoTarget, Conversation, RotationInvariant, Session
    <3>3. call[r].pc \in Done
      BY <3>2 DEF Lookups, SessionsAreOpened
    <3> QED
      BY <1>1, <3>3 DEF Done
  <2>5. CASE ~(to = at /\ s = t)
    BY <1>1, <1>3, <2>3, <2>5
  <2> QED
    BY <2>4, <2>5
<1> QED
  BY <1>6, <1>7, <1>8 DEF Lookups

\* A restart ends every call.
LEMMA CrashLookups ==
  ASSUME RotationInvariant, Lookups, Crash
  PROVE  Lookups'
<1>1. ASSUME NEW r \in Run
      PROVE  /\ meta'[r].session = meta[r].session
             /\ call'[r].pc \in {"idle", "over"} /\ call'[r].parent = None /\ call'[r].session = None
             /\ call[r].pc \in Done => call'[r].pc \in Done
  <2>1. PICK saved : meta' = [q \in Run |-> IF meta[q].status # "running" THEN meta[q]
                     ELSE [meta[q] EXCEPT !.status = "terminal",
                                          !.error = IF q \in DOMAIN saved THEN saved[q] ELSE "none"]]
    BY DEF Crash
  <2> DEFINE error == IF r \in DOMAIN saved THEN saved[r] ELSE "none"
  <2>2. meta'[r] = IF meta[r].status # "running" THEN meta[r]
                   ELSE [meta[r] EXCEPT !.status = "terminal", !.error = error]
    BY <2>1
  <2> HIDE DEF error
  <2>3. meta'[r].session = meta[r].session
    BY <2>2, FieldsTyped DEF Record, RotationInvariant
  <2>4. call[r].pc = "idle" => call[r] = Idle
    BY DEF RotationInvariant, RunsAreRight, RunIsRight, CallIsRight
  <2>5. call'[r] = IF call[r].pc = "idle" THEN Idle ELSE [Idle EXCEPT !.pc = "over"]
    BY <2>4 DEF Crash
  <2> QED
    BY <2>3, <2>5 DEF Idle, Done
<1>2. SessionsAreOpened'
  BY <1>1 DEF Lookups, SessionsAreOpened
<1>3. \A r \in Run : ParentHasEnded(r)' /\ TargetIsFree(r)'
  BY <1>1 DEF ParentHasEnded, TargetIsFree, FoundNoTarget
<1> QED
  BY <1>2, <1>3 DEF Lookups

\* The CLI removes files.
LEMMA DeleteLookups ==
  ASSUME RotationInvariant, Lookups, DeleteConfigDir
  PROVE  Lookups'
<1>1. /\ UNCHANGED <<meta, overtaken>>
      /\ \A to \in Place, s \in Run : files'[to][s] \in {{}, files[to][s]}
  BY Typed DEF DeleteConfigDir, RotationInvariant
<1>2. ASSUME NEW r \in Run PROVE Unmoved(r)
  <2>1. \/ call'[r] = call[r]
        \/ call[r].pc = "renaming" /\ call'[r] = [call[r] EXCEPT !.seen = {}]
    BY DEF DeleteConfigDir
  <2> QED
    BY <2>1, FieldsTyped DEF Unmoved, Call, RotationInvariant
<1>3. SessionsAreOpened' /\ \A r \in Run : ParentHasEnded(r)'
  BY <1>1, <1>2 DEF Unmoved, Lookups, SessionsAreOpened, ParentHasEnded
<1>4. ASSUME NEW r \in Run, NEW to \in Place, NEW s \in Run, FoundNoTarget(r, to, s)'
      PROVE  FoundNoTarget(r, to, s)
  BY <1>1, <1>2, <1>4, StillFound
<1>5. ASSUME NEW r \in Run PROVE TargetIsFree(r)'
  <2> SUFFICES ASSUME NEW to \in Place, NEW s \in Run, FoundNoTarget(r, to, s)',
                      <<to, s>> \notin overtaken'
               PROVE  files'[to][s] = {}
    BY DEF TargetIsFree
  <2>1. files[to][s] = {}
    BY <1>1, <1>4 DEF Lookups, TargetIsFree
  <2> QED
    BY <1>1, <2>1
<1> QED
  BY <1>3, <1>5 DEF Lookups

LEMMA LookupsNext ==
  ASSUME RotationInvariant, Lookups, [RotationNext]_rotationVars
  PROVE  Lookups'
<1>1. CASE UNCHANGED <<meta, call, files, overtaken>>
  BY <1>1 DEF Lookups, ParentHasEnded, SessionsAreOpened, TargetIsFree, FoundNoTarget, Conversation
<1>2. CASE \E r \in Run : OneMoves(r)
  BY <1>2, LookupsOfOne
<1>3. CASE StartRun \/ \E f, p \in Run : PlainFollowUp(f, p) \/ RotatingFollowUp(f, p)
  BY <1>2, <1>3, StartMovesOne, FollowUpMovesOne
<1>4. ASSUME NEW r \in Run, CallStep(r)
      PROVE  Lookups'
  BY <1>2, <1>4, PickMovesOne, RecordMovesOne, SpawnMovesOne, CopyLookups DEF CallStep, CopyStep
<1>5. ASSUME NEW r \in Run, WorkerStep(r)
      PROVE  Lookups'
  BY <1>2, <1>5, EndMovesOne, OpenLookups DEF WorkerStep
<1>6. CASE RegistryStep
  BY <1>1, <1>2, <1>6, MarkMovesOne
<1>7. CASE \/ \E a \in Touched : Login(a) \/ SetKey(a) \/ RemoveAccount(a)
           \/ CliWrite
  BY <1>1, <1>7 DEF Login, SetKey, RemoveAccount, CliRead, CliWrite, disk, memory
<1>8. CASE Tick \/ UNCHANGED rotationVars
  BY <1>1, <1>8 DEF Tick, rotationVars, disk, memory
<1> QED
  BY <1>3, <1>4, <1>5, <1>6, <1>7, <1>8, CrashLookups, DeleteLookups DEF RotationNext

LEMMA LookupsHold == RotationSpec => []Lookups
<1>1. RotationInvariant /\ Lookups /\ [RotationNext]_rotationVars => Lookups'
  BY LookupsNext
<1> QED
  BY LookupsInit, InvariantHolds, <1>1, PTL DEF RotationSpec

(* No step of another run overwrites a conversation, but where copies of one *)
(* session overlap, and no cooldown is shortened but by the CLI: who does    *)
(* not overlap renames onto nothing, though it looked two steps earlier and  *)
(* holds no lock against runs that work, begin or are copied elsewhere, and  *)
(* marks that overlap do not undo one another (copySessionJsonlForRotation,  *)
(* sessionCopy.ts 168-234; markAccountCooledDown, accountRegistry.ts         *)
(* 409-428).                                                                 *)
THEOREM StoredFactsStay == RotationSpec => StoredFactsAreKept
<1> DEFINE Kept == \A p \in Place, s \in Run :
                     \/ files[p][s] \in {{}, files'[p][s]}
                     \/ cli # cli'
                     \/ \E r \in Run : call[r].pc = "renaming" /\ call[r].account = p
                                      /\ <<p, s>> \in overtaken
                     \/ \E r \in Run : call[r].pc = "working" /\ call[r].place = p
                                      /\ files'[p][s] = files[p][s] \cup {r}
<1>1. ASSUME RotationInvariant, Lookups, RotationNext PROVE Kept
  <2> SUFFICES ASSUME NEW p \in Place, NEW s \in Run, NEW r \in Run,
                      FoundNoTarget(r, p, s), call[r].pc = "renaming", <<p, s>> \notin overtaken
               PROVE  files[p][s] = {}
    BY <1>1, NextKeeps DEF Harmless, FoundNoTarget
  <2> QED
    BY <1>1 DEF Lookups, TargetIsFree
<1>2. RotationInvariant /\ Lookups /\ [RotationNext]_rotationVars => [Kept]_rotationVars
  BY <1>1
<1>3. RotationInvariant /\ [RotationNext]_rotationVars =>
        [\A a \in Account : registry'[a].until < registry[a].until => cli # cli']_rotationVars
  BY NextKeeps DEF Harmless
<1>4. RotationSpec => ConversationsAreKept
  BY <1>2, InvariantHolds, LookupsHold, PTL DEF RotationSpec, ConversationsAreKept
<1>5. RotationSpec => CooldownsAreKept
  BY <1>3, InvariantHolds, PTL DEF RotationSpec, CooldownsAreKept
<1> QED
  BY <1>4, <1>5 DEF StoredFactsAreKept
-----------------------------------------------------------------------------
(* Resumed conversations.  As long as nobody works with the CLI, a session  *)
(* file that is there stays.  Of a session whose copies did not overlap it  *)
(* only grows, every turn is in the file of its own run's account, a copy   *)
(* has what there is of its parent, and so has the file in which a call is  *)
(* to resume.                                                               *)

CliStaysOut ==
  /\ cli = NoCli
  /\ \A a \in Account : ~registry[a].api
  /\ \A i \in DOMAIN writers : writers[i].seen # NoSnapshot =>
       \A a \in Account : ~writers[i].seen[a].api

Underway == {"creating", "recording", "spawning", "working"}

AtHome(r) ==
  /\ call[r].pc \in {"cooling"} \cup Copies \cup Underway => call[r].place = call[r].account
  /\ call[r].pc \in {"recording", "spawning", "working"} => meta[r].account = call[r].account

\* No copy of session s overtook another.
Sound(s) == \A q \in Place : <<q, s>> \notin overtaken

\* The file of session s at a place has what there is of run p in that session.
HasTurns(place, s, p) ==
  /\ files[place][s] # {}
  /\ Sound(s) => \A q \in Place : p \in files[q][s] => p \in files[place][s]

Resumes(r) ==
  /\ call[r].pc \in {"idle", "queued", "cooling"} \cup Copies => call[r].session = None
  /\ call[r].pc \in Underway /\ call[r].session # None =>
       call[r].parent # None /\ HasTurns(call[r].place, call[r].session, call[r].parent)

\* What a copy of session s to a place has read: the target that it found, or the
\* source, with what there is of the parent p.
HasFound(seen, to, s) ==
  seen # {} => files[to][s] # {} /\ (Sound(s) => seen \subseteq files[to][s])
HasRead(seen, s, p) ==
  /\ seen # {}
  /\ Sound(s) => /\ \A x \in seen : \E q \in Place : x \in files[q][s]
                 /\ \A q \in Place : p \in files[q][s] => p \in seen

CopyIsGood(r) ==
  /\ call[r].pc = "reading" => HasFound(call[r].seen, call[r].account, Conversation(r))
  /\ call[r].pc = "renaming" => HasRead(call[r].seen, Conversation(r), call[r].parent)

OwnTurns ==
  \A r, s \in Run, q \in Place : Sound(s) /\ r \in files[q][s] =>
    meta[r].account # None /\ r \in files[meta[r].account][s]

SessionExists(r) ==
  meta[r].session # None =>
    meta[r].account # None /\ files[meta[r].account][meta[r].session] # {}

CallResumes(r) ==
  AtHome(r) /\ ParentHasEnded(r) /\ Resumes(r) /\ SessionExists(r) /\ CopyIsGood(r)

Conversations ==
  clis = 0 => CliStaysOut /\ OwnTurns /\ \A r \in Run : CallResumes(r)

LEMMA ConversationsInit == RotationInit => Conversations
BY DEF RotationInit, Conversations, CliStaysOut, OwnTurns, CallResumes, AtHome, ParentHasEnded,
   Resumes, SessionExists, CopyIsGood, Underway, Absent, Idle

\* A step of one run that touches no session file.
LEMMA ConversationsOfOne ==
  ASSUME RotationInvariant, Conversations, clis = 0, UNCHANGED <<files, overtaken, clis>>,
         CliStaysOut', NEW r \in Run,
         \A x \in Run \ {r} : call'[x] = call[x] /\ meta'[x] = meta[x],
         meta[r].status = "terminal" => meta'[r].status = "terminal",
         \/ meta'[r].account = meta[r].account /\ meta'[r].session = meta[r].session
         \/ meta[r] = Absent /\ SessionExists(r)',
         AtHome(r)', ParentHasEnded(r)', Resumes(r)',
         CopyIsGood(r)' \/ call'[r].pc \notin {"reading", "renaming"}
  PROVE  Conversations'
<1>1. OwnTurns /\ \A x \in Run : CallResumes(x)
  BY DEF Conversations
<1>2. OwnTurns'
  BY <1>1 DEF OwnTurns, Sound, Absent
<1>3. SessionExists(r)'
  BY <1>1 DEF CallResumes, SessionExists
<1>4. ASSUME NEW x \in Run \ {r} PROVE CallResumes(x)'
  <2>1. call'[x] = call[x] /\ meta'[x] = meta[x] /\ CallResumes(x)
    BY <1>1
  <2>2. AtHome(x)' /\ SessionExists(x)'
    BY <2>1 DEF CallResumes, AtHome, SessionExists
  <2>3. Resumes(x)'
    BY <2>1 DEF CallResumes, Resumes, HasTurns, Sound
  <2>4. call[x].parent \in Run \cup {None}
    BY FieldsTyped DEF RotationInvariant, Session
  <2>5. ParentHasEnded(x)'
    BY <2>1, <2>4 DEF CallResumes, ParentHasEnded
  <2>6. CopyIsGood(x)'
    <3> SUFFICES ASSUME call[x].pc \in {"reading", "renaming"}
                 PROVE  CopyIsGood(x)'
      BY <2>1 DEF CopyIsGood
    <3>1. call[x].parent \in Run /\ meta[call[x].parent].status = "terminal"
      BY <2>1, CopyingCall DEF CallResumes, ParentHasEnded
    <3>2. Conversation(x)' = Conversation(x)
      BY <2>1, <3>1 DEF Conversation, Absent
    <3> QED
      BY <2>1, <3>2 DEF CallResumes, CopyIsGood, HasFound, HasRead, Sound
  <2> QED
    BY <2>2, <2>3, <2>5, <2>6 DEF CallResumes
<1>5. CallResumes(r)'
  BY <1>3 DEF CallResumes, CopyIsGood
<1> QED
  BY <1>2, <1>4, <1>5 DEF Conversations

\* The CLI stays out of a step that leaves the registry alone.
LEMMA CliStillOut ==
  ASSUME RotationInvariant, Conversations, clis = 0, UNCHANGED <<cli, registry>>,
         \/ writers' = writers
         \/ \E x \in Run, a \in Account :
              writers' = Append(writers, [by |-> x, seen |-> NoSnapshot, account |-> a])
  PROVE  CliStaysOut'
<1>1. CliStaysOut
  BY DEF Conversations
<1>2. CASE writers' = writers
  BY <1>1, <1>2 DEF CliStaysOut
<1>3. ASSUME NEW x \in Run, NEW a \in Account,
             writers' = Append(writers, [by |-> x, seen |-> NoSnapshot, account |-> a])
      PROVE  CliStaysOut'
  <2> DEFINE w == [by |-> x, seen |-> NoSnapshot, account |-> a]
  <2>1. writers \in Seq(Writer) /\ w.seen = NoSnapshot /\ w \in Writer
    BY Typed DEF RotationInvariant, Writer
  <2> HIDE DEF w
  <2>2. writers' = Append(writers, w)
    BY <1>3 DEF w
  <2>3. ASSUME NEW i \in DOMAIN writers'
        PROVE  writers'[i].seen = NoSnapshot \/ (i \in DOMAIN writers /\ writers'[i] = writers[i])
    <3>1. DOMAIN writers' = 1..(Len(writers) + 1) /\ DOMAIN writers = 1..Len(writers)
          /\ Len(writers) \in Nat
      BY <2>1, <2>2
    <3>2. \A k \in 1..Len(writers) : writers'[k] = writers[k]
      BY <2>1, <2>2
    <3>3. writers'[Len(writers) + 1] = w
      BY <2>1, <2>2
    <3>4. CASE i = Len(writers) + 1
      <4>1. writers'[i] = w
        BY <3>3, <3>4
      <4> QED
        BY <2>1, <4>1
    <3>5. CASE i \in 1..Len(writers)
      BY <3>1, <3>2, <3>5
    <3>6. i = Len(writers) + 1 \/ i \in 1..Len(writers)
      BY <3>1
    <3> QED
      BY <3>4, <3>5, <3>6
  <2> QED
    BY <1>1, <2>3 DEF CliStaysOut
<1> QED
  BY <1>2, <1>3

LEMMA HomeOfAccount ==
  ASSUME Conversations, clis = 0, NEW a \in Account
  PROVE  SpawnPlace(a) = a /\ a \in Place
BY DEF Conversations, CliStaysOut, SpawnPlace, Place

LEMMA FollowUpResumes ==
  ASSUME RotationInvariant, Conversations, clis = 0,
         StartRun \/ \E f, p \in Run : PlainFollowUp(f, p) \/ RotatingFollowUp(f, p)
  PROVE  Conversations'
<1>1. CliStaysOut'
  BY CliStillOut DEF StartRun, PlainFollowUp, RotatingFollowUp, disk
<1>2. \A r \in Run : call[r].pc = "idle" => call[r] = Idle /\ meta[r] = Absent
  BY DEF RotationInvariant, RunsAreRight, RunIsRight, CallIsRight, Before
<1>3. call \in [Run -> Call]
  BY Typed DEF RotationInvariant
<1>4. CASE StartRun
  <2>1. PICK a \in Account :
          call' = [call EXCEPT ![Root] = [call[Root] EXCEPT !.pc = "creating", !.account = a,
                                                           !.place = SpawnPlace(a)]]
    BY <1>3, <1>4, PickIsHealthy DEF StartRun
  <2>2. call[Root] = Idle /\ Root \in Run /\ SpawnPlace(a) = a
    BY <1>2, <1>4, HomeOfAccount DEF StartRun
  <2>3. /\ call'[Root].pc = "creating" /\ call'[Root].place = call'[Root].account
        /\ call'[Root].parent = None /\ call'[Root].session = None
        /\ \A x \in Run \ {Root} : call'[x] = call[x]
    BY <1>3, <2>1, <2>2 DEF Idle
  <2>4. AtHome(Root)' /\ ParentHasEnded(Root)' /\ Resumes(Root)'
    BY <2>3 DEF AtHome, ParentHasEnded, Resumes
  <2>5. UNCHANGED <<meta, files, overtaken, clis>>
    BY <1>4 DEF StartRun, disk, bounds
  <2> QED
    BY <1>1, <2>2, <2>3, <2>4, <2>5, ConversationsOfOne
<1>5. ASSUME NEW f \in Run, NEW p \in Run, PlainFollowUp(f, p)
      PROVE  Conversations'
  <2> DEFINE a == meta[p].account
  <2>1. call[f] = Idle /\ UNCHANGED <<meta, files, overtaken, clis>> /\ meta[p].status = "terminal"
        /\ meta[p].session # None
    BY <1>2, <1>5 DEF PlainFollowUp, disk, bounds
  <2>2. SessionExists(p) /\ OwnTurns
    BY DEF Conversations, CallResumes
  <2>3. a \in Account /\ files[a][meta[p].session] # {}
    BY <2>1, <2>2, FieldsTyped DEF SessionExists, RotationInvariant
  <2>4. meta[p].session \in Run
    BY <2>1, FieldsTyped DEF RotationInvariant, Session
  <2>5. HasTurns(a, meta[p].session, p)
    BY <2>2, <2>3, <2>4 DEF HasTurns, OwnTurns
  <2>6. call' = [call EXCEPT ![f] = [call[f] EXCEPT !.pc = "creating", !.parent = p,
                   !.account = a, !.place = SpawnPlace(a), !.session = meta[p].session]]
    BY <1>3, <1>5 DEF PlainFollowUp
  <2>7. SpawnPlace(a) = a
    BY <2>3, HomeOfAccount
  <2> HIDE DEF a
  <2>8. /\ call'[f].pc = "creating" /\ call'[f].place = a /\ call'[f].account = a
        /\ call'[f].parent = p /\ call'[f].session = meta[p].session
        /\ \A x \in Run \ {f} : call'[x] = call[x]
    BY <1>3, <2>1, <2>6, <2>7 DEF Idle
  <2>9. AtHome(f)' /\ ParentHasEnded(f)'
    BY <2>1, <2>8 DEF AtHome, ParentHasEnded
  <2>10. Resumes(f)'
    BY <2>1, <2>5, <2>8 DEF Resumes, HasTurns, Sound
  <2> QED
    BY <1>1, <2>1, <2>8, <2>9, <2>10, ConversationsOfOne
<1>6. ASSUME NEW f \in Run, NEW p \in Run, RotatingFollowUp(f, p)
      PROVE  Conversations'
  <2>1. call[f] = Idle /\ UNCHANGED <<meta, files, overtaken, clis>> /\ meta[p].status = "terminal"
    BY <1>2, <1>6 DEF RotatingFollowUp, disk, bounds
  <2>2. call' = [call EXCEPT ![f] = [call[f] EXCEPT !.pc = "queued", !.parent = p,
                                                    !.rotates = TRUE]]
    BY <1>3, <1>6 DEF RotatingFollowUp
  <2>3. /\ call'[f].pc = "queued" /\ call'[f].parent = p /\ call'[f].session = None
        /\ \A x \in Run \ {f} : call'[x] = call[x]
    BY <1>3, <2>1, <2>2 DEF Idle
  <2>4. AtHome(f)' /\ ParentHasEnded(f)' /\ Resumes(f)'
    BY <2>1, <2>3 DEF AtHome, ParentHasEnded, Resumes, Underway
  <2> QED
    BY <1>1, <2>1, <2>3, <2>4, ConversationsOfOne
<1> QED
  BY <1>4, <1>5, <1>6

\* A call that goes a step on as it is, or gives up.
LEMMA GotoResumes ==
  ASSUME RotationInvariant, Conversations, clis = 0, NEW r \in Run,
         NEW step \in {"recording", "spawning", "working", "settled", "over"}, Goto(r, step),
         step = "over" \/ call[r].pc \in Underway,
         step \in {"recording", "spawning", "working"} => meta'[r].account = call[r].account,
         \A x \in Run \ {r} : meta'[x] = meta[x],
         meta[r].status = "terminal" => meta'[r].status = "terminal",
         \/ meta'[r].account = meta[r].account /\ meta'[r].session = meta[r].session
         \/ meta[r] = Absent /\ SessionExists(r)',
         UNCHANGED <<files, overtaken, clis>>, CliStaysOut'
  PROVE  Conversations'
<1>1. call \in [Run -> Call] /\ call[r].parent \in Session
  BY Typed, FieldsTyped DEF RotationInvariant
<1>2. call' = [call EXCEPT ![r] = [call[r] EXCEPT !.pc = step]]
  BY <1>1 DEF Goto
<1>3. /\ call'[r].pc = step /\ call'[r].parent = call[r].parent
      /\ call'[r].session = call[r].session /\ call'[r].place = call[r].place
      /\ call'[r].account = call[r].account /\ \A x \in Run \ {r} : call'[x] = call[x]
  BY <1>1, <1>2 DEF Call
<1>4. AtHome(r) /\ ParentHasEnded(r) /\ Resumes(r)
  BY DEF Conversations, CallResumes
<1>5. AtHome(r)'
  BY <1>3, <1>4 DEF AtHome, Underway
<1>6. ParentHasEnded(r)'
  BY <1>1, <1>3, <1>4 DEF ParentHasEnded, Session
<1>7. Resumes(r)'
  BY <1>3, <1>4 DEF Resumes, Underway, HasTurns, Sound
<1> QED
  BY <1>3, <1>5, <1>6, <1>7, ConversationsOfOne

LEMMA PickResumes ==
  ASSUME RotationInvariant, Conversations, clis = 0, NEW f \in Run, PickAccount(f)
  PROVE  Conversations'
<1>1. UNCHANGED <<meta, registry, files, overtaken, cli, clis>> /\ call[f].pc = "queued" /\ call[f].rotates
      /\ call \in [Run -> Call]
  BY Typed DEF PickAccount, disk, RotationInvariant, RunsAreRight, RunIsRight, CallIsRight
<1>2. call[f].parent \in Run
  BY <1>1, FieldsTyped DEF RotationInvariant, RunsAreRight, RunIsRight, CallIsRight, Session
<1> DEFINE p == call[f].parent
           a == PickHealthyAccount(Passed(p))
<1>3. CASE a = None
  <2>1. Goto(f, "over") /\ UNCHANGED writers
    BY <1>3 DEF PickAccount, Fails
  <2>2. CliStaysOut'
    BY <1>1, <2>1, CliStillOut
  <2> QED
    BY <1>1, <2>1, <2>2, GotoResumes
<1>4. CASE a # None
  <2>1. a \in Account
    BY <1>4, PickIsHealthy
  <2>2. SpawnPlace(a) = a
    BY <2>1, HomeOfAccount
  <2>3. /\ call' = [call EXCEPT ![f] = [call[f] EXCEPT !.pc = "cooling", !.account = a,
                                                      !.place = SpawnPlace(a)]]
        /\ writers' = Append(writers, [by |-> f, seen |-> NoSnapshot, account |-> meta[p].account])
    BY <1>1, <1>4 DEF PickAccount
  <2> HIDE DEF a
  <2>4. /\ call'[f].pc = "cooling" /\ call'[f].place = call'[f].account
        /\ call'[f].parent = call[f].parent /\ call'[f].session = call[f].session
        /\ \A x \in Run \ {f} : call'[x] = call[x]
    BY <1>1, <2>2, <2>3 DEF Call
  <2>5. meta[p].account \in Account
    <3>1. meta[p].account # None
      BY <1>1, <1>2 DEF RotationInvariant, RunsAreRight, RunIsRight, CallIsRight, RecordIsRight
    <3> QED
      BY <1>2, <3>1, FieldsTyped DEF RotationInvariant
  <2>6. CliStaysOut'
    BY <1>1, <2>3, <2>5, CliStillOut
  <2>7. AtHome(f)' /\ ParentHasEnded(f)' /\ Resumes(f)'
    <3>1. ParentHasEnded(f) /\ Resumes(f)
      BY DEF Conversations, CallResumes
    <3> QED
      BY <1>1, <2>4, <3>1 DEF AtHome, ParentHasEnded, Resumes, Underway
  <2> QED
    BY <1>1, <2>4, <2>6, <2>7, ConversationsOfOne
<1> QED
  BY <1>3, <1>4

LEMMA MarkResumes ==
  ASSUME RotationInvariant, Conversations, clis = 0, RegistryStep
  PROVE  Conversations'
<1>1. CliStaysOut /\ UNCHANGED <<meta, files, overtaken, cli, clis>> /\ call \in [Run -> Call]
  BY Typed DEF Conversations, RegistryStep, MarkRead, MarkWrite, disk, bounds, RotationInvariant
<1>2. ASSUME NEW i \in DOMAIN writers, MarkRead(i)
      PROVE  Conversations'
  <2>1. writers[i] \in Writer /\ writers \in Seq(Writer)
    BY WriterFields DEF RotationInvariant
  <2>2. writers' = [writers EXCEPT ![i] = [writers[i] EXCEPT !.seen = registry]]
    BY <1>2, <2>1 DEF MarkRead
  <2>3. /\ DOMAIN writers' = DOMAIN writers /\ writers'[i].seen = registry
        /\ \A j \in DOMAIN writers \ {i} : writers'[j] = writers[j]
    BY <1>2, <2>1, <2>2 DEF Writer
  <2>4. UNCHANGED <<call, registry>>
    BY <1>2 DEF MarkRead, disk
  <2>5. CliStaysOut'
    BY <1>1, <2>3, <2>4 DEF CliStaysOut
  <2>6. PICK r \in Run : TRUE
    BY DEF RotationAssumption
  <2>7. AtHome(r)' /\ ParentHasEnded(r)' /\ Resumes(r)' /\ CopyIsGood(r)'
    BY <1>1, <2>4 DEF Conversations, CallResumes, AtHome, ParentHasEnded, Resumes, HasTurns,
       CopyIsGood, HasFound, HasRead, Sound, Conversation
  <2> QED
    BY <1>1, <2>4, <2>5, <2>7, ConversationsOfOne
<1>3. ASSUME NEW i \in DOMAIN writers, MarkWrite(i)
      PROVE  Conversations'
  <2> DEFINE w == writers[i]
  <2>1. /\ w \in Writer /\ writers \in Seq(Writer) /\ i \in 1..Len(writers)
        /\ w.by \in Run /\ w.account \in Account /\ w.seen # NoSnapshot
        /\ w.seen \in [Account -> AccountEntry]
    BY <1>3, WriterFields DEF MarkWrite, RotationInvariant
  <2>2. \A a \in Account : ~registry[a].api /\ ~w.seen[a].api
    BY <1>1, <1>3, <2>1 DEF CliStaysOut
  <2>3. PICK r \in Run : r = w.by
    BY <2>1
  <2>4. \/ registry' = registry
        \/ registry' = [w.seen EXCEPT ![w.account] = [w.seen[w.account] EXCEPT !.until = now + Cooldown]]
    <3>1. \/ registry' = IF w.seen[w.account].listed
                         THEN [w.seen EXCEPT ![w.account].until = now + Cooldown] ELSE registry
          \/ registry' = registry
      BY <1>3 DEF MarkWrite
    <3> HIDE DEF w
    <3> QED
      BY <2>1, <3>1
  <2>5. \/ call' = call
        \/ call[r].pc = "cooling" /\ call' = [call EXCEPT ![r] = [call[r] EXCEPT !.pc = "copying"]]
    <3>1. call' = IF call[r].pc = "cooling" THEN [call EXCEPT ![r].pc = "copying"] ELSE call
      BY <1>3, <2>3 DEF MarkWrite
    <3> QED
      BY <1>1, <3>1
  <2>6. writers' = WithoutWriter(i)
    BY <1>3 DEF MarkWrite
  <2>7. [w.seen[w.account] EXCEPT !.until = now + Cooldown].api = w.seen[w.account].api
    BY <2>1 DEF AccountEntry
  <2> HIDE DEF w
  <2>8. \A a \in Account : ~registry'[a].api
    BY <2>1, <2>2, <2>4, <2>7
  <2>9. ASSUME NEW j \in DOMAIN writers'
        PROVE  \E k \in DOMAIN writers : writers'[j] = writers[k]
    <3>1. Len(writers) \in Nat /\ j \in 1..(Len(writers) - 1)
          /\ writers'[j] = IF j < i THEN writers[j] ELSE writers[j + 1]
      BY <2>1, <2>6, <2>9 DEF WithoutWriter
    <3>2. j \in DOMAIN writers /\ j + 1 \in DOMAIN writers
      BY <2>1, <3>1
    <3> QED
      BY <3>1, <3>2
  <2>10. CliStaysOut'
    BY <1>1, <2>8, <2>9 DEF CliStaysOut
  <2>11. /\ call'[r].parent = call[r].parent /\ call'[r].session = call[r].session
         /\ call'[r].place = call[r].place /\ call'[r].account = call[r].account
         /\ call'[r].pc = call[r].pc \/ (call[r].pc = "cooling" /\ call'[r].pc = "copying")
         /\ \A x \in Run \ {r} : call'[x] = call[x]
    BY <1>1, <2>5 DEF Call
  <2>12. AtHome(r) /\ ParentHasEnded(r) /\ Resumes(r) /\ CopyIsGood(r)
    BY DEF Conversations, CallResumes
  <2>13. AtHome(r)'
    BY <1>1, <2>11, <2>12 DEF AtHome, Underway
  <2>14. ParentHasEnded(r)'
    BY <1>1, <2>11, <2>12 DEF ParentHasEnded
  <2>15. Resumes(r)'
    BY <1>1, <2>11, <2>12 DEF Resumes, HasTurns, Sound, Underway
  <2>16. CopyIsGood(r)' \/ call'[r].pc \notin {"reading", "renaming"}
    BY <1>1, <2>5, <2>11, <2>12 DEF CopyIsGood, HasFound, HasRead, Sound, Conversation
  <2> QED
    BY <1>1, <2>10, <2>11, <2>13, <2>14, <2>15, <2>16, ConversationsOfOne
<1> QED
  BY <1>2, <1>3 DEF RegistryStep

\* The steps of a call from its record to its worker, and of the worker, that
\* touch no session file.
LEMMA CreateResumes ==
  ASSUME RotationInvariant, Conversations, clis = 0, NEW r \in Run, CreateRun(r)
  PROVE  Conversations'
<1>1. /\ call[r].pc = "creating" /\ UNCHANGED <<registry, files, overtaken, cli, clis, writers>>
      /\ meta[r] = Absent /\ call[r].account # None /\ meta \in [Run -> Record]
  BY Typed DEF CreateRun, RotationInvariant, RunsAreRight, RunIsRight, CallIsRight, Before,
     Locking, Choosing
<1>2. CliStaysOut'
  BY <1>1, CliStillOut
<1>3. CASE meta' = [meta EXCEPT ![r] = NewRecord(call[r])] /\ Goto(r, "recording")
  <2> DEFINE c == call[r]
  <2>1. /\ NewRecord(c).account = c.account
        /\ NewRecord(c).session = IF c.rotates THEN None ELSE c.session
    BY DEF NewRecord, Absent
  <2>2. meta'[r] = NewRecord(c) /\ \A x \in Run \ {r} : meta'[x] = meta[x]
    BY <1>1, <1>3
  <2>3. AtHome(r) /\ Resumes(r)
    BY DEF Conversations, CallResumes
  <2>4. c.session # None => files[c.account][c.session] # {}
    BY <1>1, <2>3 DEF AtHome, Resumes, Underway, HasTurns
  <2>5. SessionExists(r)'
    BY <1>1, <2>1, <2>2, <2>4 DEF SessionExists
  <2>6. meta[r].status # "terminal"
    BY <1>1 DEF Absent
  <2>7. meta'[r].account = call[r].account
    BY <2>1, <2>2
  <2> QED
    BY <1>1, <1>2, <1>3, <2>2, <2>5, <2>6, <2>7, GotoResumes DEF Underway
<1>4. CASE Fails(r) /\ UNCHANGED meta
  BY <1>1, <1>2, <1>4, GotoResumes DEF Fails
<1> QED
  BY <1>3, <1>4 DEF CreateRun

LEMMA RecordResumes ==
  ASSUME RotationInvariant, Conversations, clis = 0, NEW r \in Run, RecordRun(r)
  PROVE  Conversations'
<1>1. /\ call[r].pc = "recording" /\ UNCHANGED <<registry, files, overtaken, cli, clis, writers>>
      /\ meta \in [Run -> Record]
  BY Typed DEF RecordRun, RotationInvariant
<1>2. CliStaysOut'
  BY <1>1, CliStillOut
<1>3. AtHome(r)
  BY DEF Conversations, CallResumes
<1>4. CASE meta' = [meta EXCEPT ![r].marker = call[r].marker] /\ Goto(r, "spawning")
  <2>1. meta' = [meta EXCEPT ![r] = [meta[r] EXCEPT !.marker = call[r].marker]]
    BY <1>1, <1>4
  <2>2. /\ meta'[r].account = meta[r].account /\ meta'[r].session = meta[r].session
        /\ meta'[r].status = meta[r].status /\ \A x \in Run \ {r} : meta'[x] = meta[x]
    BY <1>1, <2>1 DEF Record
  <2> QED
    BY <1>1, <1>2, <1>3, <1>4, <2>2, GotoResumes DEF AtHome, Underway
<1>5. CASE Fails(r) /\ UNCHANGED meta
  BY <1>1, <1>2, <1>5, GotoResumes DEF Fails
<1> QED
  BY <1>4, <1>5 DEF RecordRun

LEMMA SpawnResumes ==
  ASSUME RotationInvariant, Conversations, clis = 0, NEW r \in Run,
         Spawn(r) \/ SpawnAfresh(r) \/ FailPreSpawn(r)
  PROVE  Conversations'
<1>1. /\ call[r].pc = "spawning" /\ UNCHANGED <<registry, files, overtaken, cli, clis, writers>>
      /\ meta \in [Run -> Record] /\ call \in [Run -> Call] /\ meta[r].status = "running"
  BY Typed DEF Spawn, SpawnAfresh, FailPreSpawn, disk, bounds, RotationInvariant, RunsAreRight,
     RunIsRight, CallIsRight, AtWork
<1>2. CliStaysOut'
  BY <1>1, CliStillOut
<1>3. AtHome(r) /\ ParentHasEnded(r)
  BY DEF Conversations, CallResumes
<1>4. CASE Spawn(r)
  BY <1>1, <1>2, <1>3, <1>4, GotoResumes DEF Spawn, disk, AtHome, Underway
<1>5. CASE SpawnAfresh(r)
  <2>1. /\ call' = [call EXCEPT ![r] = [call[r] EXCEPT !.pc = "working", !.session = None,
                                                      !.marker = "fresh"]]
        /\ meta' = [meta EXCEPT ![r] = [meta[r] EXCEPT !.requested = None, !.marker = "fresh"]]
    BY <1>1, <1>5 DEF SpawnAfresh
  <2>2. /\ call'[r].pc = "working" /\ call'[r].session = None /\ call'[r].place = call[r].place
        /\ call'[r].account = call[r].account /\ call'[r].parent = call[r].parent
        /\ \A x \in Run \ {r} : call'[x] = call[x]
    BY <1>1, <2>1 DEF Call
  <2>3. /\ meta'[r].account = meta[r].account /\ meta'[r].session = meta[r].session
        /\ meta'[r].status = meta[r].status /\ \A x \in Run \ {r} : meta'[x] = meta[x]
    BY <1>1, <2>1 DEF Record
  <2>4. AtHome(r)' /\ ParentHasEnded(r)' /\ Resumes(r)'
    <3>1. call[r].parent # None => call[r].parent \in Run
      BY FieldsTyped DEF RotationInvariant, Session
    <3> QED
      BY <1>1, <1>3, <2>2, <2>3, <3>1 DEF AtHome, ParentHasEnded, Resumes, Underway
  <2> QED
    BY <1>1, <1>2, <2>2, <2>3, <2>4, ConversationsOfOne
<1>6. CASE FailPreSpawn(r)
  <2>1. meta' = [meta EXCEPT ![r] = [meta[r] EXCEPT !.status = "terminal", !.error = "other"]]
    BY <1>1, <1>6 DEF FailPreSpawn
  <2>2. /\ meta'[r].account = meta[r].account /\ meta'[r].session = meta[r].session
        /\ meta'[r].status = "terminal" /\ \A x \in Run \ {r} : meta'[x] = meta[x]
    BY <1>1, <2>1 DEF Record
  <2>3. Goto(r, "over")
    BY <1>6 DEF FailPreSpawn
  <2> QED
    BY <1>1, <1>2, <2>2, <2>3, GotoResumes
<1> QED
  BY <1>4, <1>5, <1>6

\* The worker is started again, afresh, or its run ends.
LEMMA EndResumes ==
  ASSUME RotationInvariant, Conversations, clis = 0, NEW r \in Run,
         RetryAfresh(r) \/ \E ending \in Endings : EndRun(r, ending)
  PROVE  Conversations'
<1>1. /\ UNCHANGED <<registry, files, overtaken, cli, clis>>
      /\ meta \in [Run -> Record] /\ call \in [Run -> Call]
  BY Typed DEF RetryAfresh, EndRun, bounds, RotationInvariant
<1>2. AtHome(r) /\ ParentHasEnded(r)
  BY DEF Conversations, CallResumes
<1>3. call[r].parent # None => call[r].parent \in Run
  BY FieldsTyped DEF RotationInvariant, Session
<1>4. CASE RetryAfresh(r)
  <2>1. CliStaysOut' /\ call[r].pc = "working" /\ meta[r].status = "running"
    BY <1>1, <1>4, CliStillOut DEF RetryAfresh, RotationInvariant, RunsAreRight, RunIsRight,
       CallIsRight, AtWork
  <2>2. /\ call' = [call EXCEPT ![r] = [call[r] EXCEPT !.session = None, !.marker = "fresh"]]
        /\ meta' = [meta EXCEPT ![r] = [meta[r] EXCEPT !.marker = "fresh"]]
    BY <1>1, <1>4 DEF RetryAfresh, OnRetryFired
  <2>3. /\ call'[r].pc = "working" /\ call'[r].session = None /\ call'[r].place = call[r].place
        /\ call'[r].account = call[r].account /\ call'[r].parent = call[r].parent
        /\ \A x \in Run \ {r} : call'[x] = call[x]
    BY <1>1, <2>1, <2>2 DEF Call
  <2>4. /\ meta'[r].account = meta[r].account /\ meta'[r].session = meta[r].session
        /\ meta'[r].status = meta[r].status /\ \A x \in Run \ {r} : meta'[x] = meta[x]
    BY <1>1, <2>2 DEF Record
  <2>5. AtHome(r)' /\ ParentHasEnded(r)' /\ Resumes(r)'
    BY <1>2, <1>3, <2>1, <2>3, <2>4 DEF AtHome, ParentHasEnded, Resumes, Underway
  <2> QED
    BY <1>1, <2>1, <2>3, <2>4, <2>5, ConversationsOfOne
<1>5. ASSUME NEW ending \in Endings, EndRun(r, ending)
      PROVE  Conversations'
  <2>1. Goto(r, "over") /\ call[r].pc \in AtWork
    BY <1>5 DEF EndRun, AtWork
  <2>2. meta[r].account \in Account
    <3>1. meta[r].account # None
      BY <2>1 DEF RotationInvariant, RunsAreRight, RunIsRight, CallIsRight, RecordIsRight
    <3> QED
      BY <3>1, FieldsTyped DEF RotationInvariant
  <2>3. CliStaysOut'
    <3>1. writers' = writers
          \/ writers' = Append(writers, [by |-> r, seen |-> NoSnapshot, account |-> meta[r].account])
      BY <1>5 DEF EndRun
    <3> QED
      BY <1>1, <2>2, <3>1, CliStillOut
  <2>4. meta' = [meta EXCEPT ![r] = [meta[r] EXCEPT !.status = "terminal", !.error = ending.error]]
    BY <1>1, <1>5 DEF EndRun
  <2>5. /\ meta'[r].account = meta[r].account /\ meta'[r].session = meta[r].session
        /\ meta'[r].status = "terminal" /\ \A x \in Run \ {r} : meta'[x] = meta[x]
    BY <1>1, <2>4 DEF Record
  <2> QED
    BY <1>1, <2>1, <2>3, <2>5, GotoResumes
<1> QED
  BY <1>4, <1>5

\* Files that stay, and of sound sessions only grow and hold no turn of a run's
\* parent but those that there were, serve the run as before.
LEMMA OthersResume ==
  ASSUME RotationInvariant, Conversations, clis = 0, NEW x \in Run,
         call'[x] = call[x], meta'[x] = meta[x],
         \A q \in Place, t \in Run : files[q][t] # {} => files'[q][t] # {},
         \A t \in Run : Sound(t)' =>
           /\ Sound(t)
           /\ \A q \in Place : files[q][t] \subseteq files'[q][t]
           /\ \A q \in Place :
                call[x].parent \in files'[q][t] => \E o \in Place : call[x].parent \in files[o][t],
         call[x].parent # None => meta'[call[x].parent] = meta[call[x].parent]
  PROVE  CallResumes(x)'
<1>1. CallResumes(x)
  BY DEF Conversations
<1>2. AtHome(x)' /\ ParentHasEnded(x)'
  BY <1>1 DEF CallResumes, AtHome, ParentHasEnded
<1>3. meta[x].account \in Account \cup {None} /\ meta[x].session \in Session
      /\ call[x].place \in Place /\ call[x].session \in Session /\ call[x].parent \in Session
  BY FieldsTyped DEF RotationInvariant
<1>4. SessionExists(x)'
  BY <1>1, <1>3 DEF CallResumes, SessionExists, Session, Place
<1>5. Resumes(x)'
  <2>1. CASE call[x].pc \in Underway /\ call[x].session # None
    <3>1. PICK place \in Place, t \in Run, parent \in Session :
            place = call[x].place /\ t = call[x].session /\ parent = call[x].parent
      BY <1>3, <2>1 DEF Session
    <3>2. parent # None /\ HasTurns(place, t, parent)
      BY <1>1, <2>1, <3>1 DEF CallResumes, Resumes
    <3>3. HasTurns(place, t, parent)'
      BY <3>1, <3>2 DEF HasTurns
    <3> QED
      BY <2>1, <3>1, <3>2, <3>3 DEF Resumes, HasTurns, Sound, Underway
  <2>2. CASE ~(call[x].pc \in Underway /\ call[x].session # None)
    BY <1>1, <2>2 DEF CallResumes, Resumes
  <2> QED
    BY <2>1, <2>2
<1>6. CopyIsGood(x)'
  <2> SUFFICES ASSUME call[x].pc \in {"reading", "renaming"}
               PROVE  CopyIsGood(x)'
    BY DEF CopyIsGood
  <2>1. PICK to \in Place, t \in Run, parent \in Run, seen \in SUBSET Run :
          to = call[x].account /\ t = Conversation(x) /\ parent = call[x].parent /\ seen = call[x].seen
    BY CopyingCall, FieldsTyped DEF RotationInvariant, Call
  <2>2. Conversation(x)' = t
    BY <2>1 DEF Conversation
  <2>3. HasFound(seen, to, t) => HasFound(seen, to, t)'
    BY <2>1 DEF HasFound
  <2>4. HasRead(seen, t, parent) => HasRead(seen, t, parent)'
    BY <2>1 DEF HasRead
  <2> QED
    BY <1>1, <2>1, <2>2, <2>3, <2>4 DEF CallResumes, CopyIsGood, HasFound, HasRead, Sound
<1> QED
  BY <1>2, <1>4, <1>5, <1>6 DEF CallResumes

\* What a copy needs to be good, and who it is about.
LEMMA CopyCast ==
  ASSUME RotationInvariant, Conversations, clis = 0, NEW f \in Run, CopyStep(f)
  PROVE  \E p \in Run, from \in Account, to \in Account :
           /\ p = call[f].parent /\ from = meta[p].account /\ to = call[f].account
           /\ from \in Place /\ to \in Place /\ call[f].place = to
           /\ meta[p].status = "terminal" /\ call[f].session = None /\ call[f].pc \in Copies
<1>1. /\ call[f].parent \in Run /\ Source(f) \in Account /\ call[f].account \in Account
      /\ Source(f) \in Place /\ call[f].account \in Place /\ call[f].pc \in Copies
  BY CopyFrames, CopyingCall
<1>2. AtHome(f) /\ ParentHasEnded(f) /\ Resumes(f)
  BY DEF Conversations, CallResumes
<1>3. call[f].place = call[f].account /\ call[f].session = None
  BY <1>1, <1>2 DEF AtHome, Resumes
<1>4. meta[call[f].parent].status = "terminal"
  BY <1>1, <1>2 DEF ParentHasEnded
<1> QED
  BY <1>1, <1>3, <1>4 DEF Source

\* The steps of a copy that write no file.
LEMMA LookResumes ==
  ASSUME RotationInvariant, Conversations, clis = 0, NEW f \in Run, CopyStep(f),
         ~(RenameCopy(f) /\ Renames(f))
  PROVE  Conversations'
<1>1. /\ UNCHANGED <<meta, registry, files, overtaken, cli, writers, clis>>
      /\ KeepsCall(f) /\ CopyMoved(f) /\ call \in [Run -> Call]
  BY CopyFrames, CallAfterCopyStep, RenameWrites, Typed DEF RotationInvariant
<1>2. CliStaysOut'
  BY <1>1, CliStillOut
<1>3. OwnTurns /\ CopyIsGood(f)
  BY DEF Conversations, CallResumes
<1>4. PICK p \in Run, from \in Account, to \in Account :
           /\ p = call[f].parent /\ from = meta[p].account /\ to = call[f].account
           /\ from \in Place /\ to \in Place /\ call[f].place = to
           /\ meta[p].status = "terminal" /\ call[f].session = None /\ call[f].pc \in Copies
  BY CopyCast
<1>5. /\ call'[f].parent = p /\ call'[f].account = to /\ call'[f].place = to
      /\ call'[f].pc \in {"reading", "renaming", "creating"} /\ Conversation(f)' = Conversation(f)
      /\ SourceFile(f) = files[from][Conversation(f)]
  BY <1>1, <1>4 DEF KeepsCall, CopyMoved, Conversation, SourceFile, Source
<1>6. AtHome(f)' /\ ParentHasEnded(f)'
  BY <1>1, <1>4, <1>5 DEF AtHome, ParentHasEnded
<1>7. CASE StartsAfresh(f)
  <2>1. call'[f].pc = "creating" /\ call'[f].session = None
    BY <1>1, <1>4, <1>7 DEF StartsAfresh, Call
  <2>2. Resumes(f)'
    BY <2>1 DEF Resumes
  <2> QED
    BY <1>1, <1>2, <1>6, <2>1, <2>2, ConversationsOfOne DEF KeepsCall
<1>8. ASSUME NEW s \in Run, s = Conversation(f), CheckTarget(f), Reads(f, "reading", files[to][s])
      PROVE  Conversations'
  <2>1. /\ call'[f].pc = "reading" /\ call'[f].seen = files[to][s]
        /\ call'[f].session = None
    BY <1>1, <1>4, <1>8 DEF Reads, Call
  <2>2. Resumes(f)'
    BY <2>1 DEF Resumes, Underway
  <2>3. HasFound(files[to][s], to, s)
    BY DEF HasFound
  <2>4. CopyIsGood(f)'
    BY <1>1, <1>5, <1>8, <2>1, <2>3 DEF CopyIsGood, HasFound, Sound
  <2> QED
    BY <1>1, <1>2, <1>6, <2>2, <2>4, ConversationsOfOne DEF KeepsCall
<1>9. ASSUME NEW s \in Run, s = Conversation(f), ReadSource(f), files[from][s] # {},
             Reads(f, "renaming", files[from][s])
      PROVE  Conversations'
  <2>1. /\ call'[f].pc = "renaming" /\ call'[f].seen = files[from][s]
        /\ call'[f].session = None
    BY <1>1, <1>4, <1>9 DEF Reads, Call
  <2>2. Resumes(f)'
    BY <2>1 DEF Resumes, Underway
  <2>3. HasRead(files[from][s], s, p)
    BY <1>3, <1>4, <1>9 DEF HasRead, OwnTurns
  <2>4. CopyIsGood(f)'
    BY <1>1, <1>5, <1>9, <2>1, <2>3 DEF CopyIsGood, HasRead, Sound
  <2> QED
    BY <1>1, <1>2, <1>6, <2>2, <2>4, ConversationsOfOne DEF KeepsCall
<1>10. ASSUME NEW s \in Run, s = Conversation(f), call[f].pc = "reading", call[f].seen # {},
              files[from][s] = call[f].seen, GoesOnWith(f, s)
       PROVE  Conversations'
  <2>1. call'[f].pc = "creating" /\ call'[f].session = s
    BY <1>1, <1>4, <1>10 DEF GoesOnWith, Call
  <2>2. HasFound(files[from][s], to, s)
    BY <1>3, <1>4, <1>10 DEF CopyIsGood
  <2>3. HasTurns(to, s, p)
    BY <1>3, <1>4, <1>10, <2>2 DEF HasFound, HasTurns, OwnTurns
  <2>4. p # None
    BY RotationAssumption
  <2>5. Resumes(f)'
    BY <1>1, <1>5, <2>1, <2>3, <2>4 DEF Resumes, HasTurns, Sound
  <2> QED
    BY <1>1, <1>2, <1>6, <2>1, <2>5, ConversationsOfOne DEF KeepsCall
<1>11. CASE CheckTarget(f)
  <2>1. StartsAfresh(f) \/ (Copyable(f) /\ Reads(f, "reading", files[to][Conversation(f)]))
    BY <1>4, <1>11 DEF CheckTarget, TargetFile
  <2>2. Copyable(f) => Conversation(f) \in Run
    BY <1>4, FieldsTyped DEF Copyable, Conversation, RotationInvariant, Session
  <2> QED
    BY <1>7, <1>8, <1>11, <2>1, <2>2
<1>12. CASE ReadSource(f)
  <2>1. Conversation(f) \in Run /\ call[f].pc = "reading"
    BY <1>12, CopyingCall DEF ReadSource
  <2>2. \/ StartsAfresh(f)
        \/ SourceFile(f) # {} /\ Reads(f, "renaming", SourceFile(f))
        \/ call[f].seen # {} /\ SourceFile(f) = call[f].seen /\ GoesOnWith(f, Conversation(f))
    BY <1>12 DEF ReadSource
  <2> QED
    BY <1>5, <1>7, <1>9, <1>10, <1>12, <2>1, <2>2
<1>13. CASE RenameCopy(f)
  BY <1>7, <1>13, RenameWrites
<1> QED
  BY <1>11, <1>12, <1>13 DEF CopyStep

\* The rename, onto nothing where copies did not overlap.
LEMMA RenameResumes ==
  ASSUME RotationInvariant, Lookups, Conversations, clis = 0, NEW f \in Run, RenameCopy(f), Renames(f)
  PROVE  Conversations'
<1>1. /\ UNCHANGED <<meta, registry, cli, writers, clis>> /\ KeepsCall(f) /\ CopyStep(f)
      /\ call \in [Run -> Call] /\ files \in [Place -> [Run -> SUBSET Run]]
      /\ call[f].pc = "renaming"
  BY CopyFrames, CallAfterCopyStep, Typed, RenameWrites DEF CopyStep, RotationInvariant
<1>2. CliStaysOut'
  BY <1>1, CliStillOut
<1>3. OwnTurns /\ CopyIsGood(f) /\ \A x \in Run : CallResumes(x)
  BY DEF Conversations, CallResumes
<1>4. PICK p \in Run, from \in Account, to \in Account :
           /\ p = call[f].parent /\ from = meta[p].account /\ to = call[f].account
           /\ from \in Place /\ to \in Place /\ call[f].place = to
           /\ meta[p].status = "terminal" /\ call[f].session = None /\ call[f].pc \in Copies
  BY <1>1, CopyCast
<1>5. PICK s \in Run, seen \in SUBSET Run : s = Conversation(f) /\ seen = call[f].seen
  BY RenameWrites
<1>6. /\ files' = [files EXCEPT ![to] = [files[to] EXCEPT ![s] = seen]]
      /\ GoesOnWith(f, s) /\ overtaken \subseteq overtaken'
  BY <1>1, <1>4, <1>5 DEF Renames
<1>7. /\ call'[f].pc = "creating" /\ call'[f].session = s /\ call'[f].place = to
      /\ call'[f].account = to /\ call'[f].parent = p /\ \A x \in Run \ {f} : call'[x] = call[x]
  <2>1. call'[f].pc = "creating" /\ call'[f].session = s
    BY <1>1, <1>6 DEF GoesOnWith, Call
  <2> QED
    BY <1>1, <1>4, <2>1 DEF KeepsCall
<1>8. HasRead(seen, s, p)
  BY <1>1, <1>3, <1>4, <1>5 DEF CopyIsGood
<1>9. \A q \in Place, t \in Run : files'[q][t] = IF q = to /\ t = s THEN seen ELSE files[q][t]
  BY <1>1, <1>4, <1>6
<1>10. \A q \in Place, t \in Run : files[q][t] # {} => files'[q][t] # {}
  BY <1>8, <1>9 DEF HasRead
<1>11. \A t \in Run : Sound(t)' => Sound(t)
  BY <1>6 DEF Sound
<1>12. Sound(s)' => files[to][s] = {}
  <2>1. FoundNoTarget(f, to, s)
    BY <1>1, <1>4, <1>5, RotationAssumption DEF FoundNoTarget
  <2> QED
    BY <1>4, <1>11, <2>1 DEF Lookups, TargetIsFree, Sound
<1>13. \A t \in Run : Sound(t)' => \A q \in Place : files[q][t] \subseteq files'[q][t]
  BY <1>9, <1>12
<1>14. \A t \in Run : Sound(t)' =>
         \A q \in Place : \A x \in files'[q][t] : \E o \in Place : x \in files[o][t]
  BY <1>8, <1>9, <1>11 DEF HasRead
<1>15. OwnTurns'
  <2> SUFFICES ASSUME NEW x \in Run, NEW t \in Run, NEW q \in Place, Sound(t)', x \in files'[q][t]
               PROVE  meta'[x].account # None /\ x \in files'[meta'[x].account][t]
    BY DEF OwnTurns
  <2>1. meta[x].account # None /\ x \in files[meta[x].account][t]
    BY <1>3, <1>11, <1>14 DEF OwnTurns
  <2>2. meta[x].account \in Place
    BY <2>1, FieldsTyped DEF RotationInvariant, Place
  <2> QED
    BY <1>1, <1>13, <2>1, <2>2
<1>16. CallResumes(f)'
  <2>1. AtHome(f)' /\ ParentHasEnded(f)' /\ CopyIsGood(f)'
    BY <1>1, <1>4, <1>7 DEF AtHome, ParentHasEnded, CopyIsGood
  <2>2. SessionExists(f)'
    <3>1. SessionExists(f) /\ meta[f].session \in Session /\ meta[f].account \in Account \cup {None}
      BY <1>3, FieldsTyped DEF CallResumes, RotationInvariant
    <3> QED
      BY <1>1, <1>10, <3>1 DEF SessionExists, Session, Place
  <2>3. files'[to][s] = seen /\ seen # {} /\ p # None
    BY <1>4, <1>8, <1>9, RotationAssumption DEF HasRead
  <2>4. Sound(s)' => \A q \in Place : p \in files'[q][s] => p \in files'[to][s]
    BY <1>8, <1>11, <1>14, <2>3 DEF HasRead
  <2>5. HasTurns(to, s, p)'
    BY <2>3, <2>4 DEF HasTurns
  <2>6. Resumes(f)'
    BY <1>7, <2>3, <2>5 DEF Resumes, HasTurns, Sound
  <2> QED
    BY <2>1, <2>2, <2>6 DEF CallResumes
<1>17. ASSUME NEW x \in Run \ {f} PROVE CallResumes(x)'
  <2>1. call'[x] = call[x] /\ meta' = meta
    BY <1>1, <1>7
  <2> QED
    BY <1>10, <1>11, <1>13, <1>14, <2>1, OthersResume
<1> QED
  BY <1>2, <1>15, <1>16, <1>17 DEF Conversations

\* The worker writes its turn into the file of its session.
LEMMA OpenResumes ==
  ASSUME RotationInvariant, Conversations, clis = 0, NEW r \in Run, OpenSession(r)
  PROVE  Conversations'
<1> DEFINE s == IF call[r].session = None THEN r ELSE call[r].session
           at == call[r].place
<1>1. /\ call[r].pc = "working" /\ UNCHANGED <<registry, overtaken, cli, writers, clis>>
      /\ call \in [Run -> Call] /\ files \in [Place -> [Run -> SUBSET Run]]
      /\ meta \in [Run -> Record] /\ meta[r].status = "running" /\ call[r].account # None
  BY Typed DEF OpenSession, bounds, RotationInvariant, RunsAreRight, RunIsRight, CallIsRight, AtWork
<1>2. CliStaysOut'
  BY <1>1, CliStillOut
<1>3. s \in Run /\ at \in Place /\ call[r].account \in Account
  BY <1>1, FieldsTyped DEF RotationInvariant, Session
<1>4. AtHome(r) /\ ParentHasEnded(r) /\ OwnTurns
  BY DEF Conversations, CallResumes
<1>5. at = meta[r].account /\ at # None
  BY <1>1, <1>4 DEF AtHome, Underway
<1>6. /\ files' = [files EXCEPT ![at] = [files[at] EXCEPT ![s] = files[at][s] \cup {r}]]
      /\ meta' = [meta EXCEPT ![r] = [meta[r] EXCEPT !.session = s]]
      /\ call' = [call EXCEPT ![r] = [call[r] EXCEPT !.pc = "settled"]]
  BY <1>1, <1>3 DEF OpenSession, Goto
<1>7. PICK session \in Run, place \in Place : session = s /\ place = at
  BY <1>3
<1> HIDE DEF s, at
<1>8. /\ meta'[r].session = session /\ meta'[r].account = place /\ meta'[r].status = "running"
      /\ \A x \in Run \ {r} : meta'[x] = meta[x]
  BY <1>1, <1>5, <1>6, <1>7 DEF Record
<1>9. /\ call'[r].pc = "settled" /\ call'[r].parent = call[r].parent
      /\ \A x \in Run \ {r} : call'[x] = call[x]
  BY <1>1, <1>6 DEF Call
<1>10. \A q \in Place, t \in Run :
         files'[q][t] = IF q = place /\ t = session THEN files[q][t] \cup {r} ELSE files[q][t]
  BY <1>1, <1>6, <1>7
<1>11. \A q \in Place, t \in Run : files[q][t] \subseteq files'[q][t]
  BY <1>10
<1>12. OwnTurns'
  <2> SUFFICES ASSUME NEW x \in Run, NEW t \in Run, NEW q \in Place, Sound(t)', x \in files'[q][t]
               PROVE  meta'[x].account # None /\ x \in files'[meta'[x].account][t]
    BY DEF OwnTurns
  <2>1. meta'[x].account = meta[x].account
    BY <1>5, <1>7, <1>8
  <2>2. CASE x \in files[q][t]
    <3>1. meta[x].account # None /\ x \in files[meta[x].account][t]
      BY <1>1, <1>4, <2>2 DEF OwnTurns, Sound
    <3>2. meta[x].account \in Place
      BY <3>1, FieldsTyped DEF RotationInvariant, Place
    <3> QED
      BY <1>11, <2>1, <3>1, <3>2
  <2>3. CASE x \notin files[q][t]
    <3>1. x = r /\ q = place /\ t = session
      BY <1>10, <2>3
    <3> QED
      BY <1>5, <1>7, <1>8, <1>10, <3>1
  <2> QED
    BY <2>2, <2>3
<1>13. CallResumes(r)'
  <2>1. AtHome(r)' /\ Resumes(r)'
    BY <1>9 DEF AtHome, Resumes, Underway
  <2>4. CopyIsGood(r)'
    BY <1>9 DEF CopyIsGood
  <2>2. SessionExists(r)'
    BY <1>5, <1>7, <1>8, <1>10 DEF SessionExists
  <2>3. ParentHasEnded(r)'
    <3>1. call[r].parent # None => call[r].parent \in Run
      BY FieldsTyped DEF RotationInvariant, Session
    <3> QED
      BY <1>1, <1>4, <1>8, <1>9, <3>1 DEF ParentHasEnded
  <2> QED
    BY <2>1, <2>2, <2>3, <2>4 DEF CallResumes
<1>14. ASSUME NEW x \in Run \ {r} PROVE CallResumes(x)'
  <2>1. call'[x] = call[x] /\ meta'[x] = meta[x]
    BY <1>8, <1>9
  <2>2. call[x].parent # None =>
          call[x].parent \in Run /\ meta[call[x].parent].status = "terminal" /\ call[x].parent # r
    BY <1>1, FieldsTyped DEF Conversations, CallResumes, ParentHasEnded, RotationInvariant, Session
  <2>3. call[x].parent # None => meta'[call[x].parent] = meta[call[x].parent]
    BY <1>8, <2>2
  <2>4. call[x].parent # r
    BY <2>2 DEF RotationAssumption
  <2>5. \A q \in Place, t \in Run :
          call[x].parent \in files'[q][t] => \E o \in Place : call[x].parent \in files[o][t]
    <3>1. ASSUME NEW q \in Place, NEW t \in Run, NEW y \in files'[q][t]
          PROVE  y \in files[q][t] \/ y = r
      <4>1. CASE q = place /\ t = session
        <5>1. files'[q][t] = files[q][t] \cup {r}
          BY <1>10, <4>1
        <5> QED
          BY <3>1, <5>1
      <4>2. CASE ~(q = place /\ t = session)
        <5>1. files'[q][t] = files[q][t]
          BY <1>10, <4>2
        <5> QED
          BY <3>1, <5>1
      <4> QED
        BY <4>1, <4>2
    <3> QED
      BY <2>4, <3>1
  <2> QED
    <3>1. \A t \in Run : Sound(t)' => Sound(t)
      BY <1>1 DEF Sound
    <3>2. \A q \in Place, t \in Run : files[q][t] # {} => files'[q][t] # {}
      BY <1>11
    <3> QED
      BY <1>11, <2>1, <2>3, <2>5, <3>1, <3>2, OthersResume
<1> QED
  BY <1>2, <1>12, <1>13, <1>14 DEF Conversations

LEMMA CrashResumes ==
  ASSUME RotationInvariant, Conversations, clis = 0, Crash
  PROVE  Conversations'
<1>1. /\ UNCHANGED <<registry, files, overtaken, cli, clis>> /\ writers' = <<>>
      /\ meta \in [Run -> Record] /\ call \in [Run -> Call]
  BY Typed DEF Crash, RotationInvariant
<1>2. CliStaysOut /\ OwnTurns
  BY DEF Conversations
<1>3. CliStaysOut'
  BY <1>1, <1>2 DEF CliStaysOut
<1>4. ASSUME NEW r \in Run
      PROVE  /\ meta'[r].account = meta[r].account /\ meta'[r].session = meta[r].session
             /\ meta[r].status = "terminal" => meta'[r].status = "terminal"
  <2>1. PICK saved \in [{q \in Run : call[q].pc \in {"working", "settled"}} -> {"none", "limit", "other"}] :
          meta' = [q \in Run |-> IF meta[q].status # "running" THEN meta[q]
                     ELSE [meta[q] EXCEPT !.status = "terminal",
                                          !.error = IF q \in DOMAIN saved THEN saved[q] ELSE "none"]]
    BY DEF Crash
  <2> DEFINE error == IF r \in DOMAIN saved THEN saved[r] ELSE "none"
  <2>2. meta'[r] = IF meta[r].status # "running" THEN meta[r]
                   ELSE [meta[r] EXCEPT !.status = "terminal", !.error = error]
    BY <2>1
  <2> HIDE DEF error
  <2>3. meta[r] \in Record
    BY <1>1
  <2> QED
    BY <2>2, <2>3 DEF Record
<1>5. OwnTurns'
  BY <1>1, <1>2, <1>4 DEF OwnTurns, Sound
<1>6. ASSUME NEW r \in Run PROVE CallResumes(r)'
  <2>1. CallResumes(r)
    BY DEF Conversations
  <2>2. SessionExists(r)'
    BY <1>1, <1>4, <2>1 DEF CallResumes, SessionExists
  <2>3. call[r].pc = "idle" => call[r] = Idle
    BY DEF RotationInvariant, RunsAreRight, RunIsRight, CallIsRight
  <2>4. call'[r] = Idle \/ call'[r] = [Idle EXCEPT !.pc = "over"]
    BY <2>3 DEF Crash
  <2>5. call'[r].pc \in {"idle", "over"} /\ call'[r].parent = None /\ call'[r].session = None
    BY <2>4 DEF Idle
  <2>6. AtHome(r)' /\ ParentHasEnded(r)' /\ Resumes(r)' /\ CopyIsGood(r)'
    BY <2>5 DEF AtHome, ParentHasEnded, Resumes, CopyIsGood, Underway
  <2> QED
    BY <2>2, <2>6 DEF CallResumes
<1> QED
  BY <1>3, <1>5, <1>6 DEF Conversations

LEMMA ConversationsNext ==
  RotationInvariant /\ Lookups /\ Conversations /\ [RotationNext]_rotationVars => Conversations'
<1> SUFFICES ASSUME RotationInvariant, Lookups, Conversations, [RotationNext]_rotationVars, clis' = 0
             PROVE  Conversations'
  BY DEF Conversations
<1>1. clis \in Nat
  BY Typed DEF RotationInvariant
<1>2. ASSUME NEW a \in Touched, Login(a) \/ SetKey(a) \/ RemoveAccount(a)
      PROVE  FALSE
  BY <1>1, <1>2 DEF Login, SetKey, RemoveAccount, CliRead
<1>3. CASE CliWrite \/ DeleteConfigDir
  BY <1>3 DEF CliWrite, DeleteConfigDir, Conversations, CliStaysOut, bounds
<1>4. CASE StartRun \/ \E f, p \in Run : PlainFollowUp(f, p) \/ RotatingFollowUp(f, p)
  <2>1. clis = 0
    BY <1>4 DEF StartRun, PlainFollowUp, RotatingFollowUp, bounds
  <2> QED
    BY <1>4, <2>1, FollowUpResumes
<1>5. ASSUME NEW r \in Run, CallStep(r) \/ WorkerStep(r)
      PROVE  Conversations'
  <2>1. clis = 0
    BY <1>5, CopyFrames DEF CallStep, CopyStep, WorkerStep, PickAccount, CreateRun, RecordRun, Spawn,
       SpawnAfresh, FailPreSpawn, OpenSession, RetryAfresh, EndRun, bounds
  <2>2. CASE CopyStep(r)
    BY <2>1, <2>2, CopyFrames, RenameWrites, LookResumes, RenameResumes
  <2> QED
    BY <1>5, <2>1, <2>2, PickResumes, CreateResumes, RecordResumes, SpawnResumes,
       OpenResumes, EndResumes DEF CallStep, CopyStep, WorkerStep
<1>6. CASE RegistryStep
  <2>1. clis = 0
    BY <1>6 DEF RegistryStep, MarkRead, MarkWrite, bounds
  <2> QED
    BY <1>6, <2>1, MarkResumes
<1>7. CASE Crash
  <2>1. clis = 0
    BY <1>7 DEF Crash
  <2> QED
    BY <1>7, <2>1, CrashResumes
<1>8. CASE Tick \/ UNCHANGED rotationVars
  <2>1. UNCHANGED <<meta, registry, files, call, writers, cli, overtaken, clis>>
    BY <1>8 DEF Tick, rotationVars, disk, memory, bounds
  <2>2. CliStaysOut' /\ OwnTurns'
    BY <2>1 DEF Conversations, CliStaysOut, OwnTurns, Sound
  <2>3. ASSUME NEW r \in Run PROVE CallResumes(r)'
    <3>1. CallResumes(r)
      BY <2>1 DEF Conversations
    <3>2. AtHome(r)' /\ ParentHasEnded(r)' /\ SessionExists(r)'
      BY <2>1, <3>1 DEF CallResumes, AtHome, ParentHasEnded, SessionExists
    <3>3. Resumes(r)' /\ CopyIsGood(r)'
      BY <2>1, <3>1 DEF CallResumes, Resumes, HasTurns, CopyIsGood, HasFound, HasRead, Sound, Conversation
    <3> QED
      BY <3>2, <3>3 DEF CallResumes
  <2> QED
    BY <2>2, <2>3 DEF Conversations
<1> QED
  BY <1>2, <1>3, <1>4, <1>5, <1>6, <1>7, <1>8 DEF RotationNext

(* A run that was told to resume finds its session where its worker looks,  *)
(* with the turn of the run that it follows, in whatever order follow-ups,  *)
(* copies, cooldown marks, retries and restarts come, as long as nobody     *)
(* works with the CLI and no copy of the session was overtaken by another   *)
(* to the same account (copySessionJsonlForRotation; resolveAccountSpawn).  *)
THEOREM ResumedRunsFindTheirConversation == RotationSpec => []ResumeFindsTheConversation
<1>1. RotationSpec => []Conversations
  <2>1. RotationInvariant /\ Lookups /\ Conversations /\ [RotationNext]_rotationVars => Conversations'
    BY ConversationsNext
  <2> QED
    BY ConversationsInit, InvariantHolds, LookupsHold, <2>1, PTL DEF RotationSpec
<1>2. Conversations => ResumeFindsTheConversation
  BY DEF Conversations, CallResumes, Resumes, HasTurns, Sound, Underway, ResumeFindsTheConversation
<1> QED
  BY <1>1, <1>2, PTL
=============================================================================
