--------------------------- MODULE ProfilesProofs ---------------------------
(***************************************************************************)
(* Theorems about Profiles, for any number of manifests, profiles and      *)
(* overlapping upserts: the lock of a manifest admits one upsert at a      *)
(* time, so what an upsert has read is still current when it writes.       *)
(***************************************************************************)
EXTENDS Profiles, TLAPS

InForce(c) == call[c].at \in {"inspect", "write"}

\* An upsert in progress waits in the chain of its manifest, and one that has read
\* the manifest is the first there.
CallsAreQueued ==
  \A c \in Call : call[c].at # "idle" =>
    /\ \E k \in DOMAIN queue[call[c].path] : queue[call[c].path][k] = c
    /\ InForce(c) => Head(queue[call[c].path]) = c

\* What it has read is current in all that was accepted since the last edit.
ReadsAreCurrent ==
  \A c \in Call, i \in Id :
    InForce(c) /\ accepted[call[c].path][i] # NoProfile => call[c].base[i] = accepted[call[c].path][i]

BoundProfilesFit == \A s \in Starter : starter[s].at = "bind" => Fits(starter[s].profile)

ProfilesInvariant ==
  /\ ProfilesTypeOK
  /\ CallsAreQueued
  /\ ReadsAreCurrent
  /\ AcceptedUpsertsStay
  /\ BoundProfilesFit
  /\ RunsFitTheirBackend

USE ProfilesAssumption
-----------------------------------------------------------------------------
LEMMA EmptyIsTyped ==
  /\ Empty \in [Id -> Profile \cup {NoProfile}] /\ Empty \in [Id -> Offer \cup {NoProfile}]
  /\ \A i \in Id : Empty[i] = NoProfile
  /\ [kind |-> "absent", profiles |-> Empty] \in Manifest
  /\ [kind |-> "corrupt", profiles |-> Empty] \in Manifest
  /\ IdleCall \in UpsertCall /\ IdleCall.at = "idle"
<1>1. (CHOOSE i \in Id : TRUE) \in Id
  OBVIOUS
<1>2. Empty \in [Id -> Profile \cup {NoProfile}] /\ Empty \in [Id -> Offer \cup {NoProfile}]
      /\ \A i \in Id : Empty[i] = NoProfile
  BY DEF Empty
<1> QED
  BY <1>1, <1>2 DEF Manifest, IdleCall, UpsertCall

LEMMA InvariantInit == Init => ProfilesInvariant
<1> SUFFICES ASSUME Init PROVE ProfilesInvariant
  OBVIOUS
<1>1. \A c \in Call : call[c].at = "idle"
  BY EmptyIsTyped DEF Init
<1>2. \A s \in Starter : starter[s].at = "idle"
  BY DEF Init, IdleStarter
<1>3. ProfilesTypeOK
  BY EmptyIsTyped DEF Init, ProfilesTypeOK, IdleStarter, StartCall
<1>4. AcceptedUpsertsStay
  BY EmptyIsTyped DEF Init, AcceptedUpsertsStay
<1> QED
  BY <1>1, <1>2, <1>3, <1>4 DEF ProfilesInvariant, CallsAreQueued, ReadsAreCurrent, InForce,
     BoundProfilesFit, RunsFitTheirBackend, Init
-----------------------------------------------------------------------------
(* The chain of a manifest *)

\* The first of a chain is answered: it leaves, and the others move up.
LEMMA AnswersKeepsTheChain ==
  ASSUME ProfilesTypeOK, CallsAreQueued, NEW c \in Call, call[c].at # "idle",
         Head(queue[call[c].path]) = c, Answers(c)
  PROVE  /\ call' \in [Call -> UpsertCall] /\ queue' \in [Path -> Seq(Call)]
         /\ CallsAreQueued'
         /\ \A d \in Call : InForce(d)' => InForce(d) /\ call'[d] = call[d] /\ call[d].path # call[c].path
<1> DEFINE p == call[c].path
<1>1. p \in Path /\ queue[p] \in Seq(Call) /\ queue[p] # << >>
  BY DEF ProfilesTypeOK, UpsertCall, CallsAreQueued
<1>2. call' \in [Call -> UpsertCall] /\ queue' \in [Path -> Seq(Call)]
  BY <1>1, EmptyIsTyped DEF Answers, ProfilesTypeOK
<1>3. ASSUME NEW d \in Call, call'[d].at # "idle"
      PROVE  d # c /\ call'[d] = call[d] /\ call[d].at # "idle"
  BY <1>3, EmptyIsTyped DEF Answers, ProfilesTypeOK
<1>4. ASSUME NEW d \in Call, call'[d].at # "idle", call[d].path = p
      PROVE  \E k \in DOMAIN queue'[p] : queue'[p][k] = d
  <2>1. PICK k \in DOMAIN queue[p] : queue[p][k] = d
    BY <1>3, <1>4 DEF CallsAreQueued
  <2>2. k # 1 /\ k \in 1..Len(queue[p])
    BY <1>1, <1>3, <1>4, <2>1
  <2>3. queue'[p] = Tail(queue[p])
    BY <1>1 DEF Answers, ProfilesTypeOK
  <2>4. k - 1 \in DOMAIN Tail(queue[p]) /\ Tail(queue[p])[k - 1] = d
    BY <1>1, <2>1, <2>2
  <2> QED
    BY <2>3, <2>4
<1>5. ASSUME NEW d \in Call, call'[d].at # "idle", call[d].path # p
      PROVE  queue'[call[d].path] = queue[call[d].path]
  BY <1>1, <1>5 DEF Answers, ProfilesTypeOK, UpsertCall
<1>6. ASSUME NEW d \in Call, InForce(d)' PROVE InForce(d) /\ call'[d] = call[d] /\ call[d].path # p
  <2>1. call'[d].at # "idle"
    BY <1>6 DEF InForce
  <2> QED
    BY <1>3, <1>6, <2>1 DEF InForce, CallsAreQueued
<1>7. CallsAreQueued'
  <2> SUFFICES ASSUME NEW d \in Call, call'[d].at # "idle"
               PROVE  /\ \E k \in DOMAIN queue'[call'[d].path] : queue'[call'[d].path][k] = d
                      /\ InForce(d)' => Head(queue'[call'[d].path]) = d
    BY DEF CallsAreQueued
  <2>1. CASE call[d].path = p
    BY <2>1, <1>3, <1>4, <1>6
  <2>2. CASE call[d].path # p
    BY <2>2, <1>3, <1>5, <1>6 DEF CallsAreQueued, InForce
  <2> QED
    BY <2>1, <2>2
<1> QED
  BY <1>2, <1>6, <1>7
-----------------------------------------------------------------------------
(* The steps of an upsert *)

LEMMA StartsUntouched ==
  ASSUME BoundProfilesFit, RunsFitTheirBackend, UNCHANGED starts
  PROVE  BoundProfilesFit' /\ RunsFitTheirBackend'
BY DEF starts, BoundProfilesFit, RunsFitTheirBackend

LEMMA AskStep ==
  ASSUME ProfilesInvariant, NEW c \in Call, Ask(c) PROVE ProfilesInvariant'
<1> USE DEF ProfilesInvariant
<1>1. PICK pinned \in BOOLEAN, create \in BOOLEAN, path \in Path, i \in Id,
           p \in {o \in Offer : o.backend \in Backend} :
        /\ call' = [call EXCEPT ![c] = [at |-> "queued", pinned |-> pinned, path |-> path, id |-> i,
                                        profile |-> p, create |-> create, base |-> Empty]]
        /\ queue' = [queue EXCEPT ![path] = Append(@, c)]
  <2>1. \A name \in Path \cup {"relative"}, dir \in {"frontend", "daemon", "given"} : Resolve(name, dir) \in Path
    BY DEF Resolve
  <2>2. \A cwd \in {"none", "given"} : Under(cwd, "daemon") \in {"daemon", "given"}
    BY DEF Under
  <2>3. PICK pinned, create \in BOOLEAN, name \in Path \cup {"relative"}, cwd \in {"none", "given"},
             i \in Id, p \in {o \in Offer : o.backend \in Backend} :
          LET path == Resolve(name, Under(cwd, "daemon")) IN
          /\ FrontendAllows(pinned, name, cwd) /\ DaemonAllows(pinned, path)
          /\ call' = [call EXCEPT ![c] = [at |-> "queued", pinned |-> pinned, path |-> path, id |-> i,
                                          profile |-> p, create |-> create, base |-> Empty]]
          /\ Queued(c, path)
    BY Zenon DEF Ask
  <2>4. Resolve(name, Under(cwd, "daemon")) \in Path
    BY <2>1, <2>2
  <2> QED
    BY <2>3, <2>4 DEF Queued
<1>2. call[c].at = "idle" /\ asks < MaxAsk /\ asks' = asks + 1
      /\ UNCHANGED <<file, world, accepted, starts, edits, troubles>>
  BY DEF Ask
<1>3. call' \in [Call -> UpsertCall] /\ queue' \in [Path -> Seq(Call)] /\ asks' \in 0..MaxAsk
  <2>1. asks' \in 0..MaxAsk
    BY <1>2 DEF ProfilesTypeOK
  <2>2. call' \in [Call -> UpsertCall]
    BY <1>1, EmptyIsTyped DEF ProfilesTypeOK, UpsertCall
  <2>3. queue[path] \in Seq(Call)
    BY DEF ProfilesTypeOK
  <2> QED
    BY <1>1, <2>1, <2>2, <2>3 DEF ProfilesTypeOK
<1>4. ProfilesTypeOK'
  BY <1>2, <1>3 DEF ProfilesTypeOK, world, starts
<1>5. ASSUME NEW d \in Call, InForce(d)' PROVE InForce(d) /\ call'[d] = call[d] /\ d # c
  BY <1>1, <1>5 DEF InForce, ProfilesTypeOK
<1>6. CallsAreQueued'
  <2> SUFFICES ASSUME NEW d \in Call, call'[d].at # "idle"
               PROVE  /\ \E k \in DOMAIN queue'[call'[d].path] : queue'[call'[d].path][k] = d
                      /\ InForce(d)' => Head(queue'[call'[d].path]) = d
    BY DEF CallsAreQueued
  <2>1. queue[path] \in Seq(Call) /\ queue'[path] = Append(queue[path], c)
    BY <1>1 DEF ProfilesTypeOK
  <2>2. CASE d = c
    <3>1. call'[d].path = path /\ ~InForce(d)'
      BY <1>1, <1>5, <2>2 DEF ProfilesTypeOK
    <3>2. Len(queue[path]) + 1 \in DOMAIN queue'[path] /\ queue'[path][Len(queue[path]) + 1] = c
      BY <2>1
    <3> QED
      BY <2>2, <3>1, <3>2
  <2>3. CASE d # c
    <3>1. call'[d] = call[d]
      BY <1>1, <2>3 DEF ProfilesTypeOK
    <3>2. PICK k \in DOMAIN queue[call[d].path] : queue[call[d].path][k] = d
      BY <3>1 DEF CallsAreQueued
    <3>3. InForce(d)' => Head(queue[call[d].path]) = d
      BY <1>5, <3>1 DEF CallsAreQueued
    <3>4. CASE call[d].path = path
      <4>1. k \in 1..Len(queue[path]) /\ queue[path][k] = d
        BY <2>1, <3>2, <3>4
      <4>2. k \in DOMAIN queue'[path] /\ queue'[path][k] = d
        BY <2>1, <4>1
      <4>3. Head(queue'[path]) = Head(queue[path])
        BY <2>1, <4>1
      <4> QED
        BY <3>1, <3>3, <3>4, <4>2, <4>3
    <3>5. CASE call[d].path # path
      <4>1. queue'[call[d].path] = queue[call[d].path]
        BY <1>1, <3>5 DEF ProfilesTypeOK, UpsertCall
      <4> QED
        BY <3>1, <3>2, <3>3, <4>1
    <3> QED
      BY <3>4, <3>5
  <2> QED
    BY <2>2, <2>3
<1>7. ReadsAreCurrent'
  BY <1>2, <1>5 DEF ReadsAreCurrent
<1>8. AcceptedUpsertsStay'
  BY <1>2 DEF AcceptedUpsertsStay
<1> QED
  BY <1>2, <1>4, <1>6, <1>7, <1>8, StartsUntouched

\* An answer that leaves the manifest alone.
LEMMA RefusalStep ==
  ASSUME ProfilesInvariant, NEW c \in Call, call[c].at # "idle", Head(queue[call[c].path]) = c,
         Answers(c), UNCHANGED <<file, world, accepted, asks, starts, edits>>, troubles' \in 0..MaxTrouble
  PROVE  ProfilesInvariant'
<1> USE DEF ProfilesInvariant
<1>1. ProfilesTypeOK'
  BY AnswersKeepsTheChain DEF ProfilesTypeOK, world, starts
<1>2. CallsAreQueued'
  BY AnswersKeepsTheChain
<1>3. ReadsAreCurrent'
  BY AnswersKeepsTheChain DEF ReadsAreCurrent
<1>4. AcceptedUpsertsStay'
  BY DEF AcceptedUpsertsStay
<1> QED
  BY <1>1, <1>2, <1>3, <1>4, StartsUntouched

\* A step of the call that holds the manifest: it goes on, in its place.
LEMMA GoesOnStep ==
  ASSUME ProfilesInvariant, NEW c \in Call, call[c].at # "idle", Head(queue[call[c].path]) = c,
         NEW at \in {"inspect", "write"}, NEW base \in [Id -> Profile \cup {NoProfile}],
         \A i \in Id : accepted[call[c].path][i] # NoProfile => base[i] = accepted[call[c].path][i],
         call' = [call EXCEPT ![c].at = at, ![c].base = base],
         UNCHANGED <<file, queue, world, accepted, asks, starts, edits, troubles>>
  PROVE  ProfilesInvariant'
<1> USE DEF ProfilesInvariant
<1> DEFINE next == [call[c] EXCEPT !.at = at, !.base = base]
<1>0. call[c] \in UpsertCall /\ call \in [Call -> UpsertCall]
  BY DEF ProfilesTypeOK
<1>1. /\ next \in UpsertCall /\ next.path = call[c].path /\ next.base = base
      /\ call' = [call EXCEPT ![c] = next]
  BY <1>0 DEF UpsertCall
<1> HIDE DEF next
<1>2. ProfilesTypeOK'
  BY <1>0, <1>1 DEF ProfilesTypeOK, world, starts
<1>3. \A d \in Call : call'[d].path = call[d].path /\ (d # c => call'[d] = call[d])
  BY <1>0, <1>1
<1>4. call'[c].base = base
  BY <1>0, <1>1
<1>5. CallsAreQueued'
  <2> SUFFICES ASSUME NEW d \in Call, call'[d].at # "idle"
               PROVE  /\ \E k \in DOMAIN queue'[call'[d].path] : queue'[call'[d].path][k] = d
                      /\ InForce(d)' => Head(queue'[call'[d].path]) = d
    BY DEF CallsAreQueued
  <2>1. queue' = queue /\ call'[d].path = call[d].path
    BY <1>3
  <2>2. call[d].at # "idle" /\ (InForce(d)' => d = c \/ InForce(d))
    BY <1>3 DEF InForce
  <2>3. PICK k \in DOMAIN queue[call[d].path] : queue[call[d].path][k] = d
    BY <2>2 DEF CallsAreQueued
  <2>4. InForce(d)' => Head(queue[call[d].path]) = d
    BY <2>2 DEF CallsAreQueued
  <2> QED
    BY <2>1, <2>3, <2>4
<1>6. ReadsAreCurrent'
  <2> SUFFICES ASSUME NEW d \in Call, NEW i \in Id, InForce(d)', accepted'[call'[d].path][i] # NoProfile
               PROVE  call'[d].base[i] = accepted'[call'[d].path][i]
    BY DEF ReadsAreCurrent
  <2>1. accepted' = accepted /\ call'[d].path = call[d].path
    BY <1>3
  <2>2. CASE d = c
    BY <1>4, <2>1, <2>2
  <2>3. CASE d # c
    <3>1. call'[d] = call[d] /\ InForce(d)
      BY <1>3, <2>3 DEF InForce
    <3> QED
      BY <2>1, <3>1 DEF ReadsAreCurrent
  <2> QED
    BY <2>2, <2>3
<1>7. AcceptedUpsertsStay'
  BY DEF AcceptedUpsertsStay
<1> QED
  BY <1>2, <1>5, <1>6, <1>7, StartsUntouched

LEMMA ReadManifestStep ==
  ASSUME ProfilesInvariant, NEW c \in Call, ReadManifest(c) PROVE ProfilesInvariant'
<1> USE DEF ProfilesInvariant
<1> DEFINE m == file[call[c].path]
<1>1. call[c].at # "idle" /\ Head(queue[call[c].path]) = c
      /\ UNCHANGED <<file, world, accepted, asks, starts, edits, troubles>>
  BY DEF ReadManifest, Holds
<1>2. call[c].path \in Path /\ m \in Manifest
  BY DEF ProfilesTypeOK, UpsertCall
<1>3. CASE Answers(c)
  <2>1. troubles' \in 0..MaxTrouble
    BY <1>1 DEF ProfilesTypeOK
  <2> QED
    BY <1>1, <1>3, <2>1, RefusalStep
<1>4. CASE /\ m.kind # "corrupt"
           /\ call' = [call EXCEPT ![c].at = "inspect", ![c].base = m.profiles] /\ UNCHANGED queue
  <2>1. m.profiles \in [Id -> Profile \cup {NoProfile}]
    BY <1>2 DEF Manifest
  <2>2. \A i \in Id : accepted[call[c].path][i] # NoProfile => m.profiles[i] = accepted[call[c].path][i]
    BY <1>2, <1>4 DEF AcceptedUpsertsStay
  <2> HIDE DEF m
  <2> QED
    BY <1>1, <1>4, <2>1, <2>2, GoesOnStep
<1> QED
  BY <1>3, <1>4 DEF ReadManifest, Refuses

LEMMA InspectStep ==
  ASSUME ProfilesInvariant, NEW c \in Call, Inspect(c) PROVE ProfilesInvariant'
<1> USE DEF ProfilesInvariant
<1>1. call[c].at = "inspect" /\ Head(queue[call[c].path]) = c
      /\ UNCHANGED <<file, world, accepted, asks, starts, edits, troubles>>
  BY DEF Inspect, CallsAreQueued, InForce
<1>2. CASE Answers(c)
  <2>1. troubles' \in 0..MaxTrouble
    BY <1>1 DEF ProfilesTypeOK
  <2> QED
    BY <1>1, <1>2, <2>1, RefusalStep
<1>3. CASE call' = [call EXCEPT ![c].at = "write"] /\ UNCHANGED queue
  <2> DEFINE base == call[c].base
  <2>1. base \in [Id -> Profile \cup {NoProfile}]
    BY DEF ProfilesTypeOK, UpsertCall
  <2>2. \A i \in Id : accepted[call[c].path][i] # NoProfile => base[i] = accepted[call[c].path][i]
    BY <1>1 DEF ReadsAreCurrent, InForce
  <2>3. call' = [call EXCEPT ![c].at = "write", ![c].base = base]
    BY <1>3 DEF ProfilesTypeOK, UpsertCall
  <2> HIDE DEF base
  <2> QED
    BY <1>1, <1>3, <2>1, <2>2, <2>3, GoesOnStep
<1> QED
  BY <1>2, <1>3 DEF Inspect, Refuses

LEMMA WriteFailsStep ==
  ASSUME ProfilesInvariant, NEW c \in Call, WriteFails(c) PROVE ProfilesInvariant'
<1>1. call[c].at = "write" /\ Head(queue[call[c].path]) = c
  BY DEF WriteFails, ProfilesInvariant, CallsAreQueued, InForce
<1>2. troubles' \in 0..MaxTrouble
  BY DEF WriteFails, ProfilesInvariant, ProfilesTypeOK
<1> QED
  BY <1>1, <1>2, RefusalStep DEF WriteFails, Untouched

LEMMA WriteStep ==
  ASSUME ProfilesInvariant, NEW c \in Call, Write(c) PROVE ProfilesInvariant'
<1> USE DEF ProfilesInvariant
<1> DEFINE p == call[c].path
           new == Updated(c)
<1>1. call[c].at = "write" /\ Head(queue[p]) = c /\ Answers(c) /\ InForce(c)
      /\ UNCHANGED <<world, asks, starts, edits, troubles>>
  BY DEF Write, CallsAreQueued, InForce
<1>2. /\ p \in Path /\ call[c].id \in Id /\ call[c].profile \in Offer \cup {NoProfile}
      /\ call[c].base \in [Id -> Profile \cup {NoProfile}]
  BY DEF ProfilesTypeOK, UpsertCall
<1>3. /\ new \in [Id -> Profile \cup {NoProfile}]
      /\ new[call[c].id] = call[c].profile
      /\ \A i \in Id \ {call[c].id} : new[i] = call[c].base[i]
  BY <1>2 DEF Updated
<1>4. /\ file' = [file EXCEPT ![p] = [kind |-> "whole", profiles |-> new]]
      /\ accepted' = [accepted EXCEPT ![p][call[c].id] = call[c].profile]
  BY DEF Write
<1> HIDE DEF new
<1>5. /\ \A q \in Path : q # p => accepted'[q] = accepted[q] /\ file'[q] = file[q]
      /\ file'[p].profiles = new
      /\ accepted'[p][call[c].id] = call[c].profile
      /\ \A i \in Id : i # call[c].id => accepted'[p][i] = accepted[p][i]
      /\ accepted' \in [Path -> [Id -> Offer \cup {NoProfile}]]
  BY <1>2, <1>4 DEF ProfilesTypeOK
<1>6. file' \in [Path -> Manifest]
  BY <1>3, <1>4 DEF ProfilesTypeOK, Manifest
<1>7. ProfilesTypeOK'
  BY <1>1, <1>5, <1>6, AnswersKeepsTheChain DEF ProfilesTypeOK, world, starts
<1>8. CallsAreQueued'
  BY <1>1, AnswersKeepsTheChain
<1>9. ReadsAreCurrent'
  <2> SUFFICES ASSUME NEW d \in Call, NEW i \in Id, InForce(d)', accepted'[call'[d].path][i] # NoProfile
               PROVE  call'[d].base[i] = accepted'[call'[d].path][i]
    BY DEF ReadsAreCurrent
  <2>1. InForce(d) /\ call'[d] = call[d] /\ call[d].path # p
    BY <1>1, AnswersKeepsTheChain
  <2>2. call[d].path \in Path
    BY DEF ProfilesTypeOK, UpsertCall
  <2> QED
    BY <1>5, <2>1, <2>2 DEF ReadsAreCurrent
<1>10. AcceptedUpsertsStay'
  <2> SUFFICES ASSUME NEW q \in Path, NEW i \in Id, file'[q].kind # "corrupt", accepted'[q][i] # NoProfile
               PROVE  file'[q].profiles[i] = accepted'[q][i]
    BY DEF AcceptedUpsertsStay
  <2>1. CASE q # p
    BY <1>5, <2>1 DEF AcceptedUpsertsStay
  <2>2. CASE q = p /\ i = call[c].id
    BY <1>3, <1>5, <2>2
  <2>3. CASE q = p /\ i # call[c].id
    BY <1>1, <1>3, <1>5, <2>3 DEF ReadsAreCurrent
  <2> QED
    BY <2>1, <2>2, <2>3
<1> QED
  BY <1>1, <1>7, <1>8, <1>9, <1>10, StartsUntouched
-----------------------------------------------------------------------------
(* The steps of a start, and of the world *)

LEMMA LoadStep ==
  ASSUME ProfilesInvariant, NEW s \in Starter, Load(s) PROVE ProfilesInvariant'
<1> USE DEF ProfilesInvariant
<1>1. UNCHANGED <<file, world, upserts, run, edits, troubles>>
  BY DEF Load
<1>2. PICK i \in Id :
        IF i \in LoadLiveWorkerProfiles /\ ParseProfileModelSettings(file[Pin].profiles[i])
        THEN starter' = [starter EXCEPT ![s] = [at |-> "bind", profile |-> file[Pin].profiles[i],
                                                count |-> @.count + 1]]
        ELSE starter' = [starter EXCEPT ![s].count = @ + 1]
  BY DEF Load
<1>3. file[Pin].profiles \in [Id -> Profile \cup {NoProfile}]
  BY DEF ProfilesTypeOK, Manifest
<1>4. starter[s] \in StartCall /\ starter[s].at = "idle" /\ starter[s].count + 1 \in 0..MaxStart
  BY DEF Load, ProfilesTypeOK, StartCall
<1>5. CASE /\ i \in LoadLiveWorkerProfiles
           /\ starter' = [starter EXCEPT ![s] = [at |-> "bind", profile |-> file[Pin].profiles[i],
                                                 count |-> @.count + 1]]
  <2>1. Fits(file[Pin].profiles[i])
    BY <1>5 DEF LoadLiveWorkerProfiles, Startable, Valid
  <2>2. file[Pin].profiles[i] \in Profile \cup {NoProfile}
    BY <1>3
  <2>3. starter' \in [Starter -> StartCall]
    BY <1>4, <1>5, <2>2 DEF ProfilesTypeOK, StartCall
  <2>4. BoundProfilesFit'
    BY <1>5, <2>1 DEF BoundProfilesFit, ProfilesTypeOK
  <2> QED
    BY <1>1, <2>3, <2>4 DEF ProfilesTypeOK, CallsAreQueued, ReadsAreCurrent, InForce, AcceptedUpsertsStay,
       RunsFitTheirBackend, world, upserts
<1>6. CASE starter' = [starter EXCEPT ![s].count = @ + 1]
  <2>1. starter' \in [Starter -> StartCall]
    BY <1>4, <1>6 DEF ProfilesTypeOK, StartCall
  <2>2. \A t \in Starter : starter'[t].at = starter[t].at /\ starter'[t].profile = starter[t].profile
    BY <1>6 DEF ProfilesTypeOK, StartCall
  <2>3. BoundProfilesFit'
    BY <2>2 DEF BoundProfilesFit
  <2> QED
    BY <1>1, <2>1, <2>3 DEF ProfilesTypeOK, CallsAreQueued, ReadsAreCurrent, InForce, AcceptedUpsertsStay,
       RunsFitTheirBackend, world, upserts
<1> QED
  BY <1>2, <1>5, <1>6

LEMMA BindAndCreateStep ==
  ASSUME ProfilesInvariant, NEW s \in Starter, BindAndCreate(s) PROVE ProfilesInvariant'
<1> USE DEF ProfilesInvariant
<1>1. /\ starter[s].at = "bind" /\ UNCHANGED <<file, world, upserts, edits, troubles>>
      /\ starter' = [starter EXCEPT ![s].at = "idle", ![s].profile = NoProfile]
      /\ run' = run \cup {p \in {starter[s].profile} : p.accounts \subseteq accounts}
  BY DEF BindAndCreate
<1>2. Fits(starter[s].profile)
  BY <1>1 DEF BoundProfilesFit
<1>3. starter[s].profile \in Profile
  <2>1. starter[s].profile \in Profile \cup {NoProfile}
    BY DEF ProfilesTypeOK, StartCall
  <2>2. ~Fits(NoProfile)
    BY DEF Fits, NoProfile, Backend
  <2> QED
    BY <1>2, <2>1, <2>2
<1>4. run' \subseteq Profile /\ RunsFitTheirBackend'
  BY <1>1, <1>2, <1>3 DEF ProfilesTypeOK, RunsFitTheirBackend
<1> DEFINE next == [starter[s] EXCEPT !.at = "idle", !.profile = NoProfile]
<1>5. starter' \in [Starter -> StartCall]
  <2>1. starter[s] \in StartCall /\ starter \in [Starter -> StartCall]
    BY DEF ProfilesTypeOK
  <2>2. next \in StartCall /\ starter' = [starter EXCEPT ![s] = next]
    BY <1>1, <2>1 DEF StartCall
  <2> QED
    BY <2>1, <2>2
<1>6. BoundProfilesFit'
  BY <1>1 DEF BoundProfilesFit, ProfilesTypeOK, StartCall
<1> QED
  BY <1>1, <1>4, <1>5, <1>6 DEF ProfilesTypeOK, CallsAreQueued, ReadsAreCurrent, InForce, AcceptedUpsertsStay,
     world, upserts

LEMMA EditByHandStep ==
  ASSUME ProfilesInvariant, EditByHand PROVE ProfilesInvariant'
<1> USE DEF ProfilesInvariant
<1>1. /\ edits' \in 0..MaxEdit /\ UNCHANGED <<world, call, queue, asks, starts, troubles>>
  BY DEF EditByHand, Edits, ProfilesTypeOK
<1>2. CASE \E i \in Id, p \in Offer \cup {NoProfile} :
             /\ file[Pin].kind # "corrupt"
             /\ file' = [file EXCEPT ![Pin] = [kind |-> "whole", profiles |-> [@.profiles EXCEPT ![i] = p]]]
             /\ accepted' = [accepted EXCEPT ![Pin][i] = NoProfile]
  <2>1. PICK i \in Id, p \in Offer \cup {NoProfile} :
             /\ file[Pin].kind # "corrupt"
             /\ file' = [file EXCEPT ![Pin] = [kind |-> "whole",
                                               profiles |-> [file[Pin].profiles EXCEPT ![i] = p]]]
             /\ accepted' = [accepted EXCEPT ![Pin][i] = NoProfile]
    BY <1>2
  <2>2. file[Pin].profiles \in [Id -> Profile \cup {NoProfile}]
    BY DEF ProfilesTypeOK, Manifest
  <2>3. [file[Pin].profiles EXCEPT ![i] = p] \in [Id -> Profile \cup {NoProfile}]
    BY <2>2
  <2>4. file' \in [Path -> Manifest]
    BY <2>1, <2>3 DEF ProfilesTypeOK, Manifest
  <2>5. accepted' \in [Path -> [Id -> Offer \cup {NoProfile}]]
    BY <2>1 DEF ProfilesTypeOK
  <2>6. \A q \in Path, j \in Id : accepted'[q][j] # NoProfile =>
          accepted'[q][j] = accepted[q][j] /\ file'[q].profiles[j] = file[q].profiles[j]
          /\ (file'[q].kind # "corrupt" => file[q].kind # "corrupt")
    BY <2>1, <2>2 DEF ProfilesTypeOK
  <2>7. AcceptedUpsertsStay'
    BY <2>6 DEF AcceptedUpsertsStay
  <2>8. \A c \in Call : call[c].path \in Path
    BY DEF ProfilesTypeOK, UpsertCall
  <2>9. ReadsAreCurrent'
    BY <1>1, <2>6, <2>8 DEF ReadsAreCurrent, InForce
  <2> QED
    BY <1>1, <2>4, <2>5, <2>7, <2>9, StartsUntouched DEF ProfilesTypeOK, CallsAreQueued, InForce, world, starts
<1>3. CASE /\ file' = [file EXCEPT ![Pin] = [kind |-> "corrupt", profiles |-> Empty]]
           /\ accepted' = [accepted EXCEPT ![Pin] = Empty]
  <2>1. file' \in [Path -> Manifest] /\ accepted' \in [Path -> [Id -> Offer \cup {NoProfile}]]
    BY <1>3, EmptyIsTyped DEF ProfilesTypeOK
  <2>2. \A q \in Path, j \in Id : accepted'[q][j] # NoProfile =>
          accepted'[q][j] = accepted[q][j] /\ file'[q] = file[q]
    BY <1>3, EmptyIsTyped DEF ProfilesTypeOK
  <2>3. AcceptedUpsertsStay'
    BY <2>2 DEF AcceptedUpsertsStay
  <2>4. \A c \in Call : call[c].path \in Path
    BY DEF ProfilesTypeOK, UpsertCall
  <2>5. ReadsAreCurrent'
    BY <1>1, <2>2, <2>4 DEF ReadsAreCurrent, InForce
  <2> QED
    BY <1>1, <2>1, <2>3, <2>5, StartsUntouched DEF ProfilesTypeOK, CallsAreQueued, InForce, world, starts
<1> QED
  BY <1>2, <1>3 DEF EditByHand

LEMMA WorldStep ==
  ASSUME ProfilesInvariant, WorldChanges PROVE ProfilesInvariant'
<1> USE DEF ProfilesInvariant
<1>1. /\ edits' \in 0..MaxEdit /\ UNCHANGED <<file, upserts, starts, troubles>>
  BY DEF WorldChanges, Edits, ProfilesTypeOK
<1>2. available' \subseteq Backend /\ accounts' \subseteq Account
  BY DEF WorldChanges, ProfilesTypeOK
<1> QED
  BY <1>1, <1>2, StartsUntouched DEF ProfilesTypeOK, CallsAreQueued, ReadsAreCurrent, AcceptedUpsertsStay,
     InForce, upserts, starts

LEMMA InvariantStep == ProfilesInvariant /\ [Next]_profilesVars => ProfilesInvariant'
<1> SUFFICES ASSUME ProfilesInvariant, [Next]_profilesVars PROVE ProfilesInvariant'
  OBVIOUS
<1>1. CASE UNCHANGED profilesVars
  BY <1>1 DEF ProfilesInvariant, ProfilesTypeOK, CallsAreQueued, ReadsAreCurrent, InForce, AcceptedUpsertsStay,
     BoundProfilesFit, RunsFitTheirBackend, profilesVars, world, upserts, starts
<1>2. CASE Next
  BY <1>2, AskStep, ReadManifestStep, InspectStep, WriteStep, WriteFailsStep, LoadStep, BindAndCreateStep,
     EditByHandStep, WorldStep DEF Next, Step
<1> QED
  BY <1>1, <1>2
-----------------------------------------------------------------------------
LEMMA InvariantHolds == ProfilesSpec => []ProfilesInvariant
BY InvariantInit, InvariantStep, PTL DEF ProfilesSpec

\* Overlapping upserts of one manifest do not lose each other's profiles, however
\* many there are (withProfileUpdateLock, orchestratorService.ts 655-670).
THEOREM UpsertsAreKept == ProfilesSpec => []ManifestsKeepUpserts
<1>1. ProfilesInvariant => ManifestsKeepUpserts
  BY DEF ProfilesInvariant, ManifestsKeepUpserts
<1> QED
  BY <1>1, InvariantHolds, PTL

\* No run starts with settings its backend does not support, whatever is edited
\* into the manifest by hand (loadInspectedWorkerProfilesFromFile).
THEOREM RunsStartFitting == ProfilesSpec => []RunsFitTheirBackend
<1>1. ProfilesInvariant => RunsFitTheirBackend
  BY DEF ProfilesInvariant
<1> QED
  BY <1>1, InvariantHolds, PTL
-----------------------------------------------------------------------------
(* What an upsert may write *)

\* A call from a pinned harness keeps the manifest it was admitted for.
PinnedCallsStay == \A c \in Call : call[c].pinned => call[c].path = Pin

LEMMA AnswersKeepsThePin ==
  ASSUME ProfilesTypeOK, PinnedCallsStay, NEW c \in Call, Answers(c) PROVE PinnedCallsStay'
<1>1. call' = [call EXCEPT ![c] = IdleCall] /\ call \in [Call -> UpsertCall]
  BY DEF Answers, ProfilesTypeOK
<1>2. IdleCall.path = Pin
  BY DEF IdleCall
<1> QED
  BY <1>1, <1>2 DEF PinnedCallsStay

LEMMA PinStep ==
  ASSUME ProfilesTypeOK, PinnedCallsStay, [Next]_profilesVars PROVE PinnedCallsStay'
<1> USE DEF PinnedCallsStay
<1>1. call \in [Call -> UpsertCall]
  BY DEF ProfilesTypeOK
<1>2. ASSUME NEW c \in Call, Ask(c) PROVE PinnedCallsStay'
  <2>1. PICK pinned, create \in BOOLEAN, name \in Path \cup {"relative"}, cwd \in {"none", "given"},
             i \in Id, p \in {o \in Offer : o.backend \in Backend} :
          LET path == Resolve(name, Under(cwd, "daemon")) IN
          /\ FrontendAllows(pinned, name, cwd) /\ DaemonAllows(pinned, path)
          /\ call' = [call EXCEPT ![c] = [at |-> "queued", pinned |-> pinned, path |-> path, id |-> i,
                                          profile |-> p, create |-> create, base |-> Empty]]
          /\ Queued(c, path)
    BY <1>2, Zenon DEF Ask
  <2>2. pinned => Resolve(name, Under(cwd, "daemon")) = Pin
    BY <2>1 DEF DaemonAllows
  <2> QED
    BY <1>1, <2>1, <2>2
<1>3. ASSUME NEW c \in Call, ReadManifest(c) PROVE PinnedCallsStay'
  <2>1. CASE Answers(c)
    BY <2>1, AnswersKeepsThePin
  <2>2. CASE call' = [call EXCEPT ![c].at = "inspect", ![c].base = file[call[c].path].profiles]
    BY <1>1, <2>2 DEF UpsertCall
  <2> QED
    BY <1>3, <2>1, <2>2 DEF ReadManifest, Refuses
<1>4. ASSUME NEW c \in Call, Inspect(c) PROVE PinnedCallsStay'
  <2>1. CASE Answers(c)
    BY <2>1, AnswersKeepsThePin
  <2>2. CASE call' = [call EXCEPT ![c].at = "write"]
    BY <1>1, <2>2 DEF UpsertCall
  <2> QED
    BY <1>4, <2>1, <2>2 DEF Inspect, Refuses
<1>5. ASSUME NEW c \in Call, Write(c) \/ WriteFails(c) PROVE PinnedCallsStay'
  BY <1>5, AnswersKeepsThePin DEF Write, WriteFails
<1>6. ASSUME UNCHANGED call PROVE PinnedCallsStay'
  BY <1>6
<1>7. ASSUME NEW s \in Starter, Load(s) \/ BindAndCreate(s) PROVE UNCHANGED call
  BY <1>7 DEF Load, BindAndCreate, upserts
<1>8. EditByHand \/ WorldChanges \/ UNCHANGED profilesVars => UNCHANGED call
  BY DEF EditByHand, WorldChanges, profilesVars, upserts
<1> QED
  BY <1>2, <1>3, <1>4, <1>5, <1>6, <1>7, <1>8 DEF Next, Step

\* An upsert that comes from a pinned harness changes no other manifest than the
\* pinned one, for any number of overlapping upserts (enforcePolicyContextForUpsert).
THEOREM PinnedUpsertsStay == ProfilesSpec => PinnedWritesStayInThePin
<1>1. Init => PinnedCallsStay
  BY DEF Init, IdleCall, PinnedCallsStay
<1>2. ProfilesInvariant => ProfilesTypeOK
  BY DEF ProfilesInvariant
<1>3. PinnedCallsStay =>
        [\A c \in Call, p \in Path : call[c].pinned /\ call[c].path = p /\ file'[p] # file[p] /\ edits' = edits
                                       /\ call'[c] # call[c] => p = Pin]_profilesVars
  BY DEF PinnedCallsStay
<1> QED
  BY <1>1, <1>2, <1>3, PinStep, InvariantHolds, PTL DEF ProfilesSpec, PinnedWritesStayInThePin

\* A manifest is unreadable only because somebody edited it so: no upsert, whether
\* it fails or not, leaves one that is (atomicWriteWorkerProfiles).
THEOREM UpsertsLeaveManifestsWhole == ProfilesSpec => ManifestsStayWhole
<1>1. ASSUME ProfilesTypeOK, [Next]_profilesVars
      PROVE  \A p \in Path : file'[p].kind = "corrupt" => file[p].kind = "corrupt" \/ edits' > edits
  <2>1. file \in [Path -> Manifest] /\ edits \in Nat
    BY <1>1 DEF ProfilesTypeOK
  <2>2. ASSUME NEW c \in Call, Write(c), NEW p \in Path, file'[p].kind = "corrupt"
        PROVE  file[p].kind = "corrupt"
    <3>1. file' = [file EXCEPT ![call[c].path] = [kind |-> "whole", profiles |-> Updated(c)]]
      BY <2>2 DEF Write
    <3> QED
      BY <2>1, <2>2, <3>1
  <2>3. EditByHand => edits' > edits
    BY <2>1 DEF EditByHand, Edits
  <2>4. ASSUME NEW c \in Call, Ask(c) \/ ReadManifest(c) \/ Inspect(c) \/ WriteFails(c)
        PROVE  UNCHANGED file
    BY <2>4 DEF Ask, ReadManifest, Inspect, WriteFails, Untouched
  <2>5. ASSUME NEW s \in Starter, Load(s) \/ BindAndCreate(s) PROVE UNCHANGED file
    BY <2>5 DEF Load, BindAndCreate
  <2>6. WorldChanges \/ UNCHANGED profilesVars => UNCHANGED file
    BY DEF WorldChanges, profilesVars
  <2> QED
    BY <1>1, <2>2, <2>3, <2>4, <2>5, <2>6 DEF Next, Step
<1>2. ProfilesInvariant /\ [Next]_profilesVars =>
        [\A p \in Path : file'[p].kind = "corrupt" => file[p].kind = "corrupt" \/ edits' > edits]_profilesVars
  BY <1>1 DEF ProfilesInvariant
<1> QED
  BY <1>2, InvariantHolds, PTL DEF ProfilesSpec, ManifestsStayWhole
=============================================================================
