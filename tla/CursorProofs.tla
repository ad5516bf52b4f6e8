---------------------------- MODULE CursorProofs ----------------------------
(***************************************************************************)
(* Theorems about CursorRuntime, for any number of runs, messages, errors  *)
(* of the SDK, files and failing writes: what is recorded of a run that    *)
(* ended is complete, the first cancel decides, and every changed file is  *)
(* named.  That runs end is liveness and stays with TLC.                   *)
(***************************************************************************)
EXTENDS CursorRuntime, TLAPS

Categories == {"auth", "rate_limit", "invalid_model", "backend_unavailable", "unknown", "protocol"}
Latest == Categories \cup {"none", "override", "worker_binary_missing"}
WorkerStatus == {"none", "completed", "failed", "needs_input", "blocked"}
Verdict == [status : Final \cup {"running"}, worker : WorkerStatus, errors : Seq(RunError),
            latest : Latest, files : SUBSET File, git : BOOLEAN]

Starting == {"new", "idle", "probe", "key", "create", "send"}
Reading == {"begin", "race", "grace", "wait", "waitGrace", "dispose"}
Settled == {"write", "done", "broken"}

Stage == Starting \cup Reading \cup Settled \cup {"load"}
Snapshot == {NotTaken} \cup {CaptureGitSnapshot(h, w) : h \in Tree, w \in Tree}
CursorTyped ==
  /\ sdk \in {"unknown", "ok", "missing"}
  /\ pc \in [Run -> Stage]
  /\ agent \in [Run -> {"none", "open", "closed"}]
  /\ stream \in [Run -> {"open", "ended", "failed"}]
  /\ drain \in [Run -> {"off", "reading", "over", "broken"}]
  /\ messages \in [Run -> 0..MaxMessage] /\ late \in [Run -> 0..MaxMessage]
  /\ named \in [Run -> SUBSET File]
  /\ outcome \in [Run -> SdkResult \cup {"pending", "rejected"}]
  /\ result \in [Run -> SdkResult \cup {"null"}]
  /\ cancelBy \in [Run -> CancelStatus \cup {"none"}]
  /\ patience \in [Run -> BOOLEAN]
  /\ errs \in [Run -> Seq(RunError)]
  /\ managed \in [Run -> BOOLEAN] /\ timer \in [Run -> BOOLEAN] /\ fresh \in [Run -> BOOLEAN]
  /\ verdict \in [Run -> Verdict]
  /\ status \in [Run -> Final \cup {"running"}]
  /\ head \in Tree /\ work \in Tree /\ snapshot \in [Run -> Snapshot]
  /\ edits \in 0..MaxEdit /\ troubles \in 0..MaxTrouble

\* Until a run is sent nobody can cancel it, and nothing reads its stream.
StartIsAlone(r) ==
  pc[r] \in Starting =>
    /\ ~managed[r] /\ ~timer[r] /\ ~Cancelled(r)
    /\ drain[r] = "off" /\ errs[r] = << >> /\ result[r] = "null"

\* The outcome is settled in one step, and from then on only written.
VerdictIsFinal(r) ==
  /\ pc[r] \notin Settled => verdict[r] = Undecided
  /\ pc[r] = "write" => verdict[r].status # "running"
  /\ status[r] # "running" => pc[r] = "done" /\ status[r] = verdict[r].status
  /\ verdict[r] # Undecided => pc[r] \in Settled

\* What the outcome says is complete, and is what the SDK or a cancel decided.
WholeVerdict(v) ==
  /\ v.status \in {"failed", "timed_out"} => v.errors # << >>
  /\ (v.worker = "completed") <=> (v.status = "completed")
  /\ v.errors # << >> /\ v.status = "failed" =>
       LET e == Head(v.errors) IN
       e.status = 429 /\ e.words # "auth" /\ Retryable(Category(e)) => Retryable(v.latest)
VerdictIsWhole(r) ==
  verdict[r] # Undecided =>
    /\ WholeVerdict(verdict[r])
    /\ \/ verdict[r].status = StatusOfResult(r)
       \/ Cancelled(r) /\ verdict[r].status = cancelBy[r]

\* The agent lives from create to dispose; the stream is given up only by a cancel.
AgentIsReleased(r) == agent[r] = "open" => pc[r] \in {"send", "broken"} \cup Reading
StreamIsAwaited(r) ==
  /\ pc[r] \in {"grace", "waitGrace"} => Cancelled(r)
  /\ pc[r] \notin {"begin", "race", "broken"} /\ ~Cancelled(r) => drain[r] # "reading"
  /\ late[r] > 0 => Cancelled(r)
  /\ late[r] <= messages[r]

RunIsWhole(r) ==
  /\ StartIsAlone(r) /\ VerdictIsFinal(r) /\ VerdictIsWhole(r)
  /\ AgentIsReleased(r) /\ StreamIsAwaited(r)

CursorInvariant == CursorTyped /\ \A r \in Run : RunIsWhole(r)

USE CursorAssumption
-----------------------------------------------------------------------------
LEMMA TypesAreRight == CursorTyped => CursorTypeOK
<1>1. Stage =
        {"new", "idle", "probe", "key", "create", "send", "begin", "dispose",
         "load", "write", "done", "broken"} \cup Racing
  BY DEF Stage, Starting, Reading, Settled, Racing
<1>2. verdict \in [Run -> Verdict] => \A r \in Run :
        /\ verdict[r].status \in Final \cup {"running"}
        /\ verdict[r].errors \in Seq(RunError) /\ verdict[r].files \subseteq File
  BY DEF Verdict
<1> QED
  BY <1>1, <1>2 DEF CursorTyped, CursorTypeOK

LEMMA UndecidedIsVerdict ==
  Undecided \in Verdict /\ Undecided.status = "running" /\ Undecided.git = FALSE
BY DEF Undecided, Verdict, WorkerStatus, Latest

LEMMA InvariantInit == Init => CursorInvariant
<1> SUFFICES ASSUME Init PROVE CursorInvariant
  OBVIOUS
<1>1. CursorTyped
  <2>1. head \in Tree
    BY DEF Init, Tree, Content
  <2>2. snapshot \in [Run -> Snapshot]
    BY DEF Init, Snapshot
  <2> QED
    BY <2>1, <2>2, UndecidedIsVerdict
       DEF Init, Stage, Starting, SdkResult, CancelStatus, CursorTyped
<1>2. \A r \in Run : RunIsWhole(r)
  BY DEF Init, RunIsWhole, StartIsAlone, VerdictIsFinal, VerdictIsWhole, AgentIsReleased,
         StreamIsAwaited, Cancelled, Starting, Settled, Reading
<1> QED
  BY <1>1, <1>2 DEF CursorInvariant

-----------------------------------------------------------------------------
(* Errors and categories *)

LEMMA CategoryKind == ASSUME NEW e \in RunError PROVE Category(e) \in Categories
BY DEF RunError, Class, Words, Category, knownClassCategory, StatusCategory, WordsCategory, Categories

LEMMA ClassifiedKind == ASSUME NEW e PROVE Classified(e) \in Latest
BY DEF Classified, Categories, Latest

LEMMA FromKeeps ==
  ASSUME NEW source \in Source, NEW e \in SdkError
  PROVE  From(source, e) \in RunError /\ Category(From(source, e)) = Category(e)
<1>1. /\ From(source, e).class = e.class /\ From(source, e).status = e.status
      /\ From(source, e).words = e.words
  BY DEF From
<1>2. From(source, e) \in RunError
  BY DEF From, RunError, SdkError
<1> QED
  BY <1>1, <1>2 DEF Category, StatusCategory, WordsCategory

LEMMA SaidKind ==
  ASSUME NEW source \in Source, NEW words \in Words
  PROVE  Said(source, words) \in RunError /\ Said(source, words).status = 0
BY DEF Said, RunError, Class

LEMMA ErrorsOfKind ==
  ASSUME NEW m \in Message PROVE ErrorsOf(m) \in Seq(RunError)
<1>1. \A words \in Words : Said("message", words) \in RunError
  BY SaidKind DEF Source
<1> QED
  BY <1>1 DEF ErrorsOf, Message, Words

\* Classified a second time, a rate limit stays retryable.
LEMMA RateLimitIsRetried ==
  ASSUME NEW e, e.status = 429, e.words # "auth" PROVE Retryable(Classified(e))
BY DEF Retryable, Classified

-----------------------------------------------------------------------------
(* Steps that leave a run, or its verdict, alone *)

Same(s) ==
  /\ pc'[s] = pc[s] /\ agent'[s] = agent[s] /\ drain'[s] = drain[s] /\ late'[s] = late[s]
  /\ messages'[s] = messages[s]
  /\ messages'[s] = messages[s]
  /\ messages'[s] = messages[s]
  /\ messages'[s] = messages[s]
  /\ messages'[s] = messages[s]
  /\ messages'[s] = messages[s]
  /\ messages'[s] = messages[s]
  /\ messages'[s] = messages[s]
  /\ result'[s] = result[s] /\ cancelBy'[s] = cancelBy[s] /\ errs'[s] = errs[s]
  /\ managed'[s] = managed[s] /\ timer'[s] = timer[s]
  /\ verdict'[s] = verdict[s] /\ status'[s] = status[s]

LEMMA VerdictStays ==
  ASSUME NEW s \in Run, VerdictIsWhole(s), verdict'[s] = verdict[s],
         verdict[s] = Undecided \/ result'[s] = result[s],
         Cancelled(s) => cancelBy'[s] = cancelBy[s]
  PROVE  VerdictIsWhole(s)'
BY DEF VerdictIsWhole, StatusOfResult, Cancelled

LEMMA SameStaysWhole ==
  ASSUME NEW s \in Run, RunIsWhole(s), Same(s) PROVE RunIsWhole(s)'
<1>1. VerdictIsWhole(s)'
  BY VerdictStays DEF RunIsWhole, Same, Cancelled
<1> QED
  BY <1>1 DEF RunIsWhole, Same, StartIsAlone, VerdictIsFinal, AgentIsReleased, StreamIsAwaited,
              Cancelled

\* A step of one run is well typed, and leaves that run whole.
LEMMA OneRunSteps ==
  ASSUME CursorInvariant, NEW r \in Run, CursorTyped', RunIsWhole(r)',
         \A s \in Run \ {r} : Same(s)
  PROVE  CursorInvariant'
BY SameStaysWhole DEF CursorInvariant

LEMMA UntouchedKeeps == CursorInvariant /\ UNCHANGED cursorVars => CursorInvariant'
<1> SUFFICES ASSUME CursorInvariant, UNCHANGED cursorVars PROVE CursorInvariant'
  OBVIOUS
<1>1. CursorTyped'
  BY DEF CursorInvariant, CursorTyped, cursorVars, ends, reading, control, files
<1> QED
  BY <1>1, SameStaysWhole
     DEF CursorInvariant, Same, cursorVars, ends, reading, control, files

-----------------------------------------------------------------------------
(* Before there is a run of the SDK *)

LEMMA SnapshotKeeps ==
  ASSUME CursorInvariant, NEW r \in Run, TakeSnapshot(r) PROVE CursorInvariant'
<1> USE DEF ends, reading, control
<1>1. /\ pc[r] = "new" /\ pc' = [pc EXCEPT ![r] = "idle"]
      /\ snapshot' \in [Run -> Snapshot] /\ troubles' \in 0..MaxTrouble
      /\ UNCHANGED <<sdk, ends, reading, control, managed, status, head, work, edits>>
  <2>1. CaptureGitSnapshot(head, work) \in Snapshot
    BY DEF CursorInvariant, CursorTyped, Snapshot
  <2>2. snapshot \in [Run -> Snapshot] /\ troubles \in 0..MaxTrouble
    BY DEF CursorInvariant, CursorTyped
  <2>3. snapshot' = snapshot \/ snapshot' = [snapshot EXCEPT ![r] = CaptureGitSnapshot(head, work)]
    BY DEF TakeSnapshot
  <2>4. snapshot' \in [Run -> Snapshot]
    BY <2>1, <2>2, <2>3
  <2>5. troubles' \in 0..MaxTrouble
    BY <2>2 DEF TakeSnapshot, Fails
  <2> QED
    BY <2>4, <2>5 DEF TakeSnapshot, Goes
<1>2. CursorTyped'
  BY <1>1 DEF CursorInvariant, CursorTyped, Stage, Starting, Reading, Settled
<1>3. RunIsWhole(r)'
  <2>1. VerdictIsWhole(r)'
    BY <1>1, VerdictStays DEF CursorInvariant, CursorTyped, RunIsWhole, VerdictIsFinal, Cancelled, Settled
  <2> QED
    BY <1>1, <2>1 DEF CursorInvariant, CursorTyped, RunIsWhole, StartIsAlone, VerdictIsFinal,
                AgentIsReleased, StreamIsAwaited, Cancelled, Starting, Reading, Settled
<1>4. \A s \in Run \ {r} : Same(s)
  BY <1>1 DEF Same, CursorInvariant, CursorTyped
<1> QED
  BY <1>2, <1>3, <1>4, OneRunSteps

LEMMA VerdictKind ==
  ASSUME NEW st \in Final \cup {"running"}, NEW worker \in WorkerStatus,
         NEW errors \in Seq(RunError), NEW latest \in Latest,
         NEW changed \in SUBSET File, NEW git \in BOOLEAN
  PROVE  [status |-> st, worker |-> worker, errors |-> errors, latest |-> latest,
          files |-> changed, git |-> git] \in Verdict
BY DEF Verdict

LEMMA PreSpawnVerdict ==
  ASSUME NEW e \in SdkError, NEW category \in Latest, category = Category(e) \/ e.status = 0,
         NEW v, v = [Undecided EXCEPT !.status = "failed", !.worker = "failed",
                                      !.errors = <<From("pre_spawn", e)>>, !.latest = category]
  PROVE  v \in Verdict /\ WholeVerdict(v) /\ v.status = "failed" /\ v.git = FALSE
<1>1. From("pre_spawn", e) \in RunError /\ Category(From("pre_spawn", e)) = Category(e)
  BY FromKeeps DEF Source
<1>2. From("pre_spawn", e).status = e.status
  BY DEF From
<1>3. /\ v.status = "failed" /\ v.worker = "failed" /\ v.errors = <<From("pre_spawn", e)>>
      /\ v.latest = category /\ v.git = FALSE
  BY DEF Undecided
<1>4. v \in Verdict
  <2>1. v = [status |-> "failed", worker |-> "failed", errors |-> <<From("pre_spawn", e)>>,
             latest |-> category, files |-> {}, git |-> FALSE]
    BY DEF Undecided
  <2>2. <<From("pre_spawn", e)>> \in Seq(RunError)
    BY <1>1
  <2> QED
    <3>1. "failed" \in Final \cup {"running"} /\ "failed" \in WorkerStatus
      BY DEF Final, WorkerStatus
    <3>2. {} \in SUBSET File /\ FALSE \in BOOLEAN
      OBVIOUS
    <3>3. [status |-> "failed", worker |-> "failed", errors |-> <<From("pre_spawn", e)>>,
           latest |-> category, files |-> {}, git |-> FALSE] \in Verdict
      BY <2>2, <3>1, <3>2, VerdictKind, Zenon
    <3> QED
      BY <2>1, <3>3, Zenon
<1>5. Head(v.errors) = From("pre_spawn", e)
  BY <1>3
<1>6. WholeVerdict(v)
  BY <1>1, <1>2, <1>3, <1>5 DEF WholeVerdict
<1> QED
  BY <1>3, <1>4, <1>6

LEMMA FailedStartKeeps ==
  ASSUME CursorInvariant, NEW r \in Run, NEW from \in Starting,
         NEW e \in SdkError, NEW category \in Latest, category = Category(e) \/ e.status = 0,
         FailPreSpawn(r, from, e, category),
         agent' = agent \/ agent' = [agent EXCEPT ![r] = "closed"], agent'[r] # "open",
         sdk' = sdk \/ sdk' = "missing", UNCHANGED <<managed, timer, fresh, Spawning>>
  PROVE  CursorInvariant'
<1> USE DEF Spawning, reading, files
<1>0. pc[r] = from /\ pc' = [pc EXCEPT ![r] = "done"]
  BY DEF FailPreSpawn, Goes
<1>1. status' = [status EXCEPT ![r] = "failed"]
  BY DEF FailPreSpawn
<1>2. PICK v \in Verdict : /\ verdict' = [verdict EXCEPT ![r] = v]
                           /\ WholeVerdict(v) /\ v.status = "failed"
  BY PreSpawnVerdict DEF FailPreSpawn
<1>3. CursorTyped'
  <2>1. sdk' \in {"unknown", "ok", "missing"} /\ agent' \in [Run -> {"none", "open", "closed"}]
    BY DEF CursorInvariant, CursorTyped
  <2>2. "done" \in Stage /\ "failed" \in Final \cup {"running"}
    BY DEF Stage, Settled, Final
  <2>3. pc' \in [Run -> Stage] /\ status' \in [Run -> Final \cup {"running"}]
    BY <1>0, <1>1, <2>2 DEF CursorInvariant, CursorTyped
  <2>4. verdict' \in [Run -> Verdict]
    BY <1>2 DEF CursorInvariant, CursorTyped
  <2> QED
    BY <2>1, <2>3, <2>4 DEF CursorInvariant, CursorTyped
<1>4. verdict'[r] = v /\ pc'[r] = "done"
  BY <1>0, <1>2 DEF CursorInvariant, CursorTyped
<1>5. VerdictIsWhole(r)'
  <2>1. result'[r] = "null"
    BY <1>0 DEF CursorInvariant, RunIsWhole, StartIsAlone
  <2>2. StatusOfResult(r)' = "failed"
    BY <2>1 DEF StatusOfResult
  <2> QED
    BY <1>2, <1>4, <2>2 DEF VerdictIsWhole
<1>6. RunIsWhole(r)'
  BY <1>0, <1>1, <1>2, <1>4, <1>5
     DEF CursorInvariant, CursorTyped, RunIsWhole, StartIsAlone, VerdictIsFinal,
         AgentIsReleased, StreamIsAwaited, Cancelled, Starting, Reading, Settled
<1> QED
  <2>1. \A s \in Run \ {r} : Same(s)
    BY <1>0, <1>1, <1>2 DEF Same, CursorInvariant, CursorTyped
  <2> QED
    BY <1>3, <1>6, <2>1, OneRunSteps

LEMMA KnownErrors ==
  /\ NoModule \in SdkError /\ NoModule.status = 0
  /\ NoKey \in SdkError /\ NoKey.status = 0
  /\ "worker_binary_missing" \in Latest /\ "auth" \in Latest
BY DEF NoModule, NoKey, SdkError, Class, Words, Latest, Categories

\* What has no agent yet has none to release.
LEMMA NoAgentYet ==
  ASSUME CursorInvariant, NEW r \in Run, pc[r] \in {"new", "idle", "probe", "key", "create"}
  PROVE  agent[r] # "open"
BY DEF CursorInvariant, RunIsWhole, AgentIsReleased, Reading

LEMMA SdkCategory == ASSUME NEW e \in SdkError PROVE Category(e) \in Latest
<1>1. From("stream", e) \in RunError /\ Category(From("stream", e)) = Category(e)
  BY FromKeeps DEF Source
<1> QED
  BY <1>1, CategoryKind DEF Latest

LEMMA ProbeKeeps ==
  ASSUME CursorInvariant, NEW r \in Run, Probe(r) PROVE CursorInvariant'
<1>1. CASE /\ Goes(r, "idle", IF sdk = "ok" THEN "key" ELSE "probe")
              /\ UNCHANGED <<sdk, agent, managed, timer, fresh, status, verdict, Spawning>>
  <2> USE <1>1 DEF Spawning, Goes, reading, files
  <2>1. CursorTyped'
    BY DEF CursorInvariant, CursorTyped, Stage, Starting, Reading, Settled
  <2>2. VerdictIsWhole(r)'
    BY VerdictStays DEF CursorInvariant, CursorTyped, RunIsWhole, VerdictIsFinal, Cancelled, Settled
  <2>3. RunIsWhole(r)'
    BY <2>2 DEF CursorInvariant, CursorTyped, RunIsWhole, StartIsAlone, VerdictIsFinal,
                AgentIsReleased, StreamIsAwaited, Cancelled, Starting, Reading, Settled
  <2> QED
    BY <2>1, <2>3, OneRunSteps DEF Same, CursorInvariant, CursorTyped
<1>2. CASE /\ FailPreSpawn(r, "idle", NoModule, "worker_binary_missing")
              /\ UNCHANGED <<sdk, agent, managed, timer, fresh, Spawning>>
  BY <1>2, KnownErrors, NoAgentYet, FailedStartKeeps DEF FailPreSpawn, Goes, Starting
<1> QED
  BY <1>1, <1>2 DEF Probe

LEMMA ImportedKeeps ==
  ASSUME CursorInvariant, NEW r \in Run, Imported(r) PROVE CursorInvariant'
<1>1. CASE /\ Goes(r, "probe", "key") /\ sdk' = "ok"
              /\ UNCHANGED <<agent, managed, timer, fresh, status, verdict, Spawning>>
  <2> USE <1>1 DEF Spawning, Goes, reading, files
  <2>1. CursorTyped'
    BY DEF CursorInvariant, CursorTyped, Stage, Starting, Reading, Settled
  <2>2. VerdictIsWhole(r)'
    BY VerdictStays DEF CursorInvariant, CursorTyped, RunIsWhole, VerdictIsFinal, Cancelled, Settled
  <2>3. RunIsWhole(r)'
    BY <2>2 DEF CursorInvariant, CursorTyped, RunIsWhole, StartIsAlone, VerdictIsFinal,
                AgentIsReleased, StreamIsAwaited, Cancelled, Starting, Reading, Settled
  <2> QED
    BY <2>1, <2>3, OneRunSteps DEF Same, CursorInvariant, CursorTyped
<1>2. CASE /\ FailPreSpawn(r, "probe", NoModule, "worker_binary_missing") /\ sdk' = "missing"
              /\ UNCHANGED <<agent, managed, timer, fresh, Spawning>>
  BY <1>2, KnownErrors, NoAgentYet, FailedStartKeeps DEF FailPreSpawn, Goes, Starting
<1> QED
  BY <1>1, <1>2 DEF Imported

LEMMA CheckKeyKeeps ==
  ASSUME CursorInvariant, NEW r \in Run, CheckKey(r) PROVE CursorInvariant'
<1>1. CASE /\ Goes(r, "key", "create")
              /\ UNCHANGED <<sdk, agent, managed, timer, fresh, status, verdict, Spawning>>
  <2> USE <1>1 DEF Spawning, Goes, reading, files
  <2>1. CursorTyped'
    BY DEF CursorInvariant, CursorTyped, Stage, Starting, Reading, Settled
  <2>2. VerdictIsWhole(r)'
    BY VerdictStays DEF CursorInvariant, CursorTyped, RunIsWhole, VerdictIsFinal, Cancelled, Settled
  <2>3. RunIsWhole(r)'
    BY <2>2 DEF CursorInvariant, CursorTyped, RunIsWhole, StartIsAlone, VerdictIsFinal,
                AgentIsReleased, StreamIsAwaited, Cancelled, Starting, Reading, Settled
  <2> QED
    BY <2>1, <2>3, OneRunSteps DEF Same, CursorInvariant, CursorTyped
<1>2. CASE /\ FailPreSpawn(r, "key", NoKey, "auth")
              /\ UNCHANGED <<sdk, agent, managed, timer, fresh, Spawning>>
  BY <1>2, KnownErrors, NoAgentYet, FailedStartKeeps DEF FailPreSpawn, Goes, Starting
<1> QED
  BY <1>1, <1>2 DEF CheckKey

LEMMA CreateAgentKeeps ==
  ASSUME CursorInvariant, NEW r \in Run, CreateAgent(r) PROVE CursorInvariant'
<1>1. CASE /\ Goes(r, "create", "send") /\ agent' = [agent EXCEPT ![r] = "open"]
              /\ UNCHANGED <<sdk, managed, timer, fresh, status, verdict, Spawning>>
  <2> USE <1>1 DEF Spawning, Goes, reading, files
  <2>1. CursorTyped'
    BY DEF CursorInvariant, CursorTyped, Stage, Starting, Reading, Settled
  <2>2. VerdictIsWhole(r)'
    BY VerdictStays DEF CursorInvariant, CursorTyped, RunIsWhole, VerdictIsFinal, Cancelled, Settled
  <2>3. RunIsWhole(r)'
    BY <2>2 DEF CursorInvariant, CursorTyped, RunIsWhole, StartIsAlone, VerdictIsFinal,
                AgentIsReleased, StreamIsAwaited, Cancelled, Starting, Reading, Settled
  <2> QED
    BY <2>1, <2>3, OneRunSteps DEF Same, CursorInvariant, CursorTyped
<1>2. CASE /\ \E e \in Raised : FailPreSpawn(r, "create", e, Category(e))
              /\ UNCHANGED <<sdk, agent, managed, timer, fresh, Spawning>>
  <2>1. PICK e \in SdkError : FailPreSpawn(r, "create", e, Category(e))
    BY <1>2
  <2> QED
    BY <1>2, <2>1, SdkCategory, NoAgentYet, FailedStartKeeps DEF FailPreSpawn, Goes, Starting
<1> QED
  BY <1>1, <1>2 DEF CreateAgent

LEMMA SendKeeps ==
  ASSUME CursorInvariant, NEW r \in Run, Send(r) PROVE CursorInvariant'
<1>1. CASE /\ Goes(r, "send", "begin")
              /\ managed' = [managed EXCEPT ![r] = TRUE] /\ timer' = [timer EXCEPT ![r] = TRUE]
              /\ fresh' = [fresh EXCEPT ![r] = TRUE]
              /\ UNCHANGED <<sdk, agent, status, verdict, Spawning>>
  <2> USE <1>1 DEF Spawning, Goes, reading, files
  <2>1. CursorTyped'
    BY DEF CursorInvariant, CursorTyped, Stage, Starting, Reading, Settled
  <2>2. VerdictIsWhole(r)'
    BY VerdictStays DEF CursorInvariant, CursorTyped, RunIsWhole, VerdictIsFinal, Cancelled, Settled
  <2>3. RunIsWhole(r)'
    BY <2>2 DEF CursorInvariant, CursorTyped, RunIsWhole, StartIsAlone, VerdictIsFinal,
                AgentIsReleased, StreamIsAwaited, Cancelled, Starting, Reading, Settled
  <2> QED
    BY <2>1, <2>3, OneRunSteps DEF Same, CursorInvariant, CursorTyped
<1>2. CASE SendFailed(r) /\ UNCHANGED <<sdk, managed, timer, fresh, Spawning>>
  <2>1. PICK e \in SdkError : /\ FailPreSpawn(r, "send", e, Category(e))
                              /\ agent' = [agent EXCEPT ![r] = "closed"]
    BY <1>2 DEF SendFailed
  <2>2. agent'[r] # "open"
    BY <2>1 DEF CursorInvariant, CursorTyped
  <2> QED
    BY <1>2, <2>1, <2>2, SdkCategory, FailedStartKeeps DEF FailPreSpawn, Goes, Starting
<1> QED
  BY <1>1, <1>2 DEF Send

\* Errors that are noted are errors of a run.
LEMMA ErrsTyped ==
  ASSUME CursorTyped, NEW r \in Run, NEW x \in RunError, Errs(r, x)
  PROVE  errs' \in [Run -> Seq(RunError)] /\ \A s \in Run \ {r} : errs'[s] = errs[s]
BY DEF CursorTyped, Errs

-----------------------------------------------------------------------------
(* The coroutine that reads the stream *)

LEMMA BeginKeeps ==
  ASSUME CursorInvariant, NEW r \in Run, Begin(r) PROVE CursorInvariant'
<1> USE DEF Begin, Goes, Fails, ends, reading, control, files
<1>1. CursorTyped'
  BY DEF CursorInvariant, CursorTyped, Stage, Starting, Reading, Settled
<1>2. RunIsWhole(r)'
  <2>1. VerdictIsWhole(r)'
    BY VerdictStays DEF CursorInvariant, CursorTyped, RunIsWhole, VerdictIsFinal, Cancelled, Settled
  <2> QED
    BY <2>1 DEF CursorInvariant, CursorTyped, RunIsWhole, StartIsAlone, VerdictIsFinal,
                AgentIsReleased, StreamIsAwaited, Cancelled, Starting, Reading, Settled
<1> QED
  BY <1>1, <1>2, OneRunSteps DEF Same, CursorInvariant, CursorTyped

LEMMA BeginFailsKeeps ==
  ASSUME CursorInvariant, NEW r \in Run, BeginFails(r) PROVE CursorInvariant'
<1> USE DEF BeginFails, Goes, Fails, ends, reading, control, files
<1>1. CursorTyped'
  BY DEF CursorInvariant, CursorTyped, Stage, Starting, Reading, Settled
<1>2. RunIsWhole(r)'
  <2>1. VerdictIsWhole(r)'
    BY VerdictStays DEF CursorInvariant, CursorTyped, RunIsWhole, VerdictIsFinal, Cancelled, Settled
  <2> QED
    BY <2>1 DEF CursorInvariant, CursorTyped, RunIsWhole, StartIsAlone, VerdictIsFinal,
                AgentIsReleased, StreamIsAwaited, Cancelled, Starting, Reading, Settled
<1> QED
  BY <1>1, <1>2, OneRunSteps DEF Same, CursorInvariant, CursorTyped

LEMMA ProcessMessageKeeps ==
  ASSUME CursorInvariant, NEW r \in Run, ProcessMessage(r) PROVE CursorInvariant'
<1> USE DEF ends, files
<1>1. /\ drain[r] = "reading"
      /\ messages' = [messages EXCEPT ![r] = @ + 1] /\ messages' \in [Run -> 0..MaxMessage]
      /\ named' \in [Run -> SUBSET File]
      /\ errs' \in [Run -> Seq(RunError)] /\ \A s \in Run \ {r} : errs'[s] = errs[s]
      /\ late' = [late EXCEPT ![r] = IF status[r] = "running" THEN @ ELSE @ + 1]
      /\ late' \in [Run -> 0..MaxMessage]
      /\ fresh' = [fresh EXCEPT ![r] = TRUE]
      /\ UNCHANGED <<sdk, pc, ends, stream, drain, cancelBy, patience, timer, managed, status, files,
                     troubles>>
  <2>1. PICK m \in Message : /\ named' = [named EXCEPT ![r] = @ \cup FilesOf(m)]
                             /\ errs' = [errs EXCEPT ![r] = @ \o ErrorsOf(m)]
    BY DEF ProcessMessage
  <2>2. FilesOf(m) \in SUBSET File
    BY DEF FilesOf, Message
  <2>3. errs' \in [Run -> Seq(RunError)] /\ \A s \in Run \ {r} : errs'[s] = errs[s]
    BY <2>1, ErrorsOfKind DEF CursorInvariant, CursorTyped
  <2>4. named' \in [Run -> SUBSET File]
    BY <2>1, <2>2 DEF CursorInvariant, CursorTyped
  <2>5. messages' \in [Run -> 0..MaxMessage]
    BY DEF CursorInvariant, CursorTyped, ProcessMessage
  <2>6. late[r] <= messages[r]
    BY DEF CursorInvariant, CursorTyped, RunIsWhole, StreamIsAwaited
  <2>7. late' \in [Run -> 0..MaxMessage]
    BY <2>6 DEF CursorInvariant, CursorTyped, ProcessMessage
  <2> QED
    BY <2>3, <2>4, <2>5, <2>7 DEF ProcessMessage
<1>2. CursorTyped'
  BY <1>1 DEF CursorInvariant, CursorTyped, Stage, Starting, Reading, Settled
<1>3. RunIsWhole(r)'
  <2>1. VerdictIsWhole(r)'
    BY <1>1, VerdictStays DEF CursorInvariant, CursorTyped, RunIsWhole, VerdictIsFinal, Cancelled, Settled
  <2> QED
    BY <1>1, <2>1 DEF CursorInvariant, CursorTyped, RunIsWhole, StartIsAlone, VerdictIsFinal,
                AgentIsReleased, StreamIsAwaited, Cancelled, Starting, Reading, Settled
<1>4. \A s \in Run \ {r} : Same(s)
  BY <1>1 DEF Same, CursorInvariant, CursorTyped
<1> QED
  BY <1>2, <1>3, <1>4, OneRunSteps

LEMMA ProcessingFailsKeeps ==
  ASSUME CursorInvariant, NEW r \in Run, ProcessingFails(r) PROVE CursorInvariant'
<1> USE DEF ends, files
<1>1. /\ drain[r] = "reading" /\ drain' = [drain EXCEPT ![r] = "over"]
      /\ errs' \in [Run -> Seq(RunError)] /\ \A s \in Run \ {r} : errs'[s] = errs[s]
      /\ fresh' = [fresh EXCEPT ![r] = TRUE] /\ troubles' \in 0..MaxTrouble
      /\ UNCHANGED <<sdk, pc, ends, stream, messages, named, late, cancelBy, patience, timer, managed,
                     status, files>>
  <2>1. Said("stream", "plain") \in RunError
    BY SaidKind DEF Source, Words
  <2> QED
    BY <2>1, ErrsTyped DEF ProcessingFails, Fails, CursorInvariant, CursorTyped
<1>2. CursorTyped'
  BY <1>1 DEF CursorInvariant, CursorTyped, Stage, Starting, Reading, Settled
<1>3. RunIsWhole(r)'
  <2>1. VerdictIsWhole(r)'
    BY <1>1, VerdictStays DEF CursorInvariant, CursorTyped, RunIsWhole, VerdictIsFinal, Cancelled, Settled
  <2> QED
    BY <1>1, <2>1 DEF CursorInvariant, CursorTyped, RunIsWhole, StartIsAlone, VerdictIsFinal,
                AgentIsReleased, StreamIsAwaited, Cancelled, Starting, Reading, Settled
<1>4. \A s \in Run \ {r} : Same(s)
  BY <1>1 DEF Same, CursorInvariant, CursorTyped
<1> QED
  BY <1>2, <1>3, <1>4, OneRunSteps

LEMMA DrainEndsKeeps ==
  ASSUME CursorInvariant, NEW r \in Run, DrainEnds(r) PROVE CursorInvariant'
<1> USE DEF ends, files, control
<1>1. /\ drain[r] = "reading"
      /\ drain' = [drain EXCEPT ![r] = "over"] \/ drain' = [drain EXCEPT ![r] = "broken"]
      /\ errs' \in [Run -> Seq(RunError)] /\ \A s \in Run \ {r} : errs'[s] = errs[s]
      /\ troubles' \in 0..MaxTrouble
      /\ UNCHANGED <<sdk, pc, ends, stream, messages, named, late, control, managed, status, files>>
  <2>1. CASE UNCHANGED <<errs, troubles>> /\ drain' = [drain EXCEPT ![r] = "over"]
    BY <2>1 DEF DrainEnds, CursorInvariant, CursorTyped
  <2>2. ASSUME NEW e \in Raised, Errs(r, From("stream", e))
        PROVE  errs' \in [Run -> Seq(RunError)] /\ \A s \in Run \ {r} : errs'[s] = errs[s]
    <3>1. From("stream", e) \in RunError
      BY FromKeeps DEF Source
    <3> QED
      BY <2>2, <3>1, ErrsTyped DEF CursorInvariant
  <2> QED
    BY <2>1, <2>2 DEF DrainEnds, Fails, CursorInvariant, CursorTyped
<1>2. CursorTyped'
  BY <1>1 DEF CursorInvariant, CursorTyped, Stage, Starting, Reading, Settled
<1>3. RunIsWhole(r)'
  <2>1. VerdictIsWhole(r)'
    BY <1>1, VerdictStays DEF CursorInvariant, CursorTyped, RunIsWhole, VerdictIsFinal, Cancelled, Settled
  <2> QED
    BY <1>1, <2>1 DEF CursorInvariant, CursorTyped, RunIsWhole, StartIsAlone, VerdictIsFinal,
                AgentIsReleased, StreamIsAwaited, Cancelled, Starting, Reading, Settled
<1>4. \A s \in Run \ {r} : Same(s)
  BY <1>1 DEF Same, CursorInvariant, CursorTyped
<1> QED
  BY <1>2, <1>3, <1>4, OneRunSteps

-----------------------------------------------------------------------------
(* drainAndFinalize *)

LEMMA DrainRaceKeeps ==
  ASSUME CursorInvariant, NEW r \in Run, DrainRace(r) PROVE CursorInvariant'
<1> USE DEF ends, files, control
<1>1. /\ pc[r] = "race" /\ drain' = drain
      /\ errs' \in [Run -> Seq(RunError)] /\ \A s \in Run \ {r} : errs'[s] = errs[s]
      /\ patience' \in [Run -> BOOLEAN]
      /\ \/ Cancelled(r) /\ pc' = [pc EXCEPT ![r] = "grace"]
         \/ drain[r] # "reading" /\ pc' = [pc EXCEPT ![r] = "wait"]
         \/ drain[r] # "reading" /\ pc' = [pc EXCEPT ![r] = "dispose"]
      /\ UNCHANGED <<sdk, ends, stream, messages, named, late, cancelBy, timer, fresh, managed, status,
                     files, troubles>>
  <2>1. Said("stream", "plain") \in RunError
    BY SaidKind DEF Source, Words
  <2>2. CASE UNCHANGED errs
    BY <2>2 DEF DrainRace, DrainThrows, StreamDone, Goes, CursorInvariant, CursorTyped
  <2>3. CASE Errs(r, Said("stream", "plain"))
    BY <2>1, <2>3, ErrsTyped DEF DrainRace, DrainThrows, StreamDone, Goes, CursorInvariant, CursorTyped
  <2> QED
    BY <2>2, <2>3 DEF DrainRace, DrainThrows
<1>2. CursorTyped'
  <2>1. pc' \in [Run -> Stage]
    <3>1. "grace" \in Stage /\ "wait" \in Stage /\ "dispose" \in Stage
      BY DEF Stage, Reading
    <3>2. PICK x \in Stage : pc' = [pc EXCEPT ![r] = x]
      BY <1>1, <3>1
    <3>3. pc \in [Run -> Stage]
      BY DEF CursorInvariant, CursorTyped
    <3> QED
      BY <3>2, <3>3
  <2> QED
    BY <1>1, <2>1 DEF CursorInvariant, CursorTyped
<1>3. RunIsWhole(r)'
  <2>1. VerdictIsWhole(r)'
    BY <1>1, VerdictStays DEF CursorInvariant, CursorTyped, RunIsWhole, VerdictIsFinal, Cancelled, Settled
  <2> QED
    BY <1>1, <2>1 DEF CursorInvariant, CursorTyped, RunIsWhole, StartIsAlone, VerdictIsFinal,
                AgentIsReleased, StreamIsAwaited, Cancelled, Starting, Reading, Settled
<1>4. \A s \in Run \ {r} : Same(s)
  BY <1>1 DEF Same, CursorInvariant, CursorTyped
<1> QED
  BY <1>2, <1>3, <1>4, OneRunSteps

LEMMA PatienceKeeps ==
  ASSUME CursorInvariant, NEW r \in Run, PatienceRunsOut(r) PROVE CursorInvariant'
<1> USE DEF PatienceRunsOut, Goes, Fails, ends, reading, control, files
<1>1. CursorTyped'
  BY DEF CursorInvariant, CursorTyped, Stage, Starting, Reading, Settled
<1>2. RunIsWhole(r)'
  <2>1. VerdictIsWhole(r)'
    BY VerdictStays DEF CursorInvariant, CursorTyped, RunIsWhole, VerdictIsFinal, Cancelled, Settled
  <2> QED
    BY <2>1 DEF CursorInvariant, CursorTyped, RunIsWhole, StartIsAlone, VerdictIsFinal,
                AgentIsReleased, StreamIsAwaited, Cancelled, Starting, Reading, Settled
<1> QED
  BY <1>1, <1>2, OneRunSteps DEF Same, CursorInvariant, CursorTyped

LEMMA DrainGraceKeeps ==
  ASSUME CursorInvariant, NEW r \in Run, DrainGrace(r) PROVE CursorInvariant'
<1> USE DEF ends, files, control
<1>1. /\ pc[r] = "grace" /\ drain' = drain
      /\ errs' \in [Run -> Seq(RunError)] /\ \A s \in Run \ {r} : errs'[s] = errs[s]
      /\ patience' \in [Run -> BOOLEAN]
      /\ \/ pc' = [pc EXCEPT ![r] = "wait"]
         \/ pc' = [pc EXCEPT ![r] = "dispose"]
      /\ UNCHANGED <<sdk, ends, stream, messages, named, late, cancelBy, timer, fresh, managed, status,
                     files, troubles>>
  <2>1. Said("stream", "plain") \in RunError
    BY SaidKind DEF Source, Words
  <2>2. CASE UNCHANGED errs
    BY <2>2 DEF DrainGrace, DrainThrows, StreamDone, Goes, CursorInvariant, CursorTyped
  <2>3. CASE Errs(r, Said("stream", "plain"))
    BY <2>1, <2>3, ErrsTyped DEF DrainGrace, DrainThrows, StreamDone, Goes, CursorInvariant, CursorTyped
  <2> QED
    BY <2>2, <2>3 DEF DrainGrace, DrainThrows
<1>2. CursorTyped'
  <2>1. pc' \in [Run -> Stage]
    <3>1. "grace" \in Stage /\ "wait" \in Stage /\ "dispose" \in Stage
      BY DEF Stage, Reading
    <3>2. PICK x \in Stage : pc' = [pc EXCEPT ![r] = x]
      BY <1>1, <3>1
    <3>3. pc \in [Run -> Stage]
      BY DEF CursorInvariant, CursorTyped
    <3> QED
      BY <3>2, <3>3
  <2> QED
    BY <1>1, <2>1 DEF CursorInvariant, CursorTyped
<1>3. RunIsWhole(r)'
  <2>1. VerdictIsWhole(r)'
    BY <1>1, VerdictStays DEF CursorInvariant, CursorTyped, RunIsWhole, VerdictIsFinal, Cancelled, Settled
  <2> QED
    BY <1>1, <2>1 DEF CursorInvariant, CursorTyped, RunIsWhole, StartIsAlone, VerdictIsFinal,
                AgentIsReleased, StreamIsAwaited, Cancelled, Starting, Reading, Settled
<1>4. \A s \in Run \ {r} : Same(s)
  BY <1>1 DEF Same, CursorInvariant, CursorTyped
<1> QED
  BY <1>2, <1>3, <1>4, OneRunSteps

LEMMA AnswerTyped ==
  ASSUME CursorInvariant, NEW r \in Run, Answered(r)
  PROVE  /\ errs' \in [Run -> Seq(RunError)] /\ \A s \in Run \ {r} : errs'[s] = errs[s]
         /\ result' \in [Run -> SdkResult \cup {"null"}]
         /\ \A s \in Run \ {r} : result'[s] = result[s]
<1>1. ASSUME NEW e \in Raised, Errs(r, From("wait", e))
      PROVE  errs' \in [Run -> Seq(RunError)] /\ \A s \in Run \ {r} : errs'[s] = errs[s]
  <2>1. From("wait", e) \in RunError
    BY FromKeeps DEF Source
  <2> QED
    BY <1>1, <2>1, ErrsTyped DEF CursorInvariant
<1>2. CASE outcome[r] = "rejected"
  BY <1>1, <1>2 DEF Answered, CursorInvariant, CursorTyped
<1>3. CASE outcome[r] # "rejected"
  <2>1. outcome[r] \in SdkResult
    BY <1>3 DEF Answered, CursorInvariant, CursorTyped
  <2> QED
    <3>1. result' = [result EXCEPT ![r] = outcome[r]] /\ UNCHANGED errs
      BY <1>3 DEF Answered
    <3> QED
      BY <3>1, <2>1 DEF CursorInvariant, CursorTyped
<1> QED
  BY <1>2, <1>3

LEMMA WaitRaceKeeps ==
  ASSUME CursorInvariant, NEW r \in Run, WaitRace(r) PROVE CursorInvariant'
<1>1. /\ pc[r] = "wait" /\ pc' \in [Run -> Stage] /\ \A s \in Run \ {r} : pc'[s] = pc[s]
      /\ pc'[r] = "dispose" \/ (Cancelled(r) /\ pc'[r] = "waitGrace")
      /\ errs' \in [Run -> Seq(RunError)] /\ \A s \in Run \ {r} : errs'[s] = errs[s]
      /\ result' \in [Run -> SdkResult \cup {"null"}]
      /\ \A s \in Run \ {r} : result'[s] = result[s]
      /\ patience' \in [Run -> BOOLEAN]
      /\ UNCHANGED <<sdk, agent, outcome, verdict, stream, drain, messages, named, late, cancelBy,
                     timer, fresh, managed, status, head, work, snapshot, edits, troubles>>
  <2>1. "dispose" \in Stage /\ "waitGrace" \in Stage
    BY DEF Stage, Reading
  <2>2. CASE Answered(r) /\ pc' = [pc EXCEPT ![r] = "dispose"] /\ UNCHANGED patience
    BY <2>1, <2>2, AnswerTyped DEF WaitRace, Goes, files, CursorInvariant, CursorTyped
  <2>3. CASE /\ pc' = [pc EXCEPT ![r] = "waitGrace"] /\ Cancelled(r)
             /\ patience' = [patience EXCEPT ![r] = FALSE] /\ UNCHANGED <<result, errs>>
    BY <2>1, <2>3 DEF WaitRace, Goes, files, CursorInvariant, CursorTyped
  <2> QED
    BY <2>2, <2>3 DEF WaitRace, Goes
<1>2. CursorTyped'
  BY <1>1 DEF CursorInvariant, CursorTyped
<1>3. RunIsWhole(r)'
  <2>1. VerdictIsWhole(r)'
    BY <1>1, VerdictStays DEF CursorInvariant, CursorTyped, RunIsWhole, VerdictIsFinal, Cancelled, Settled
  <2>2. StartIsAlone(r)'
    BY <1>1 DEF CursorInvariant, CursorTyped, RunIsWhole, StartIsAlone, Starting
  <2>3. VerdictIsFinal(r)'
    BY <1>1 DEF CursorInvariant, CursorTyped, RunIsWhole, VerdictIsFinal, Settled
  <2>4. AgentIsReleased(r)'
    BY <1>1 DEF CursorInvariant, CursorTyped, RunIsWhole, AgentIsReleased, Reading
  <2>5. StreamIsAwaited(r)'
    BY <1>1 DEF CursorInvariant, CursorTyped, RunIsWhole, StreamIsAwaited, Cancelled
  <2> QED
    BY <2>1, <2>2, <2>3, <2>4, <2>5 DEF RunIsWhole
<1>4. \A s \in Run \ {r} : Same(s)
  BY <1>1 DEF Same, CursorInvariant, CursorTyped
<1> QED
  BY <1>2, <1>3, <1>4, OneRunSteps

LEMMA WaitGraceKeeps ==
  ASSUME CursorInvariant, NEW r \in Run, WaitGrace(r) PROVE CursorInvariant'
<1>1. /\ pc[r] = "waitGrace" /\ pc' = [pc EXCEPT ![r] = "dispose"]
      /\ errs' \in [Run -> Seq(RunError)] /\ \A s \in Run \ {r} : errs'[s] = errs[s]
      /\ result' \in [Run -> SdkResult \cup {"null"}]
      /\ \A s \in Run \ {r} : result'[s] = result[s]
      /\ UNCHANGED <<sdk, agent, outcome, verdict, stream, drain, messages, named, late, cancelBy,
                     patience, timer, fresh, managed, status, head, work, snapshot, edits, troubles>>
  <2>1. CASE Answered(r)
    BY <2>1, AnswerTyped DEF WaitGrace, Goes, files, control
  <2>2. CASE ~Answered(r)
    <3>1. PICK x \in SdkResult : result' = [result EXCEPT ![r] = x]
      BY <2>2 DEF WaitGrace
    <3>2. errs' = errs
      BY <2>2 DEF WaitGrace
    <3>3. x \in SdkResult \cup {"null"}
      BY DEF SdkResult
    <3>4. /\ result' \in [Run -> SdkResult \cup {"null"}]
          /\ \A s \in Run \ {r} : result'[s] = result[s]
      BY <3>1, <3>3 DEF CursorInvariant, CursorTyped
    <3> QED
      BY <3>2, <3>4 DEF WaitGrace, Goes, files, control, CursorInvariant, CursorTyped
  <2> QED
    BY <2>1, <2>2
<1>2. CursorTyped'
  BY <1>1 DEF CursorInvariant, CursorTyped, Stage, Starting, Reading, Settled
<1>3. RunIsWhole(r)'
  <2>1. VerdictIsWhole(r)'
    BY <1>1, VerdictStays DEF CursorInvariant, CursorTyped, RunIsWhole, VerdictIsFinal, Cancelled, Settled
  <2>2. StartIsAlone(r)'
    BY <1>1 DEF CursorInvariant, CursorTyped, RunIsWhole, StartIsAlone, Starting
  <2>3. VerdictIsFinal(r)'
    <3>1. "waitGrace" \notin Settled /\ "dispose" \notin Settled /\ "dispose" # "done" /\ "waitGrace" # "done"
      BY DEF Settled
    <3>2. pc'[r] = "dispose" /\ verdict'[r] = verdict[r] /\ status'[r] = status[r]
      BY <1>1 DEF CursorInvariant, CursorTyped
    <3>3. VerdictIsFinal(r)
      BY DEF CursorInvariant, RunIsWhole
    <3> QED
      BY <1>1, <3>1, <3>2, <3>3 DEF VerdictIsFinal
  <2>4. AgentIsReleased(r)'
    BY <1>1 DEF CursorInvariant, CursorTyped, RunIsWhole, AgentIsReleased, Reading
  <2>5. StreamIsAwaited(r)'
    BY <1>1 DEF CursorInvariant, CursorTyped, RunIsWhole, StreamIsAwaited, Cancelled
  <2> QED
    BY <2>1, <2>2, <2>3, <2>4, <2>5 DEF RunIsWhole
<1>4. \A s \in Run \ {r} : Same(s)
  BY <1>1 DEF Same, CursorInvariant, CursorTyped
<1> QED
  BY <1>2, <1>3, <1>4, OneRunSteps

LEMMA DisposeKeeps ==
  ASSUME CursorInvariant, NEW r \in Run, Dispose(r) PROVE CursorInvariant'
<1> USE DEF Dispose, Goes, Fails, ends, reading, control, files
<1>1. CursorTyped'
  BY DEF CursorInvariant, CursorTyped, Stage, Starting, Reading, Settled
<1>2. RunIsWhole(r)'
  <2>1. VerdictIsWhole(r)'
    BY VerdictStays DEF CursorInvariant, CursorTyped, RunIsWhole, VerdictIsFinal, Cancelled, Settled
  <2>2. StartIsAlone(r)' /\ AgentIsReleased(r)'
    BY DEF CursorInvariant, CursorTyped, RunIsWhole, StartIsAlone, AgentIsReleased, Starting, Reading
  <2>3. StreamIsAwaited(r)'
    BY DEF CursorInvariant, CursorTyped, RunIsWhole, StreamIsAwaited, Cancelled
  <2>4. VerdictIsFinal(r)'
    BY DEF CursorInvariant, CursorTyped, RunIsWhole, VerdictIsFinal, Settled
  <2> QED
    BY <2>1, <2>2, <2>3, <2>4 DEF RunIsWhole
<1> QED
  BY <1>1, <1>2, OneRunSteps DEF Same, CursorInvariant, CursorTyped

LEMMA FinishKeeps ==
  ASSUME CursorInvariant, NEW r \in Run, Finish(r) PROVE CursorInvariant'
<1> USE DEF ends, reading, files
<1>1. /\ pc[r] = "write" /\ pc' = [pc EXCEPT ![r] = "done"]
      /\ status' = [status EXCEPT ![r] = verdict[r].status]
      /\ verdict[r].status \in Final \cup {"running"}
      /\ managed' = [managed EXCEPT ![r] = FALSE] /\ timer' = [timer EXCEPT ![r] = FALSE]
      /\ UNCHANGED <<sdk, ends, reading, cancelBy, patience, fresh, files, troubles>>
  <2>1. verdict[r] \in Verdict
    BY DEF CursorInvariant, CursorTyped
  <2>2. verdict[r].status \in Final \cup {"running"}
    BY <2>1 DEF Verdict
  <2> QED
    BY <2>2 DEF Finish, Goes
<1>2. CursorTyped'
  <2>1. "done" \in Stage /\ "broken" \in Stage
    BY DEF Stage, Settled
  <2> QED
    BY <1>1, <2>1 DEF CursorInvariant, CursorTyped
<1>3. RunIsWhole(r)'
  <2>1. VerdictIsWhole(r)'
    BY <1>1, VerdictStays DEF CursorInvariant, CursorTyped, RunIsWhole, VerdictIsFinal, Cancelled, Settled
  <2>2. StartIsAlone(r)'
    BY <1>1 DEF CursorInvariant, CursorTyped, RunIsWhole, StartIsAlone, Starting
  <2>3. VerdictIsFinal(r)'
    BY <1>1 DEF CursorInvariant, CursorTyped, RunIsWhole, VerdictIsFinal, Settled
  <2>4. AgentIsReleased(r)'
    BY <1>1 DEF CursorInvariant, CursorTyped, RunIsWhole, AgentIsReleased, Reading
  <2>5. StreamIsAwaited(r)'
    BY <1>1 DEF CursorInvariant, CursorTyped, RunIsWhole, StreamIsAwaited, Cancelled
  <2> QED
    BY <2>1, <2>2, <2>3, <2>4, <2>5 DEF RunIsWhole
<1>4. \A s \in Run \ {r} : Same(s)
  BY <1>1 DEF Same, CursorInvariant, CursorTyped
<1> QED
  BY <1>2, <1>3, <1>4, OneRunSteps

LEMMA FinalizeFailsKeeps ==
  ASSUME CursorInvariant, NEW r \in Run, FinalizeFails(r) PROVE CursorInvariant'
<1> USE DEF ends, reading, control, files
<1>1. /\ pc[r] \in {"load", "write"} /\ pc' = [pc EXCEPT ![r] = "broken"]
      /\ troubles' \in 0..MaxTrouble
      /\ UNCHANGED <<sdk, ends, reading, control, managed, status, files>>
  BY DEF FinalizeFails, Goes, Fails, CursorInvariant, CursorTyped
<1>2. CursorTyped'
  <2>1. "done" \in Stage /\ "broken" \in Stage
    BY DEF Stage, Settled
  <2> QED
    BY <1>1, <2>1 DEF CursorInvariant, CursorTyped
<1>3. RunIsWhole(r)'
  <2>1. VerdictIsWhole(r)'
    BY <1>1, VerdictStays DEF CursorInvariant, CursorTyped, RunIsWhole, VerdictIsFinal, Cancelled, Settled
  <2>2. StartIsAlone(r)'
    BY <1>1 DEF CursorInvariant, CursorTyped, RunIsWhole, StartIsAlone, Starting
  <2>3. VerdictIsFinal(r)'
    BY <1>1 DEF CursorInvariant, CursorTyped, RunIsWhole, VerdictIsFinal, Settled
  <2>4. AgentIsReleased(r)'
    BY <1>1 DEF CursorInvariant, CursorTyped, RunIsWhole, AgentIsReleased, Reading
  <2>5. StreamIsAwaited(r)'
    BY <1>1 DEF CursorInvariant, CursorTyped, RunIsWhole, StreamIsAwaited, Cancelled
  <2> QED
    BY <2>1, <2>2, <2>3, <2>4, <2>5 DEF RunIsWhole
<1>4. \A s \in Run \ {r} : Same(s)
  BY <1>1 DEF Same, CursorInvariant, CursorTyped
<1> QED
  BY <1>2, <1>3, <1>4, OneRunSteps

-----------------------------------------------------------------------------
(* Cancels, timers, and the SDK *)

LEMMA CancelRunKeeps ==
  ASSUME CursorInvariant, NEW r \in Run, CancelRun(r) PROVE CursorInvariant'
<1> USE DEF CancelRun, Cancel, CancelStatus, Goes, Fails, ends, reading, control, files
<1>1. CursorTyped'
  BY DEF CursorInvariant, CursorTyped, Stage, Starting, Reading, Settled
<1>2. RunIsWhole(r)'
  <2>1. VerdictIsWhole(r)'
    BY VerdictStays DEF CursorInvariant, CursorTyped, RunIsWhole, VerdictIsFinal, Cancelled, Settled
  <2> QED
    BY <2>1 DEF CursorInvariant, CursorTyped, RunIsWhole, StartIsAlone, VerdictIsFinal,
                AgentIsReleased, StreamIsAwaited, Cancelled, Starting, Reading, Settled
<1> QED
  BY <1>1, <1>2, OneRunSteps DEF Same, CursorInvariant, CursorTyped

LEMMA TimerKeeps ==
  ASSUME CursorInvariant, NEW r \in Run, TimerWakes(r) PROVE CursorInvariant'
<1> USE DEF ends, reading, files
<1>1. /\ timer[r]
      /\ cancelBy' \in [Run -> CancelStatus \cup {"none"}]
      /\ cancelBy'[r] = cancelBy[r] \/ ~Cancelled(r)
      /\ \A s \in Run \ {r} : cancelBy'[s] = cancelBy[s] /\ timer'[s] = timer[s]
      /\ fresh' \in [Run -> BOOLEAN] /\ timer' \in [Run -> BOOLEAN]
      /\ UNCHANGED <<sdk, pc, ends, reading, patience, managed, status, files, troubles>>
  <2>1. CASE fresh' = [fresh EXCEPT ![r] = FALSE] /\ UNCHANGED <<timer, cancelBy>>
    BY <2>1 DEF TimerWakes, CursorInvariant, CursorTyped
  <2>2. CASE timer' = [timer EXCEPT ![r] = FALSE] /\ Cancel(r, "timed_out") /\ UNCHANGED fresh
    BY <2>2 DEF TimerWakes, Cancel, Cancelled, CancelStatus, CursorInvariant, CursorTyped
  <2> QED
    BY <2>1, <2>2 DEF TimerWakes
<1>2. CursorTyped'
  BY <1>1 DEF CursorInvariant, CursorTyped
<1>3. RunIsWhole(r)'
  <2>1. VerdictIsWhole(r)'
    BY <1>1, VerdictStays DEF CursorInvariant, CursorTyped, RunIsWhole, VerdictIsFinal, Cancelled, Settled
  <2>2. StartIsAlone(r)'
    BY <1>1 DEF CursorInvariant, CursorTyped, RunIsWhole, StartIsAlone, Starting
  <2>3. VerdictIsFinal(r)'
    BY <1>1 DEF CursorInvariant, CursorTyped, RunIsWhole, VerdictIsFinal, Settled
  <2>4. AgentIsReleased(r)'
    BY <1>1 DEF CursorInvariant, CursorTyped, RunIsWhole, AgentIsReleased, Reading
  <2>5. StreamIsAwaited(r)'
    BY <1>1 DEF CursorInvariant, CursorTyped, RunIsWhole, StreamIsAwaited, Cancelled
  <2> QED
    BY <2>1, <2>2, <2>3, <2>4, <2>5 DEF RunIsWhole
<1>4. \A s \in Run \ {r} : Same(s)
  BY <1>1 DEF Same, CursorInvariant, CursorTyped
<1> QED
  BY <1>2, <1>3, <1>4, OneRunSteps

LEMMA TimeoutKeeps ==
  ASSUME CursorInvariant, NEW r \in Run, ExecutionTimeout(r) PROVE CursorInvariant'
<1> USE DEF ExecutionTimeout, Cancel, CancelStatus, Goes, Fails, ends, reading, control, files
<1>1. CursorTyped'
  BY DEF CursorInvariant, CursorTyped, Stage, Starting, Reading, Settled
<1>2. RunIsWhole(r)'
  <2>1. VerdictIsWhole(r)'
    BY VerdictStays DEF CursorInvariant, CursorTyped, RunIsWhole, VerdictIsFinal, Cancelled, Settled
  <2> QED
    BY <2>1 DEF CursorInvariant, CursorTyped, RunIsWhole, StartIsAlone, VerdictIsFinal,
                AgentIsReleased, StreamIsAwaited, Cancelled, Starting, Reading, Settled
<1> QED
  BY <1>1, <1>2, OneRunSteps DEF Same, CursorInvariant, CursorTyped

LEMMA StreamEndsKeeps ==
  ASSUME CursorInvariant, NEW r \in Run, SdkStreamEnds(r) PROVE CursorInvariant'
<1> USE DEF SdkStreamEnds, Goes, Fails, ends, reading, control, files
<1>1. CursorTyped'
  BY DEF CursorInvariant, CursorTyped, Stage, Starting, Reading, Settled
<1>2. RunIsWhole(r)'
  <2>1. VerdictIsWhole(r)'
    BY VerdictStays DEF CursorInvariant, CursorTyped, RunIsWhole, VerdictIsFinal, Cancelled, Settled
  <2> QED
    BY <2>1 DEF CursorInvariant, CursorTyped, RunIsWhole, StartIsAlone, VerdictIsFinal,
                AgentIsReleased, StreamIsAwaited, Cancelled, Starting, Reading, Settled
<1> QED
  BY <1>1, <1>2, OneRunSteps DEF Same, CursorInvariant, CursorTyped

LEMMA AnswersKeeps ==
  ASSUME CursorInvariant, NEW r \in Run, SdkAnswers(r) PROVE CursorInvariant'
<1> USE DEF SdkAnswers, SdkResult, Goes, Fails, ends, reading, control, files
<1>1. CursorTyped'
  BY DEF CursorInvariant, CursorTyped, Stage, Starting, Reading, Settled
<1>2. RunIsWhole(r)'
  <2>1. VerdictIsWhole(r)'
    BY VerdictStays DEF CursorInvariant, CursorTyped, RunIsWhole, VerdictIsFinal, Cancelled, Settled
  <2> QED
    BY <2>1 DEF CursorInvariant, CursorTyped, RunIsWhole, StartIsAlone, VerdictIsFinal,
                AgentIsReleased, StreamIsAwaited, Cancelled, Starting, Reading, Settled
<1> QED
  BY <1>1, <1>2, OneRunSteps DEF Same, CursorInvariant, CursorTyped

LEMMA AgentWorksKeeps ==
  ASSUME CursorInvariant, NEW r \in Run, AgentWorks(r) PROVE CursorInvariant'
<1> USE DEF ends, reading, control
<1>1. /\ head' \in Tree /\ work' \in Tree /\ edits' \in 0..MaxEdit
      /\ UNCHANGED <<sdk, pc, ends, reading, control, managed, status, snapshot, troubles>>
  <2>1. /\ head \in [File -> Content] /\ work \in [File -> Content]
        /\ edits \in 0..MaxEdit /\ edits < MaxEdit
    BY DEF AgentWorks, Tree, CursorInvariant, CursorTyped
  <2>2. PICK f \in File, c \in Content :
          /\ work' = [work EXCEPT ![f] = c]
          /\ head' = head \/ head' = [head EXCEPT ![f] = c]
    BY DEF AgentWorks
  <2>3. head' \in [File -> Content] /\ work' \in [File -> Content]
    BY <2>1, <2>2
  <2>4. edits' \in 0..MaxEdit
    BY <2>1 DEF AgentWorks
  <2> QED
    BY <2>3, <2>4 DEF AgentWorks, Tree
<1>2. CursorTyped'
  BY <1>1 DEF CursorInvariant, CursorTyped, Stage, Starting, Reading, Settled
<1>3. RunIsWhole(r)'
  <2>1. VerdictIsWhole(r)'
    BY <1>1, VerdictStays DEF CursorInvariant, CursorTyped, RunIsWhole, VerdictIsFinal, Cancelled, Settled
  <2> QED
    BY <1>1, <2>1 DEF CursorInvariant, CursorTyped, RunIsWhole, StartIsAlone, VerdictIsFinal,
                AgentIsReleased, StreamIsAwaited, Cancelled, Starting, Reading, Settled
<1>4. \A s \in Run \ {r} : Same(s)
  BY <1>1 DEF Same, CursorInvariant, CursorTyped
<1> QED
  BY <1>2, <1>3, <1>4, OneRunSteps

-----------------------------------------------------------------------------
(* finalizeCursorRun settles the outcome *)

\* The status derived again is the one that was mapped, and the worker's agrees.
LEMMA OutcomeAgrees ==
  ASSUME CursorInvariant, NEW r \in Run
  PROVE  /\ FinalStatus(r) \in Final /\ FinalOutcome(r).run = FinalStatus(r)
         /\ FinalOutcome(r).worker \in WorkerStatus
         /\ (FinalOutcome(r).worker = "completed") <=> (FinalStatus(r) = "completed")
         /\ Cancelled(r) => FinalStatus(r) = cancelBy[r]
<1>1. result[r] \in SdkResult \cup {"null"} /\ cancelBy[r] \in CancelStatus \cup {"none"}
  BY DEF CursorInvariant, CursorTyped
<1>2. CASE FinalStatus(r) \in CancelStatus
  <2>1. FinalOutcome(r) = [run |-> FinalStatus(r), worker |-> "failed"]
    BY <1>2 DEF FinalOutcome, Derived, Override, CancelStatus
  <2> QED
    BY <1>1, <1>2, <2>1 DEF FinalStatus, CancelStatus, Final, WorkerStatus, Cancelled
<1>3. CASE FinalStatus(r) \notin CancelStatus
  <2>1. ~Cancelled(r) /\ FinalStatus(r) = StatusOfResult(r)
    BY <1>1, <1>3 DEF FinalStatus, Cancelled
  <2>2. Override(r) = "none"
    BY <1>3 DEF Override
  <2>3. CASE result[r] = "finished"
    <3>1. FinalStatus(r) = "completed" /\ ExitCode(r) = 0
      BY <2>1, <2>3 DEF StatusOfResult, ExitCode
    <3>2. stopReasonFor[result[r]] = "complete"
      BY <2>3 DEF stopReasonFor
    <3>3. FinalOutcome(r) = [run |-> "completed", worker |-> "completed"]
      BY <2>2, <2>3, <3>1, <3>2
         DEF FinalOutcome, Derived, needsInputStopReasons, blockedStopReasons
    <3> QED
      BY <2>1, <3>1, <3>3 DEF Final, WorkerStatus
  <2>4. CASE result[r] # "finished"
    <3>1. FinalStatus(r) = "failed" /\ ExitCode(r) = 1
      BY <1>3, <2>1, <2>4 DEF StatusOfResult, ExitCode, CancelStatus
    <3>2. FinalOutcome(r) = [run |-> "failed", worker |-> "failed"]
      BY <2>2, <3>1 DEF FinalOutcome, Derived
    <3> QED
      BY <2>1, <3>1, <3>2 DEF Final, WorkerStatus
  <2> QED
    BY <2>3, <2>4
<1> QED
  BY <1>2, <1>3

LEMMA ErrorsAreGiven ==
  ASSUME CursorInvariant, NEW r \in Run
  PROVE  /\ FinalErrors(r) \in Seq(RunError)
         /\ FinalStatus(r) \in {"failed", "timed_out"} => FinalErrors(r) # << >>
         /\ LatestError(r) \in Latest
         /\ FinalStatus(r) = "failed" => LatestError(r) = Classified(Head(FinalErrors(r)))
<1>1. \A source \in {"override", "no_result", "missing"} : Said(source, "plain") \in RunError
  BY SaidKind DEF Source, Words
<1>2. errs[r] \in Seq(RunError) /\ result[r] \in SdkResult \cup {"null"}
      /\ cancelBy[r] \in CancelStatus \cup {"none"}
  BY DEF CursorInvariant, CursorTyped
<1>3. FinalErrors(r) \in Seq(RunError)
  BY <1>1, <1>2 DEF FinalErrors
<1>4. Cancelled(r) => FinalStatus(r) \in CancelStatus
  BY <1>2 DEF FinalStatus, Cancelled
<1>5. FinalStatus(r) \in {"failed", "timed_out"} => FinalErrors(r) # << >>
  <2>1. CASE Cancelled(r)
    BY <2>1 DEF FinalErrors
  <2>2. CASE ~Cancelled(r)
    <3>1. FinalStatus(r) = "timed_out" => FALSE
      BY <2>2 DEF FinalStatus, StatusOfResult
    <3>2. Append(errs[r], Said("no_result", "plain")) # << >>
      BY <1>1, <1>2
    <3> QED
      BY <2>2, <3>1, <3>2 DEF FinalErrors
  <2> QED
    BY <2>1, <2>2
<1>6. LatestError(r) \in Latest
  BY ClassifiedKind DEF LatestError, Latest
<1>7. FinalStatus(r) = "failed" => LatestError(r) = Classified(Head(FinalErrors(r)))
  BY <1>4, <1>5 DEF LatestError, CancelStatus
<1> QED
  BY <1>3, <1>5, <1>6, <1>7

LEMMA ChangedAreFiles ==
  ASSUME CursorInvariant, NEW r \in Run, NEW diff, NEW st
  PROVE  named[r] \cup FilesFromGit(r, diff, st) \in SUBSET File
<1>1. snapshot[r] \in Snapshot /\ named[r] \in SUBSET File
  BY DEF CursorInvariant, CursorTyped
<1>2. snapshot[r].dirty \subseteq File
  <2>1. NotTaken.dirty \subseteq File
    BY DEF NotTaken
  <2>2. ASSUME NEW h, NEW w PROVE CaptureGitSnapshot(h, w).dirty \subseteq File
    BY DEF CaptureGitSnapshot, Dirty
  <2> QED
    BY <1>1, <2>1, <2>2 DEF Snapshot
<1>3. FilesFromGit(r, diff, st) \subseteq File
  BY <1>2 DEF FilesFromGit, ChangedFilesSinceSnapshot, CommittedSince, Altered, Dirty
<1> QED
  BY <1>1, <1>3

\* What is settled for a run, with or without the answers of git.
Outcome(r, diff, st) ==
  [status |-> FinalOutcome(r).run, worker |-> FinalOutcome(r).worker,
   errors |-> FinalErrors(r), latest |-> LatestError(r),
   files |-> named[r] \cup FilesFromGit(r, diff, st), git |-> diff /\ st]

LEMMA OutcomeIsWhole ==
  ASSUME CursorInvariant, NEW r \in Run, NEW diff \in BOOLEAN, NEW st \in BOOLEAN
  PROVE  /\ Outcome(r, diff, st) \in Verdict /\ WholeVerdict(Outcome(r, diff, st))
         /\ Outcome(r, diff, st).status = FinalStatus(r) /\ FinalStatus(r) \in Final
<1> DEFINE v == Outcome(r, diff, st)
<1>1. v \in Verdict
  <2>1. (diff /\ st) \in BOOLEAN
    OBVIOUS
  <2>2. FinalOutcome(r).run \in Final \cup {"running"} /\ FinalOutcome(r).worker \in WorkerStatus
    BY OutcomeAgrees
  <2>3. FinalErrors(r) \in Seq(RunError) /\ LatestError(r) \in Latest
    BY ErrorsAreGiven
  <2>4. named[r] \cup FilesFromGit(r, diff, st) \in SUBSET File
    BY ChangedAreFiles
  <2> QED
    BY <2>1, <2>2, <2>3, <2>4, VerdictKind, Zenon DEF Outcome
<1>2. /\ v.status = FinalOutcome(r).run /\ v.worker = FinalOutcome(r).worker
      /\ v.errors = FinalErrors(r) /\ v.latest = LatestError(r)
  BY DEF Outcome
<1>3. v.status = FinalStatus(r) /\ FinalStatus(r) \in Final
  BY <1>2, OutcomeAgrees
<1>4. v.status \in {"failed", "timed_out"} => v.errors # << >>
  BY <1>2, <1>3, ErrorsAreGiven
<1>5. (v.worker = "completed") <=> (v.status = "completed")
  BY <1>2, OutcomeAgrees
<1>6. v.status = "failed" => v.latest = Classified(Head(v.errors))
  BY <1>2, <1>3, ErrorsAreGiven
<1> HIDE DEF v
<1>7. WholeVerdict(v)
  BY <1>4, <1>5, <1>6, RateLimitIsRetried DEF WholeVerdict
<1> QED
  BY <1>1, <1>3, <1>7 DEF v

LEMMA SettleKeeps ==
  ASSUME CursorInvariant, NEW r \in Run, Settle(r) PROVE CursorInvariant'
<1> USE DEF reading, control, files
<1>1. pc[r] = "load" /\ pc' = [pc EXCEPT ![r] = "write"]
  BY DEF Settle, Goes
<1>2. PICK diff \in BOOLEAN, st \in BOOLEAN : verdict' = [verdict EXCEPT ![r] = Outcome(r, diff, st)]
  BY DEF Settle, Outcome
<1>3. troubles' \in 0..MaxTrouble
  BY DEF Settle, Fails, CursorInvariant, CursorTyped
<1>4. UNCHANGED <<sdk, agent, outcome, result, reading, control, managed, status, files>>
  BY DEF Settle
<1>5. PICK v \in Verdict : /\ verdict' = [verdict EXCEPT ![r] = v] /\ WholeVerdict(v)
                           /\ v.status = FinalStatus(r) /\ v.status \in Final
  BY <1>2, OutcomeIsWhole
<1>6. CursorTyped'
  <2>1. "write" \in Stage
    BY DEF Stage, Settled
  <2>2. pc' \in [Run -> Stage] /\ verdict' \in [Run -> Verdict]
    BY <1>1, <1>5, <2>1 DEF CursorInvariant, CursorTyped
  <2> QED
    BY <1>3, <1>4, <2>2 DEF CursorInvariant, CursorTyped
<1>7. verdict'[r] = v /\ pc'[r] = "write"
  BY <1>1, <1>5 DEF CursorInvariant, CursorTyped
<1>8. \/ FinalStatus(r) = StatusOfResult(r)'
      \/ Cancelled(r)' /\ FinalStatus(r) = cancelBy'[r]
  BY <1>4 DEF FinalStatus, StatusOfResult, Cancelled
<1>9. VerdictIsWhole(r)'
  BY <1>5, <1>7, <1>8 DEF VerdictIsWhole
<1>10. v.status # "running"
  BY <1>5 DEF Final, CancelStatus
<1>11. RunIsWhole(r)'
  BY <1>1, <1>4, <1>7, <1>9, <1>10
     DEF CursorInvariant, CursorTyped, RunIsWhole, StartIsAlone, VerdictIsFinal,
         AgentIsReleased, StreamIsAwaited, Cancelled, Starting, Reading, Settled
<1>12. \A s \in Run \ {r} : Same(s)
  BY <1>1, <1>4, <1>5 DEF Same, CursorInvariant, CursorTyped
<1> QED
  BY <1>6, <1>11, <1>12, OneRunSteps

LEMMA NextKeeps == CursorInvariant /\ [Next]_cursorVars => CursorInvariant'
<1> SUFFICES ASSUME CursorInvariant, [Next]_cursorVars PROVE CursorInvariant'
  OBVIOUS
<1>1. CASE UNCHANGED cursorVars
  BY <1>1, UntouchedKeeps
<1>2. ASSUME NEW r \in Run, Program(r) PROVE CursorInvariant'
  BY <1>2, SnapshotKeeps, ProbeKeeps, ImportedKeeps, CheckKeyKeeps, CreateAgentKeeps, SendKeeps,
     BeginKeeps, DrainEndsKeeps, DrainRaceKeeps, PatienceKeeps, DrainGraceKeeps, WaitRaceKeeps,
     WaitGraceKeeps, DisposeKeeps, SettleKeeps, FinishKeeps DEF Program
<1>3. ASSUME NEW r \in Run, Failure(r) PROVE CursorInvariant'
  BY <1>3, BeginFailsKeeps, ProcessingFailsKeeps, FinalizeFailsKeeps DEF Failure
<1>4. ASSUME NEW r \in Run, Sdk(r) PROVE CursorInvariant'
  BY <1>4, ProcessMessageKeeps, StreamEndsKeeps, AnswersKeeps, AgentWorksKeeps DEF Sdk
<1>5. ASSUME NEW r \in Run, TimerWakes(r) \/ CancelRun(r) \/ ExecutionTimeout(r)
      PROVE CursorInvariant'
  BY <1>5, TimerKeeps, CancelRunKeeps, TimeoutKeeps
<1> QED
  BY <1>1, <1>2, <1>3, <1>4, <1>5 DEF Next

LEMMA InvariantHolds == CursorSpec => []CursorInvariant
BY InvariantInit, NextKeeps, PTL DEF CursorSpec

-----------------------------------------------------------------------------
(* The theorems *)

(* Whatever the SDK says or does not say, and whatever write or git command  *)
(* fails: a run that failed says why, a rate limit stays retryable, status   *)
(* and worker agree, a run that nobody cancelled has its whole stream logged *)
(* before it ends, and no ended run has an open agent (drainAndFinalize and  *)
(* finalizeCursorRun, runtime.ts 250-420; finalizeFromObserved, common.ts).  *)
THEOREM CursorEndsAreWhole == CursorSpec => []EndsAreWhole
<1>1. CursorInvariant => EndsAreWhole
  <2> SUFFICES ASSUME CursorInvariant PROVE EndsAreWhole
    OBVIOUS
  <2>1. CursorTypeOK
    BY TypesAreRight DEF CursorInvariant
  <2>2. ASSUME NEW r \in Run, status[r] # "running"
        PROVE  pc[r] = "done" /\ verdict[r].status = status[r] /\ verdict[r] # Undecided
    BY <2>2, UndecidedIsVerdict DEF CursorInvariant, RunIsWhole, VerdictIsFinal
  <2>3. FailedRunsSayWhy
    BY <2>2 DEF FailedRunsSayWhy, CursorInvariant, RunIsWhole, VerdictIsWhole, WholeVerdict
  <2>4. RateLimitsStayRetryable
    <3> SUFFICES ASSUME NEW r \in Run, verdict[r].errors # << >>, verdict[r].status = "failed"
                 PROVE  LET e == Head(verdict[r].errors) IN
                        e.status = 429 /\ e.words # "auth" /\ Retryable(Category(e))
                          => Retryable(verdict[r].latest)
      BY DEF RateLimitsStayRetryable
    <3>1. verdict[r] # Undecided
      BY UndecidedIsVerdict
    <3> QED
      BY <3>1 DEF CursorInvariant, RunIsWhole, VerdictIsWhole, WholeVerdict
  <2>5. ResultAgreesWithRun
    BY UndecidedIsVerdict DEF ResultAgreesWithRun, CursorInvariant, RunIsWhole, VerdictIsWhole, WholeVerdict
  <2>6. WholeStreamIsLogged
    BY DEF WholeStreamIsLogged, CursorInvariant, RunIsWhole, StreamIsAwaited
  <2>7. TerminalRunsReleaseAgents
    BY <2>2 DEF TerminalRunsReleaseAgents, CursorInvariant, RunIsWhole, AgentIsReleased, Reading
  <2> QED
    BY <2>1, <2>3, <2>4, <2>5, <2>6, <2>7 DEF EndsAreWhole
<1> QED
  BY <1>1, InvariantHolds, PTL

\* How a step may change a run's verdict and who cancelled it.
VerdictMoves(s) ==
  \/ verdict'[s] = verdict[s]
  \/ ~Cancelled(s) /\ verdict'[s].git = FALSE
  \/ \E diff, st \in BOOLEAN : verdict'[s] = Outcome(s, diff, st)
CancelStands(s) == Cancelled(s) => cancelBy'[s] = cancelBy[s]

LEMMA FailedStartMoves ==
  ASSUME CursorInvariant, NEW r \in Run, NEW from \in Starting,
         NEW e \in SdkError, NEW category, FailPreSpawn(r, from, e, category)
  PROVE  \A s \in Run : VerdictMoves(s)
<1>1. ~Cancelled(r)
  BY DEF FailPreSpawn, Goes, CursorInvariant, RunIsWhole, StartIsAlone
<1>2. PICK v : verdict' = [verdict EXCEPT ![r] = v] /\ v.git = FALSE
  <2>1. verdict' = [verdict EXCEPT ![r] =
          [Undecided EXCEPT !.status = "failed", !.worker = "failed",
                            !.errors = <<From("pre_spawn", e)>>, !.latest = category]]
    BY DEF FailPreSpawn
  <2>2. [Undecided EXCEPT !.status = "failed", !.worker = "failed",
                          !.errors = <<From("pre_spawn", e)>>, !.latest = category].git = FALSE
    BY DEF Undecided
  <2> QED
    BY <2>1, <2>2
<1> QED
  BY <1>1, <1>2 DEF VerdictMoves, CursorInvariant, CursorTyped

LEMMA StartMoves ==
  ASSUME CursorInvariant, NEW r \in Run,
         Probe(r) \/ Imported(r) \/ CheckKey(r) \/ CreateAgent(r) \/ Send(r)
  PROVE  \A s \in Run : VerdictMoves(s) /\ CancelStands(s)
<1>1. CASE UNCHANGED verdict
  BY <1>1 DEF VerdictMoves, CancelStands, Probe, Imported, CheckKey, CreateAgent, Send, Spawning
<1>2. CASE \E from \in Starting, e \in SdkError : \E category : FailPreSpawn(r, from, e, category)
  BY <1>2, FailedStartMoves
     DEF CancelStands, Probe, Imported, CheckKey, CreateAgent, Send, Spawning
<1>3. UNCHANGED verdict \/ \E from \in Starting, e \in SdkError : \E category :
                             FailPreSpawn(r, from, e, category)
  <2>1. \A e \in Raised : e \in SdkError
    OBVIOUS
  <2>2. {"idle", "probe", "key", "create", "send"} \subseteq Starting
    BY DEF Starting
  <2> QED
    BY <2>1, <2>2, KnownErrors DEF Probe, Imported, CheckKey, CreateAgent, Send, SendFailed
<1> QED
  BY <1>1, <1>2, <1>3

LEMMA SettleMoves ==
  ASSUME CursorInvariant, NEW r \in Run, Settle(r)
  PROVE  \A s \in Run : VerdictMoves(s) /\ CancelStands(s)
<1>1. PICK diff \in BOOLEAN, st \in BOOLEAN : verdict' = [verdict EXCEPT ![r] = Outcome(r, diff, st)]
  BY DEF Settle, Outcome
<1> QED
  <2>1. cancelBy' = cancelBy
    BY DEF Settle, control
  <2>2. verdict'[r] = Outcome(r, diff, st) /\ \A s \in Run \ {r} : verdict'[s] = verdict[s]
    BY <1>1 DEF CursorInvariant, CursorTyped
  <2>3. VerdictMoves(r)
    BY <2>2 DEF VerdictMoves
  <2>4. \A s \in Run \ {r} : VerdictMoves(s)
    BY <2>2 DEF VerdictMoves
  <2> QED
    BY <2>1, <2>3, <2>4 DEF CancelStands

LEMMA CancelMoves ==
  ASSUME CursorInvariant, NEW r \in Run, CancelRun(r) \/ TimerWakes(r) \/ ExecutionTimeout(r)
  PROVE  \A s \in Run : VerdictMoves(s) /\ CancelStands(s)
<1>1. UNCHANGED verdict
  BY DEF CancelRun, TimerWakes, ExecutionTimeout, ends
<1>2. UNCHANGED cancelBy \/ \E x : Cancel(r, x)
  BY DEF CancelRun, TimerWakes, ExecutionTimeout
<1> QED
  BY <1>1, <1>2 DEF VerdictMoves, CancelStands, Cancel, Cancelled, CursorInvariant, CursorTyped

LEMMA NextMoves ==
  ASSUME CursorInvariant, [Next]_cursorVars
  PROVE  \A s \in Run : VerdictMoves(s) /\ CancelStands(s)
<1>1. ASSUME UNCHANGED <<verdict, cancelBy>>
      PROVE  \A s \in Run : VerdictMoves(s) /\ CancelStands(s)
  BY <1>1 DEF VerdictMoves, CancelStands
<1> USE DEF ends, reading, control
<1>2. CASE UNCHANGED cursorVars
  BY <1>1, <1>2 DEF cursorVars
<1>3. ASSUME NEW r \in Run, Program(r)
      PROVE  \A s \in Run : VerdictMoves(s) /\ CancelStands(s)
  <2>1. CASE Probe(r) \/ Imported(r) \/ CheckKey(r) \/ CreateAgent(r) \/ Send(r)
    BY <2>1, StartMoves
  <2>2. CASE Settle(r)
    BY <2>2, SettleMoves
  <2>3. CASE \/ TakeSnapshot(r) \/ Begin(r) \/ DrainEnds(r) \/ DrainRace(r) \/ PatienceRunsOut(r)
             \/ DrainGrace(r) \/ WaitRace(r) \/ WaitGrace(r) \/ Dispose(r) \/ Finish(r)
    BY <1>1, <2>3 DEF TakeSnapshot, Begin, DrainEnds, DrainRace, PatienceRunsOut, DrainGrace,
                      WaitRace, WaitGrace, Dispose, Finish
  <2> QED
    BY <1>3, <2>1, <2>2, <2>3 DEF Program
<1>4. ASSUME NEW r \in Run, Failure(r) \/ Sdk(r)
      PROVE  \A s \in Run : VerdictMoves(s) /\ CancelStands(s)
  BY <1>1, <1>4 DEF Failure, Sdk, BeginFails, ProcessingFails, FinalizeFails, ProcessMessage,
                    SdkStreamEnds, SdkAnswers, AgentWorks
<1>5. ASSUME NEW r \in Run, TimerWakes(r) \/ CancelRun(r) \/ ExecutionTimeout(r)
      PROVE  \A s \in Run : VerdictMoves(s) /\ CancelStands(s)
  BY <1>5, CancelMoves
<1> QED
  BY <1>2, <1>3, <1>4, <1>5 DEF Next

(* Whoever cancels after it, and whatever the SDK still answers, the first   *)
(* cancel that reaches a run before its outcome is settled decides how it    *)
(* ends (runtime.ts 263-269 and 366-368).                                    *)
THEOREM FirstCancelStands == CursorSpec => FirstCancelDecides
<1>1. CursorInvariant /\ [Next]_cursorVars =>
        [\A r \in Run : Cancelled(r) /\ verdict[r] = Undecided =>
           /\ cancelBy'[r] = cancelBy[r]
           /\ verdict'[r].status \in {"running", cancelBy[r]}]_cursorVars
  <2> SUFFICES ASSUME CursorInvariant, [Next]_cursorVars,
                      NEW r \in Run, Cancelled(r), verdict[r] = Undecided
               PROVE  /\ cancelBy'[r] = cancelBy[r]
                      /\ verdict'[r].status \in {"running", cancelBy[r]}
    OBVIOUS
  <2>1. VerdictMoves(r) /\ CancelStands(r)
    BY NextMoves
  <2>2. ASSUME NEW diff \in BOOLEAN, NEW st \in BOOLEAN
        PROVE  Outcome(r, diff, st).status = cancelBy[r]
    BY OutcomeIsWhole, OutcomeAgrees
  <2> QED
    BY <2>1, <2>2, UndecidedIsVerdict DEF VerdictMoves, CancelStands
<1> QED
  BY <1>1, InvariantHolds, PTL DEF CursorSpec, FirstCancelDecides

(* A file whose content at the end is not what it was at the start is named, *)
(* whether it was clean or dirty then and committed or not since, with every *)
(* file that the agent said it edited (gitSnapshot.ts 75-119).               *)
THEOREM ChangesAreNamed == CursorSpec => ChangedFilesAreNamed
<1>1. CursorInvariant /\ [Next]_cursorVars =>
        [\A r \in Run : verdict[r] = Undecided /\ verdict'[r].git =>
           /\ named[r] \subseteq verdict'[r].files
           /\ snapshot[r] # NotTaken =>
                {f \in File : AtStart(snapshot[r], f) # work[f]} \subseteq verdict'[r].files]_cursorVars
  <2> SUFFICES ASSUME CursorInvariant, [Next]_cursorVars,
                      NEW r \in Run, verdict[r] = Undecided, verdict'[r].git
               PROVE  /\ named[r] \subseteq verdict'[r].files
                      /\ snapshot[r] # NotTaken =>
                           {f \in File : AtStart(snapshot[r], f) # work[f]} \subseteq verdict'[r].files
    OBVIOUS
  <2>1. PICK diff \in BOOLEAN, st \in BOOLEAN : verdict'[r] = Outcome(r, diff, st)
    BY NextMoves, UndecidedIsVerdict DEF VerdictMoves
  <2>2. /\ diff /\ st
        /\ verdict'[r].files = named[r] \cup FilesFromGit(r, diff, st)
    BY <2>1 DEF Outcome
  <2>3. ASSUME snapshot[r] # NotTaken, NEW f \in File, AtStart(snapshot[r], f) # work[f]
        PROVE  f \in ChangedFilesSinceSnapshot(snapshot[r], head, work, TRUE, TRUE)
    <3>1. CASE f \in snapshot[r].dirty
      BY <2>3, <3>1 DEF AtStart, ChangedFilesSinceSnapshot, Altered
    <3>2. CASE f \notin snapshot[r].dirty /\ snapshot[r].head[f] # head[f]
      BY <3>2 DEF ChangedFilesSinceSnapshot, CommittedSince
    <3>3. CASE f \notin snapshot[r].dirty /\ snapshot[r].head[f] = head[f]
      BY <2>3, <3>3 DEF AtStart, ChangedFilesSinceSnapshot, Dirty
    <3> QED
      BY <3>1, <3>2, <3>3
  <2>4. diff = TRUE /\ st = TRUE
    BY <2>2
  <2> QED
    BY <2>2, <2>3, <2>4 DEF FilesFromGit
<1> QED
  BY <1>1, InvariantHolds, PTL DEF CursorSpec, ChangedFilesAreNamed
=============================================================================
