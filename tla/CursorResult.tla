---------------------------- MODULE CursorResult ----------------------------
(***************************************************************************)
(* What the record of a Cursor run is computed from: the categories of the *)
(* SDK's errors, what a message of the stream tells, the files that differ *)
(* from the git snapshot of the start, and the status that follows.        *)
(*                                                                         *)
(* Simplifications: the words of an error's text are the class the regular *)
(* expressions tell apart; commands are left out, since they are collected *)
(* just as files are; the run's directory is the root of its repository    *)
(* and its files are small enough to be hashed.                            *)
(***************************************************************************)
EXTENDS Naturals, Sequences

CONSTANT File

-----------------------------------------------------------------------------
(* Errors.  An error of the SDK is classified twice: when it is caught, by *)
(* its class, its HTTP status and its text; and when it becomes the run's  *)
(* latest_error, by what is left of it, its text and its context.          *)

Class == {"Error", "AuthenticationError", "RateLimitError", "ConfigurationError", "NetworkError",
          "IntegrationNotConnectedError", "UnknownAgentError"}
Words == {"plain", "auth", "limit", "model", "agent", "request", "down"}
SdkError == [class : Class, status : {0} \cup 400..599, words : Words]
Source == {"stream", "wait", "message", "override", "missing", "no_result", "pre_spawn"}
RunError == [source : Source, class : Class, status : {0} \cup 400..599, words : Words]

From(source, e) == [source |-> source, class |-> e.class, status |-> e.status, words |-> e.words]
Said(source, words) == [source |-> source, class |-> "Error", status |-> 0, words |-> words]

knownClassCategory ==
  [AuthenticationError |-> "auth", RateLimitError |-> "rate_limit", ConfigurationError |-> "invalid_model",
   NetworkError |-> "backend_unavailable", IntegrationNotConnectedError |-> "auth",
   UnknownAgentError |-> "unknown"]

StatusCategory(status) ==
  CASE status \in {401, 403} -> "auth"
    [] status = 429 -> "rate_limit"
    [] status \in 500..599 -> "backend_unavailable"
    [] status \in {400, 404} -> "invalid_model"
    [] OTHER -> "unknown"

WordsCategory(words) ==
  CASE words = "auth" -> "auth"
    [] words = "limit" -> "rate_limit"
    [] words = "model" -> "invalid_model"
    [] words = "down" -> "backend_unavailable"
    [] OTHER -> "unknown"

\* normalizeCursorSdkError
Category(e) ==
  LET known == IF e.class \in DOMAIN knownClassCategory THEN knownClassCategory[e.class]
               ELSE StatusCategory(e.status)
      found == IF known = "unknown" THEN WordsCategory(e.words) ELSE known
  IN CASE e.class = "ConfigurationError" /\ e.words \in {"agent", "request"} -> "protocol"
       [] e.class = "ConfigurationError" /\ e.words = "auth" -> "auth"
       [] OTHER -> found

\* classifyErrorCategory, which sees the context's status but not the class.
Classified(e) ==
  IF e.words = "auth" THEN "auth"
  ELSE IF e.words = "limit" \/ e.status = 429 THEN "rate_limit"
  ELSE IF e.words = "model" THEN "invalid_model"
  ELSE IF e.words = "request" \/ e.status = 400 THEN "protocol"
  ELSE IF e.words = "down" \/ e.status \in {500, 502, 503, 504} THEN "backend_unavailable"
  ELSE "unknown"

\* An error's own isRetryable, which the second classification never sees, is left
\* out.
Retryable(category) == category \in {"rate_limit", "backend_unavailable"}

-----------------------------------------------------------------------------
(* Messages.  What is not named here only logs a lifecycle event.          *)

Message == [type : {"status", "assistant", "tool_call", "error", "thinking"},
            edits : SUBSET File,   \* the files its edit tools name
            fails : BOOLEAN,       \* it says that a tool or the run failed
            words : Words \cup {"silent"}]

\* parseCursorEvent: an error event without a message gives no error, a status
\* of ERROR always does.
FilesOf(m) == IF m.type \in {"assistant", "tool_call"} THEN m.edits ELSE {}
ErrorsOf(m) ==
  CASE m.type = "status" /\ m.fails -> <<Said("message", IF m.words = "silent" THEN "plain" ELSE m.words)>>
    [] \/ m.type = "error" /\ m.words # "silent"
       \/ m.type = "tool_call" /\ m.fails /\ m.words # "silent" -> <<Said("message", m.words)>>
    [] OTHER -> << >>

-----------------------------------------------------------------------------
(* Files.  A tree gives each file its content; head is what is committed,  *)
(* work what is in the directory.                                          *)

Content == {"absent", "a", "b"}
Tree == [File -> Content]

Dirty(head, work) == {f \in File : work[f] # head[f]}
CaptureGitSnapshot(head, work) ==
  [head |-> head, dirty |-> Dirty(head, work),
   fingerprints |-> [f \in Dirty(head, work) |-> work[f]]]

\* changedFilesSinceSnapshot: each of its two git commands may fail, and the
\* files it would have named are then left out.
CommittedSince(snapshot, head) == {f \in File : snapshot.head[f] # head[f]}
Altered(snapshot, work) == {f \in snapshot.dirty : snapshot.fingerprints[f] # work[f]}
AlteredStillDirty(snapshot, head, work) == Altered(snapshot, work) \cap Dirty(head, work)
ChangedFilesNowDirty(snapshot, head, work, diff, status) ==
  (IF diff THEN CommittedSince(snapshot, head) ELSE {})
    \cup AlteredStillDirty(snapshot, head, work)
    \cup (IF status THEN Dirty(head, work) \ snapshot.dirty ELSE {})
ChangedFilesSinceSnapshot(snapshot, head, work, diff, status) ==
  (IF diff THEN CommittedSince(snapshot, head) ELSE {})
    \cup Altered(snapshot, work)
    \cup (IF status THEN Dirty(head, work) \ snapshot.dirty ELSE {})

\* What a file's content was when the snapshot was taken.
AtStart(snapshot, f) == IF f \in snapshot.dirty THEN snapshot.fingerprints[f] ELSE snapshot.head[f]

-----------------------------------------------------------------------------
(* deriveObservedResult: the run's status and the worker's own.            *)

needsInputStopReasons == {"tool_use_required", "awaiting_input", "needs_input"}
blockedStopReasons == {"refusal", "permission_denied", "policy_block", "blocked"}

Derived(override, exitCode, resultEvent, stopReason) ==
  CASE override # "none" -> [run |-> override, worker |-> "failed"]
    [] override = "none" /\ (exitCode # 0 \/ ~resultEvent) -> [run |-> "failed", worker |-> "failed"]
    [] OTHER -> [run |-> "completed",
                 worker |-> CASE stopReason \in needsInputStopReasons -> "needs_input"
                              [] stopReason \in blockedStopReasons -> "blocked"
                              [] OTHER -> "completed"]
=============================================================================
