---------------------------- MODULE WorkerResult ----------------------------
(***************************************************************************)
(* What is recorded of the end of a CLI worker: its status and its         *)
(* latest_error, from the errors it reported and the stops it was sent in  *)
(* their order, its exit code, and whether it gave a result.               *)
(*                                                                         *)
(* Simplifications: "auth" stands for every category that is fatal and is  *)
(* not a limit; an error is its category, and of a list of errors only the *)
(* first is looked at; the record can be written.                          *)
(***************************************************************************)
EXTENDS Naturals, Sequences

Category == {"rate_limit", "quota", "auth", "unknown"}
Stop == {"cancelled", "timed_out"}
Sign == Category \cup Stop
End == [signs : Seq(Sign), exitOk : BOOLEAN, result : BOOLEAN]

Limit == {"rate_limit", "quota"}
Fatal == Category \ {"unknown"}

At(end, S) == {i \in DOMAIN end.signs : end.signs[i] \in S}
First(end, S) ==
  IF At(end, S) = {} THEN "none"
  ELSE end.signs[CHOOSE i \in At(end, S) : \A j \in At(end, S) : i <= j]
Saved(end) == {end.signs[i] : i \in At(end, Category)}

\* The first stop wins, and a fatal error stops the run.
OverrideByStop(end) ==
  IF At(end, Stop) # {} THEN First(end, Stop) ELSE First(end, Fatal)
Override(end) == First(end, Stop \cup Fatal)

\* terminalOverrideError
OverrideError(override) ==
  CASE override = "timed_out" -> "timeout"
    [] override = "cancelled" -> "unknown"
    [] OTHER -> override

\* buildTerminalErrorList: an error that was observed hides the exit code.
TerminalError(end) ==
  IF end.exitOk \/ Saved(end) # {} THEN First(end, Category) ELSE "process_exit"

Completes(end) == Override(end) = "none" /\ end.exitOk /\ end.result

FirstError(end) ==
  IF Override(end) # "none" THEN OverrideError(Override(end)) ELSE TerminalError(end)

Status(end) ==
  IF Override(end) \in Stop THEN Override(end)
  ELSE IF Completes(end) THEN "completed" ELSE "failed"

\* workerResultError: a worker that reported nothing and gave no result.
Latest(end) == IF FirstError(end) = "none" THEN "protocol" ELSE FirstError(end)

\* latest_error of meta.json.  A completed or cancelled run keeps one that was
\* saved while it worked; the updates may have been written in any order.
LatestError(end) ==
  IF Status(end) \in {"failed", "timed_out"} THEN {Latest(end)}
  ELSE IF Saved(end) = {} THEN {"none"} ELSE Saved(end)

-----------------------------------------------------------------------------
\* The run of a worker that was stopped by a limit says so in latest_error, and
\* only a run whose worker reported a limit does: neither the exit code nor a
\* later error or stop takes the place of the first fatal one (finalizeRun and
\* buildTerminalErrorList, processManager.ts 597-646 and 690-700).
StoppedByLimit(end) ==
  \E i \in DOMAIN end.signs : /\ end.signs[i] \in Limit
                              /\ \A j \in DOMAIN end.signs : j < i => end.signs[j] = "unknown"
LimitDecides(end) ==
  /\ StoppedByLimit(end) => LatestError(end) \subseteq Limit
  /\ \A category \in LatestError(end) \cap Limit : \E i \in DOMAIN end.signs : end.signs[i] = category
=============================================================================
