-------------------------- MODULE MCCursorRuntime --------------------------
(* One run at a time: runs share no state but the adapter's cache, of which *)
(* Init has every content, and the directory, which the run's own agent    *)
(* changes.                                                                *)
EXTENDS CursorRuntime, TLC

\* A tool call that names its file and failed, and an error without a text, of
\* which only the log has a trace.
MCHeard ==
  {[type |-> "tool_call", edits |-> File, fails |-> TRUE, words |-> "limit"],
   [type |-> "error", edits |-> {}, fails |-> TRUE, words |-> "silent"]}

\* An error known by its HTTP status alone.
MCRaised == {[class |-> "Error", status |-> 429, words |-> "plain"]}
=============================================================================
