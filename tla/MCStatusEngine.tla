--------------------------- MODULE MCStatusEngine ---------------------------
(* A supervisor with one run and one signal command. *)
EXTENDS StatusEngine
=============================================================================
