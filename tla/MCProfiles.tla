----------------------------- MODULE MCProfiles -----------------------------
(* Two upserts and one start at once.  The profiles offered are one that    *)
(* always fits, one that needs an account, and one that does not fit.       *)
EXTENDS Profiles, TLC

CONSTANTS a1

Bare(backend, model) == [backend |-> backend, model |-> model, effort |-> Unset, tier |-> Unset,
                         network |-> Unset, accounts |-> {}]
Offers == {[Bare("codex", "plain") EXCEPT !.network = "workspace"],
           [Bare("claude", "opus_4_7") EXCEPT !.effort = "xhigh", !.accounts = {a1}],
           [Bare("claude", "known_claude") EXCEPT !.tier = "fast"]}
Directories == [frontend |-> "pin", daemon |-> "other", given |-> "pin"]
=============================================================================
