--------------------------- MODULE MCProcessControl --------------------------
(* Two components that share nothing, in one run: an owned scope whose      *)
(* command may have one descendant at a time besides its own process; and   *)
(* one command in each of its three modes.  A behaviour is one of either;   *)
(* the other rests in a state in which none of its fair actions is enabled: *)
(* the scope in that of a dead caller, the command not yet started.         *)
EXTENDS OwnedScope, RunningCommand

VARIABLE part  \* the component at work

MCInit ==
  /\ part \in {"scope", "command"}
  /\ ScopeUnused /\ owner = (part = "scope")
  /\ Init /\ (part = "command" \/ c.mode = "direct")

MCNext ==
  \/ part = "scope" /\ ScopeNext /\ UNCHANGED <<part, vars>>
  \/ part = "command" /\ Next /\ UNCHANGED <<part, scopeVars>>

MCSpec ==
  MCInit /\ [][MCNext]_<<part, scopeVars, vars>> /\ ScopeFairness /\ Fairness
==============================================================================
