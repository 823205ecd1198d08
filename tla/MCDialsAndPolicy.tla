-------------------------- MODULE MCDialsAndPolicy ---------------------------
(***************************************************************************)
(* Two components that share nothing, in one run: the dials of two peers,  *)
(* one of which connects to us, too, with three dial states, so that a     *)
(* peer can be considered again while its first dial is still under way;   *)
(* and the cases of the policy repository. A behaviour is one of either;   *)
(* the other rests: the dials in their initial state, in which no fair     *)
(* action is enabled, and the repository in that of its one case with a    *)
(* preload of sources.                                                     *)
(***************************************************************************)
EXTENDS PeerDialScheduler, MCPolicyRepository

CONSTANTS p1, p2, d1, d2, d3
MCPeers == {p1, p2}
MCDialers == {p1}
MCIds == {d1, d2, d3}
MCStatesOf == p1 :> {d1, d2} @@ p2 :> {d3}

VARIABLE part  \* the component at work

MCInit ==
  /\ part \in {"dials", "policy"}
  /\ DialInit
  /\ Init /\ (part = "policy" \/ preload = "sources")

MCNext ==
  \/ part = "dials" /\ DialNext /\ UNCHANGED <<part, vars>>
  \/ part = "policy" /\ Next /\ UNCHANGED <<part, dialVars>>

MCSpec == MCInit /\ [][MCNext]_<<part, dialVars, vars>> /\ DialFairness
=============================================================================
