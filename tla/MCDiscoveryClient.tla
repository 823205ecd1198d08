-------------------------- MODULE MCDiscoveryClient --------------------------
(* Two scopes and two peers; peer P1 can register in both scopes, so that a *)
(* session can move, replace another and meet a full scope.  Four hubs are  *)
(* called in any way.  Three have room for all: three sessions that send    *)
(* two messages each; three that send one, with sends that fail; two that   *)
(* send two, with sends that fail.  The fourth has room for one scope of    *)
(* one peer, two sessions and a clock.                                      *)
(* Two have clients: c1 and c2, the first moving into the scope of the      *)
(* second; and c3, with a clock.  A fault may cost a client one more socket *)
(* when what was under way on the old one arrives late, and one when its    *)
(* heartbeats are late.                                                     *)
EXTENDS DiscoveryClient, TLC

CONSTANTS s1, s2, s3, s4, s5, A, B, P1, P2, a1, a2, b1, c1, c2, c3
MCSessions == {s1, s2, s3, s4, s5}
MCScopes == {A, B}
MCPeers == {P1, P2}
MCAds == {a1, a2, b1}
MCScopeOf == a1 :> A @@ a2 :> A @@ b1 :> B
MCPeerOf == a1 :> P1 @@ a2 :> P2 @@ b1 :> P1
Hub(size, messages, ttl, until, opening, failing) ==
  [maxScopes |-> size, maxPeersPerScope |-> size, ttlMs |-> ttl,
   maxMessages |-> messages, opening |-> opening, until |-> until,
   failingSends |-> failing]
Crowded == Hub(2, 2, 0, 0, {s1, s2, s3}, {{}})
Failing == Hub(2, 1, 0, 0, {s1, s2, s3}, SUBSET {s1, s2})
Pair == Hub(2, 2, 0, 0, {s1, s2}, SUBSET {s1, s2})
Narrow == Hub(1, 2, 1, 2, {s1, s2}, {{}})
Shared == Hub(2, 9, 0, 0, MCSessions, {{}})
Timed == Hub(2, 9, 1, 2, MCSessions, {{}})
MCOptions == {Crowded, Failing, Pair, Narrow, Shared, Timed}
MCClients == {c1, c2, c3}
MCClientsOf == [o \in MCOptions |-> CASE o = Shared -> {c1, c2}
                                      [] o = Timed -> {c3} [] OTHER -> {}]
MCSocketsOf == c1 :> <<s1, s2, s3>> @@ c2 :> <<s4, s5>>
               @@ c3 :> <<s1, s2, s3, s4>>
MCReserve == c1 :> 2 @@ c2 :> 2 @@ c3 :> 3
MCPublished == c1 :> <<b1, a1>> @@ c2 :> <<a2>> @@ c3 :> <<b1, a1>>

==============================================================================
