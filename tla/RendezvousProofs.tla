-------------------------- MODULE RendezvousProofs --------------------------
(***************************************************************************)
(* Proofs about the rendezvous hub, called in any way or with its clients, *)
(* for any sessions, scopes, peers, clients and options: its registry      *)
(* lists exactly the registered sessions and keeps its limits, every       *)
(* session has been sent the current list of its scope and every client's  *)
(* listeners know it, and no timestamp goes back.                          *)
(***************************************************************************)
EXTENDS DiscoveryClient, FiniteSetTheorems, TLAPS

(* The parts of RegistryConsistent and ViewsCurrent, for any state h of    *)
(* the hub: a step of the hub passes through several.                      *)
Matching(h) ==
  \A sc \in Scopes, p \in Peers :
    h.registry[sc][p] # NoSession =>
      /\ h.ad[h.registry[sc][p]] # NoAd
      /\ ScopeOf[h.ad[h.registry[sc][p]]] = sc
      /\ PeerOf[h.ad[h.registry[sc][p]]] = p
EnteredBut(h, S) ==
  \A s \in Sessions \ S : h.ad[s] # NoAd =>
    h.registry[ScopeOf[h.ad[s]]][PeerOf[h.ad[s]]] = s
Within(h) == \A s \in Sessions : h.ad[s] # NoAd => s \in h.sessions
Live(h) == h.scopes = {sc \in Scopes : Members(h, sc) # {}}
Limited(h) ==
  /\ Cardinality(h.scopes) <= options.maxScopes
  /\ \A sc \in Scopes :
       Cardinality(Members(h, sc)) <= options.maxPeersPerScope
CurrentBut(h, C) ==
  \A s \in h.sessions \ h.missed :
    h.ad[s] # NoAd /\ ScopeOf[h.ad[s]] \notin C =>
      h.view[s] = Listed(h, ScopeOf[h.ad[s]])

Consistent(h) ==
  /\ Matching(h) /\ EnteredBut(h, {}) /\ Within(h) /\ Live(h) /\ Limited(h)
  /\ CurrentBut(h, {})

(* A session's timestamp is one that the clock has shown, and not later    *)
(* than the time it would get from the registration it waits for.          *)
Clocks ==
  \A s \in Sessions :
    /\ timestamp[s] <= now
    /\ authorizing[s] # Idle =>
         /\ timestamp[s] <= authorizing[s].at /\ authorizing[s].at <= now
         /\ s \in hub.used

HubInv ==
  /\ TypeOK /\ hub.sessions \subseteq hub.used /\ Clocks /\ Consistent(hub)

------------------------------------------------------------------------------
(* What the hub's helpers do.                                              *)

(* From h to r, exactly the sessions of S lost what they had registered.   *)
Freed(h, r, S) ==
  /\ r.closed = h.closed /\ r.used = h.used
  /\ \A s \in Sessions : r.ad[s] = IF s \in S THEN NoAd ELSE h.ad[s]
  /\ \A sc \in Scopes, p \in Peers :
       r.registry[sc][p] = IF h.registry[sc][p] \in S
                           THEN NoSession ELSE h.registry[sc][p]
  /\ \A sc \in Scopes : Members(r, sc) = Members(h, sc) \ S

(* From h to g, only what sessions were sent may differ.                   *)
OnlyTold(h, g) ==
  /\ g.closed = h.closed /\ g.used = h.used
  /\ g.sessions = h.sessions /\ g.scopes = h.scopes
  /\ g.registry = h.registry /\ g.ad = h.ad
  /\ \A sc \in Scopes : Members(g, sc) = Members(h, sc)

(* A scope has finitely many members, and they are sessions.               *)
LEMMA MembersFinite ==
  ASSUME NEW h \in HubType, NEW sc \in Scopes
  PROVE  Members(h, sc) \subseteq Sessions /\ IsFiniteSet(Members(h, sc))
<1> DEFINE T == {h.registry[sc][p] : p \in Peers}
           f == [p \in Peers |-> h.registry[sc][p]]
<1>1. f \in Surjection(Peers, T)
  BY DEF Surjection
<1>2. IsFiniteSet(T)
  BY <1>1, FS_Surjection, LimitAssumption
<1>3. Members(h, sc) \in SUBSET T
  BY DEF Members
<1>4. IsFiniteSet(Members(h, sc))
  BY <1>2, <1>3, FS_Subset
<1>5. Members(h, sc) \subseteq Sessions
  BY DEF Members, HubType
<1> QED
  BY <1>4, <1>5

(* A session is a member of the scope it is entered in, and of no other.   *)
LEMMA MemberOf ==
  ASSUME NEW h \in HubType, Matching(h), NEW sc \in Scopes, NEW s \in Sessions
  PROVE  /\ s \in Members(h, sc) => h.ad[s] # NoAd /\ ScopeOf[h.ad[s]] = sc
         /\ \A S : (/\ EnteredBut(h, S) /\ s \notin S
                    /\ h.ad[s] # NoAd /\ ScopeOf[h.ad[s]] = sc)
                  => s \in Members(h, sc)
<1>1. ASSUME s \in Members(h, sc)
      PROVE  h.ad[s] # NoAd /\ ScopeOf[h.ad[s]] = sc
  <2>1. PICK p \in Peers : s = h.registry[sc][p] /\ s # NoSession
    BY <1>1 DEF Members
  <2> QED
    BY <2>1 DEF Matching
<1>2. \A S : (/\ EnteredBut(h, S) /\ s \notin S
               /\ h.ad[s] # NoAd /\ ScopeOf[h.ad[s]] = sc)
             => s \in Members(h, sc)
  <2> SUFFICES ASSUME NEW S, EnteredBut(h, S), s \notin S, h.ad[s] # NoAd,
                      ScopeOf[h.ad[s]] = sc
               PROVE  s \in Members(h, sc)
    OBVIOUS
  <2>1. h.ad[s] \in Ads /\ PeerOf[h.ad[s]] \in Peers
    BY AdAssumption DEF HubType
  <2>2. h.registry[sc][PeerOf[h.ad[s]]] = s
    BY DEF EnteredBut
  <2> QED
    BY <2>1, <2>2, AdAssumption DEF Members
<1> QED
  BY <1>1, <1>2

(* A list depends on the entries of its scope and on who they are for.     *)
LEMMA SameList ==
  ASSUME NEW h \in HubType, NEW g \in HubType, NEW sc \in Scopes,
         Members(g, sc) = Members(h, sc),
         \A s \in Members(h, sc) : g.ad[s] = h.ad[s]
  PROVE  Listed(g, sc) = Listed(h, sc)
BY DEF Listed

(* A broadcast changes what sessions were sent, and nothing else.          *)
LEMMA BroadcastEffect ==
  ASSUME NEW h \in HubType, NEW C \in SUBSET Scopes,
         NEW failing \in SUBSET Sessions
  PROVE  /\ BroadcastScopes(h, C, failing) \in HubType
         /\ OnlyTold(h, BroadcastScopes(h, C, failing))
<1> DEFINE g == BroadcastScopes(h, C, failing)
<1> DEFINE reached == {s \in h.sessions : \E sc \in C : s \in Members(h, sc)}
<1> DEFINE view == [s \in Sessions |->
                      IF s \in reached \ failing
                        THEN UNION {Listed(h, sc) :
                               sc \in {c \in C : s \in Members(h, c)}}
                        ELSE h.view[s]]
<1> DEFINE missed == (h.missed \ reached) \cup (reached \cap failing)
<1>1. g = [h EXCEPT !.view = view, !.missed = missed]
  BY DEF BroadcastScopes
<1>2. \A sc \in Scopes : Listed(h, sc) \subseteq Ads
  <2> TAKE sc \in Scopes
  <2>1. \A s \in Members(h, sc) : h.ad[s] \in Ads \cup {NoAd}
    BY MembersFinite DEF HubType
  <2> QED
    BY <2>1 DEF Listed
<1>3. view \in [Sessions -> SUBSET Ads]
  BY <1>2 DEF HubType
<1>4. missed \in SUBSET Sessions
  BY DEF HubType
<1> HIDE DEF g, view, missed
<1>5. g \in HubType
  BY <1>1, <1>3, <1>4 DEF HubType
<1>6. /\ g.closed = h.closed /\ g.used = h.used
      /\ g.sessions = h.sessions /\ g.scopes = h.scopes
      /\ g.registry = h.registry /\ g.ad = h.ad
  BY <1>1 DEF HubType
<1>7. \A sc \in Scopes : Members(g, sc) = Members(h, sc)
  BY <1>6 DEF Members
<1> QED
  BY <1>5, <1>6, <1>7 DEF g, OnlyTold

(* After it, every session of the scopes of C has been sent its list.      *)
LEMMA BroadcastTells ==
  ASSUME NEW h \in HubType, NEW C \in SUBSET Scopes, NEW D \in SUBSET Scopes,
         NEW failing \in SUBSET Sessions,
         Matching(h), EnteredBut(h, {}), CurrentBut(h, C \cup D)
  PROVE  CurrentBut(BroadcastScopes(h, C, failing), D)
<1> DEFINE g == BroadcastScopes(h, C, failing)
<1> DEFINE reached == {s \in h.sessions : \E sc \in C : s \in Members(h, sc)}
<1> DEFINE list(s) == UNION {Listed(h, sc) :
                               sc \in {c \in C : s \in Members(h, c)}}
<1>1. /\ g \in HubType /\ g.sessions = h.sessions /\ g.ad = h.ad
      /\ \A sc \in Scopes : Members(g, sc) = Members(h, sc)
  BY BroadcastEffect DEF OnlyTold
<1>2. /\ g.missed = (h.missed \ reached) \cup (reached \cap failing)
      /\ \A s \in Sessions : g.view[s] = IF s \in reached \ failing
                                           THEN list(s) ELSE h.view[s]
  BY DEF BroadcastScopes, HubType
<1> SUFFICES ASSUME NEW s \in g.sessions \ g.missed, g.ad[s] # NoAd,
                    ScopeOf[g.ad[s]] \notin D
             PROVE  g.view[s] = Listed(g, ScopeOf[g.ad[s]])
  BY DEF CurrentBut
<1> DEFINE sc == ScopeOf[h.ad[s]]
<1>3. s \in Sessions /\ sc \in Scopes /\ g.ad[s] = h.ad[s]
  BY <1>1, AdAssumption DEF HubType
<1> HIDE DEF g
<1>4. Listed(g, sc) = Listed(h, sc)
  BY <1>1, <1>3, SameList
<1>5. s \in Members(h, sc)
  BY <1>1, <1>3, MemberOf
<1>6. \A c \in Scopes : s \in Members(h, c) => c = sc
  BY <1>3, MemberOf
<1>7. CASE sc \in C
  <2>1. s \in reached \ failing
    BY <1>1, <1>2, <1>5, <1>7
  <2>2. {c \in C : s \in Members(h, c)} = {sc}
    BY <1>5, <1>6, <1>7
  <2>3. list(s) = Listed(h, sc)
    BY <2>2
  <2> QED
    BY <1>2, <1>3, <1>4, <2>1, <2>3
<1>8. CASE sc \notin C
  <2>1. s \notin reached /\ s \notin h.missed
    BY <1>2, <1>6, <1>8
  <2>2. h.view[s] = Listed(h, sc)
    BY <1>1, <1>3, <1>8, <2>1 DEF CurrentBut
  <2> QED
    BY <1>2, <1>3, <1>4, <2>1, <2>2
<1> QED
  BY <1>7, <1>8

(* Without the sessions of S, what was theirs is free and the rest stays.  *)
LEMMA WithoutEffect ==
  ASSUME NEW h \in HubType, NEW S \in SUBSET Sessions, Matching(h)
  PROVE  LET w == Without(h, S)
         IN  /\ w \in HubType
             /\ w.closed = h.closed /\ w.used = h.used /\ w.missed = h.missed
             /\ w.sessions = h.sessions /\ w.scopes = h.scopes
             /\ w.view = h.view
             /\ \A s \in Sessions :
                  w.ad[s] = IF s \in S THEN NoAd ELSE h.ad[s]
             /\ \A sc \in Scopes, p \in Peers :
                  w.registry[sc][p] = IF h.registry[sc][p] \in S
                                      THEN NoSession ELSE h.registry[sc][p]
             /\ \A sc \in Scopes : Members(w, sc) = Members(h, sc) \ S
             /\ Changed(h, S) = {sc \in Scopes : Members(h, sc) \cap S # {}}
             /\ Matching(w)
             /\ EnteredBut(h, S) => EnteredBut(w, {})
<1> DEFINE w == Without(h, S)
<1> DEFINE ad == [s \in Sessions |-> IF s \in S THEN NoAd ELSE h.ad[s]]
<1> DEFINE registry ==
      [sc \in Scopes |-> [p \in Peers |->
         IF Owned(h, S, sc, p) THEN NoSession ELSE h.registry[sc][p]]]
<1>0. NoSession \notin S
  BY AdAssumption
<1>1. ASSUME NEW sc \in Scopes, NEW p \in Peers
      PROVE  Owned(h, S, sc, p) <=> h.registry[sc][p] \in S
  BY <1>0 DEF Owned, Matching
<1>2. w = [h EXCEPT !.ad = ad, !.registry = registry]
  BY DEF Without
<1>3. ad \in [Sessions -> Ads \cup {NoAd}]
  BY DEF HubType
<1>4. registry \in [Scopes -> [Peers -> Sessions \cup {NoSession}]]
  BY DEF HubType
<1>5. \A sc \in Scopes, p \in Peers :
        registry[sc][p] = IF h.registry[sc][p] \in S
                          THEN NoSession ELSE h.registry[sc][p]
  BY <1>1
<1>6. \A s \in Sessions : ad[s] = IF s \in S THEN NoAd ELSE h.ad[s]
  OBVIOUS
<1> HIDE DEF w, ad, registry
<1>7. w \in HubType
  BY <1>2, <1>3, <1>4 DEF HubType
<1>8. /\ w.closed = h.closed /\ w.used = h.used /\ w.missed = h.missed
      /\ w.sessions = h.sessions /\ w.scopes = h.scopes
      /\ w.view = h.view /\ w.ad = ad /\ w.registry = registry
  BY <1>2 DEF HubType
<1>9. \A sc \in Scopes : Members(w, sc) = Members(h, sc) \ S
  BY <1>0, <1>5, <1>8 DEF Members
<1>10. Changed(h, S) = {sc \in Scopes : Members(h, sc) \cap S # {}}
  BY <1>0, <1>1 DEF Changed, Members
<1>11. Matching(w)
  <2> SUFFICES ASSUME NEW sc \in Scopes, NEW p \in Peers,
                      w.registry[sc][p] # NoSession
               PROVE  /\ w.ad[w.registry[sc][p]] # NoAd
                      /\ ScopeOf[w.ad[w.registry[sc][p]]] = sc
                      /\ PeerOf[w.ad[w.registry[sc][p]]] = p
    BY DEF Matching
  <2> DEFINE s == h.registry[sc][p]
  <2>1. s \notin S /\ w.registry[sc][p] = s /\ s # NoSession
    BY <1>5, <1>8
  <2>2. s \in Sessions
    BY <2>1 DEF HubType
  <2> QED
    BY <1>6, <1>8, <2>1, <2>2 DEF Matching
<1>12. ASSUME EnteredBut(h, S) PROVE EnteredBut(w, {})
  <2> SUFFICES ASSUME NEW s \in Sessions, w.ad[s] # NoAd
               PROVE  w.registry[ScopeOf[w.ad[s]]][PeerOf[w.ad[s]]] = s
    BY DEF EnteredBut
  <2>1. s \notin S /\ w.ad[s] = h.ad[s]
    BY <1>6, <1>8
  <2>2. ScopeOf[h.ad[s]] \in Scopes /\ PeerOf[h.ad[s]] \in Peers
    BY <2>1, AdAssumption DEF HubType
  <2> QED
    BY <1>5, <1>8, <1>12, <2>1, <2>2 DEF EnteredBut
<1> QED
  BY <1>5, <1>6, <1>7, <1>8, <1>9, <1>10, <1>11, <1>12 DEF w

(* A removal takes exactly the sessions of S out of their scopes, drops    *)
(* the scopes that became empty, and leaves nobody behind with an old list *)
(* but those of D, whose lists were old before.                            *)
LEMMA RemovalEffect ==
  ASSUME NEW h \in HubType, NEW S \in SUBSET Sessions, NEW D \in SUBSET Scopes,
         NEW failing \in SUBSET Sessions,
         Matching(h), EnteredBut(h, S), Live(h), CurrentBut(h, D)
  PROVE  LET r == RemoveRegistrations(h, S, failing)
         IN  /\ r \in HubType /\ Freed(h, r, S) /\ r.sessions = h.sessions
             /\ Matching(r) /\ EnteredBut(r, {}) /\ Live(r) /\ CurrentBut(r, D)
<1> DEFINE w == Without(h, S)
           changed == Changed(h, S)
           emptied == Emptied(w, changed)
           x == [w EXCEPT !.scopes = @ \ emptied]
           r == BroadcastScopes(x, changed \ emptied, failing)
<1>1. RemoveRegistrations(h, S, failing) = r
  BY DEF RemoveRegistrations
<1>2. /\ w \in HubType
      /\ w.closed = h.closed /\ w.used = h.used /\ w.missed = h.missed
      /\ w.sessions = h.sessions /\ w.scopes = h.scopes /\ w.view = h.view
      /\ \A s \in Sessions : w.ad[s] = IF s \in S THEN NoAd ELSE h.ad[s]
      /\ \A sc \in Scopes, p \in Peers :
           w.registry[sc][p] = IF h.registry[sc][p] \in S
                               THEN NoSession ELSE h.registry[sc][p]
      /\ \A sc \in Scopes : Members(w, sc) = Members(h, sc) \ S
      /\ changed = {sc \in Scopes : Members(h, sc) \cap S # {}}
      /\ Matching(w) /\ EnteredBut(w, {})
  BY WithoutEffect
<1>3. changed \in SUBSET Scopes /\ changed \ emptied \in SUBSET Scopes
  BY <1>2
<1>4. emptied = {sc \in changed : Members(w, sc) = {}}
  BY DEF Emptied
<1> HIDE DEF w, changed, emptied
<1>5. /\ x \in HubType
      /\ x.closed = w.closed /\ x.used = w.used /\ x.missed = w.missed
      /\ x.sessions = w.sessions /\ x.scopes = w.scopes \ emptied
      /\ x.view = w.view /\ x.ad = w.ad /\ x.registry = w.registry
  BY <1>2 DEF HubType
<1> HIDE DEF x
<1>6. \A sc \in Scopes : Members(x, sc) = Members(w, sc)
  BY <1>5 DEF Members
<1>7. Matching(x) /\ EnteredBut(x, {})
  BY <1>2, <1>5 DEF Matching, EnteredBut
<1>8. Live(x)
  <2>1. \A sc \in Scopes :
          sc \in h.scopes \ emptied <=> Members(h, sc) \ S # {}
    BY <1>2, <1>3, <1>4 DEF Live
  <2>2. x.scopes \subseteq Scopes
    BY <1>5 DEF HubType
  <2> QED
    BY <1>2, <1>5, <1>6, <2>1, <2>2 DEF Live
<1>9. CurrentBut(x, (changed \ emptied) \cup D)
  <2> SUFFICES ASSUME NEW s \in x.sessions \ x.missed, x.ad[s] # NoAd,
                      ScopeOf[x.ad[s]] \notin (changed \ emptied) \cup D
               PROVE  x.view[s] = Listed(x, ScopeOf[x.ad[s]])
    BY DEF CurrentBut
  <2> DEFINE sc == ScopeOf[h.ad[s]]
  <2>1. s \in Sessions /\ s \notin S /\ x.ad[s] = h.ad[s]
    BY <1>2, <1>5 DEF HubType
  <2>2. sc \in Scopes
    BY <1>5, <2>1, AdAssumption DEF HubType
  <2>3. s \in Members(x, sc)
    BY <1>5, <1>7, <2>1, <2>2, MemberOf
  <2>4. sc \notin changed
    BY <1>4, <1>6, <2>1, <2>2, <2>3
  <2>5. Members(x, sc) = Members(h, sc)
    <3>1. Members(h, sc) \cap S = {}
      BY <1>2, <2>2, <2>4
    <3>2. Members(x, sc) = Members(h, sc) \ S
      BY <1>2, <1>6, <2>2
    <3> QED
      BY <3>1, <3>2
  <2>6. \A q \in Members(h, sc) : x.ad[q] = h.ad[q]
    BY <1>2, <1>5, <2>2, <2>4, MembersFinite
  <2>7. Listed(x, sc) = Listed(h, sc)
    BY <1>5, <2>2, <2>5, <2>6, SameList
  <2>8. h.view[s] = Listed(h, sc)
    BY <1>2, <1>5, <2>1 DEF CurrentBut
  <2> QED
    BY <1>2, <1>5, <2>1, <2>7, <2>8
<1>10. r \in HubType /\ OnlyTold(x, r)
  BY <1>3, <1>5, BroadcastEffect
<1>11. CurrentBut(r, D)
  BY <1>3, <1>5, <1>7, <1>9, BroadcastTells
<1> HIDE DEF r
<1>12. Matching(r) /\ EnteredBut(r, {}) /\ Live(r)
  BY <1>7, <1>8, <1>10 DEF Matching, EnteredBut, Live, OnlyTold
<1>13. Freed(h, r, S) /\ r.sessions = h.sessions
  BY <1>2, <1>5, <1>6, <1>10 DEF Freed, OnlyTold
<1> QED
  BY <1>1, <1>10, <1>11, <1>12, <1>13

(* Fewer entries, and scopes that still have some, keep the limits.        *)
LEMMA FewerKeepLimits ==
  ASSUME NEW h \in HubType, NEW g \in HubType, options \in Options,
         Limited(h), Live(h), Live(g),
         \A sc \in Scopes : Members(g, sc) \subseteq Members(h, sc)
  PROVE  Limited(g)
<1>1. options.maxScopes \in Nat /\ options.maxPeersPerScope \in Nat
  BY OptionsAssumption
<1>2. IsFiniteSet(h.scopes)
  BY LimitAssumption, FS_Subset DEF HubType
<1>3. g.scopes \in SUBSET h.scopes
  BY DEF Live
<1>4. /\ Cardinality(g.scopes) <= Cardinality(h.scopes)
      /\ Cardinality(g.scopes) \in Nat /\ Cardinality(h.scopes) \in Nat
  BY <1>2, <1>3, FS_Subset, FS_CardinalityType
<1>5. Cardinality(g.scopes) <= options.maxScopes
  BY <1>1, <1>4 DEF Limited
<1>6. ASSUME NEW sc \in Scopes
      PROVE  Cardinality(Members(g, sc)) <= options.maxPeersPerScope
  <2>1. IsFiniteSet(Members(h, sc)) /\ Members(g, sc) \in SUBSET Members(h, sc)
    BY MembersFinite
  <2>2. /\ Cardinality(Members(g, sc)) <= Cardinality(Members(h, sc))
        /\ Cardinality(Members(g, sc)) \in Nat
        /\ Cardinality(Members(h, sc)) \in Nat
    BY <2>1, FS_Subset, FS_CardinalityType
  <2> QED
    BY <1>1, <2>2 DEF Limited
<1> QED
  BY <1>5, <1>6 DEF Limited

(* Closing sessions keeps the hub consistent.                              *)
LEMMA ClosingEffect ==
  ASSUME NEW h \in HubType, NEW S \in SUBSET Sessions, NEW D \in SUBSET Scopes,
         NEW failing \in SUBSET Sessions,
         Matching(h), EnteredBut(h, S \cap h.sessions), Within(h), Live(h),
         CurrentBut(h, D)
  PROVE  LET r == CloseSessions(h, S, failing)
         IN  /\ r \in HubType /\ Freed(h, r, S) /\ r.sessions = h.sessions \ S
             /\ Matching(r) /\ EnteredBut(r, {}) /\ Within(r) /\ Live(r)
             /\ CurrentBut(r, D)
<1> DEFINE open == S \cap h.sessions
           x == [h EXCEPT !.sessions = @ \ open]
           r == RemoveRegistrations(x, open, failing)
<1>1. CloseSessions(h, S, failing) = r
  BY DEF CloseSessions
<1>2. open \in SUBSET Sessions
  OBVIOUS
<1>3. /\ x \in HubType
      /\ x.closed = h.closed /\ x.used = h.used /\ x.missed = h.missed
      /\ x.sessions = h.sessions \ S /\ x.scopes = h.scopes
      /\ x.view = h.view /\ x.ad = h.ad /\ x.registry = h.registry
  BY DEF HubType
<1> HIDE DEF x
<1>4. \A sc \in Scopes : Members(x, sc) = Members(h, sc)
  BY <1>3 DEF Members
<1>5. Matching(x) /\ EnteredBut(x, open) /\ Live(x)
  BY <1>3, <1>4 DEF Matching, EnteredBut, Live
<1>6. CurrentBut(x, D)
  <2> SUFFICES ASSUME NEW s \in x.sessions \ x.missed, x.ad[s] # NoAd,
                      ScopeOf[x.ad[s]] \notin D
               PROVE  x.view[s] = Listed(x, ScopeOf[x.ad[s]])
    BY DEF CurrentBut
  <2>1. s \in Sessions /\ x.ad[s] \in Ads
    BY <1>3 DEF HubType
  <2>2. Listed(x, ScopeOf[x.ad[s]]) = Listed(h, ScopeOf[x.ad[s]])
    BY <1>3, <1>4, <2>1, AdAssumption, SameList
  <2> QED
    BY <1>3, <2>2 DEF CurrentBut
<1>7. /\ r \in HubType /\ Freed(x, r, open) /\ r.sessions = x.sessions
      /\ Matching(r) /\ EnteredBut(r, {}) /\ Live(r) /\ CurrentBut(r, D)
  BY <1>2, <1>3, <1>5, <1>6, RemovalEffect
<1> HIDE DEF r
<1>8. \A sc \in Scopes, p \in Peers :
        h.registry[sc][p] \in S => h.registry[sc][p] \in h.sessions
  <2> TAKE sc \in Scopes, p \in Peers
  <2> HAVE h.registry[sc][p] \in S
  <2>1. h.registry[sc][p] # NoSession
    BY AdAssumption
  <2> QED
    BY <2>1 DEF Matching, Within
<1>9. \A sc \in Scopes : Members(r, sc) = Members(h, sc) \ S
  <2> TAKE sc \in Scopes
  <2>1. Members(h, sc) \cap S \subseteq h.sessions
    BY <1>8 DEF Members
  <2> QED
    BY <1>4, <1>7, <2>1 DEF Freed
<1>10. \A s \in Sessions : r.ad[s] = IF s \in S THEN NoAd ELSE h.ad[s]
  BY <1>3, <1>7 DEF Within, Freed
<1>11. Within(r)
  BY <1>3, <1>7, <1>10 DEF Within
<1>12. \A sc \in Scopes, p \in Peers :
         r.registry[sc][p] = IF h.registry[sc][p] \in S
                             THEN NoSession ELSE h.registry[sc][p]
  BY <1>3, <1>7, <1>8 DEF Freed
<1>13. Freed(h, r, S) /\ r.sessions = h.sessions \ S
  BY <1>3, <1>7, <1>9, <1>10, <1>12 DEF Freed
<1> QED
  BY <1>1, <1>7, <1>11, <1>13

(* Closing sessions keeps a consistent hub consistent.                     *)
LEMMA ClosingKeeps ==
  ASSUME NEW h \in HubType, NEW S \in SUBSET Sessions,
         NEW failing \in SUBSET Sessions, options \in Options, Consistent(h)
  PROVE  /\ CloseSessions(h, S, failing) \in HubType
         /\ Freed(h, CloseSessions(h, S, failing), S)
         /\ CloseSessions(h, S, failing).sessions = h.sessions \ S
         /\ Consistent(CloseSessions(h, S, failing))
<1> DEFINE r == CloseSessions(h, S, failing)
<1>1. EnteredBut(h, S \cap h.sessions)
  BY DEF Consistent, EnteredBut
<1>2. /\ r \in HubType /\ Freed(h, r, S) /\ r.sessions = h.sessions \ S
      /\ Matching(r) /\ EnteredBut(r, {}) /\ Within(r) /\ Live(r)
      /\ CurrentBut(r, {})
  BY <1>1, ClosingEffect DEF Consistent
<1> HIDE DEF r
<1>3. \A sc \in Scopes : Members(r, sc) \subseteq Members(h, sc)
  BY <1>2 DEF Freed
<1>4. Limited(r)
  BY <1>2, <1>3, FewerKeepLimits DEF Consistent
<1> QED
  BY <1>2, <1>4 DEF Consistent, r

(* A registration that there is room for keeps the limits.                 *)
LEMMA RoomKeepsLimits ==
  ASSUME NEW h \in HubType, NEW g \in HubType, options \in Options,
         Matching(h), Live(h), Limited(h),
         NEW sc \in Scopes, NEW p \in Peers, ~Full(h, sc, p),
         NEW s \in Sessions, g.scopes = h.scopes \cup {sc},
         \A c \in Scopes \ {sc} : Members(g, c) = Members(h, c),
         Members(g, sc) = (Members(h, sc) \ {h.registry[sc][p]}) \cup {s}
  PROVE  Limited(g)
<1>1. options.maxScopes \in Nat /\ options.maxPeersPerScope \in Nat
  BY OptionsAssumption
<1>2. IsFiniteSet(h.scopes) /\ Cardinality(h.scopes) \in Nat
  BY LimitAssumption, FS_Subset, FS_CardinalityType DEF HubType
<1>3. Cardinality(g.scopes) = IF sc \in h.scopes THEN Cardinality(h.scopes)
                              ELSE Cardinality(h.scopes) + 1
  BY <1>2, FS_AddElement
<1>4. Cardinality(g.scopes) <= options.maxScopes
  BY <1>1, <1>2, <1>3 DEF Full, Limited
<1> DEFINE old == h.registry[sc][p]
           rest == Members(h, sc) \ {old}
<1>5. IsFiniteSet(Members(h, sc)) /\ Cardinality(Members(h, sc)) \in Nat
  BY MembersFinite, FS_CardinalityType
<1>6. /\ IsFiniteSet(rest)
      /\ Cardinality(rest) = IF old \in Members(h, sc)
                             THEN Cardinality(Members(h, sc)) - 1
                             ELSE Cardinality(Members(h, sc))
  BY <1>5, FS_RemoveElement
<1>7. old # NoSession => old \in Members(h, sc)
  BY DEF Members
<1> HIDE DEF rest, old
<1>8. Cardinality(rest) \in Nat
  BY <1>6, FS_CardinalityType
<1>9. Cardinality(rest) < options.maxPeersPerScope
  BY <1>1, <1>5, <1>6, <1>7 DEF Full, Limited, old
<1>10. Cardinality(rest \cup {s}) <= Cardinality(rest) + 1
  <2>1. Cardinality(rest \cup {s})
          = IF s \in rest THEN Cardinality(rest) ELSE Cardinality(rest) + 1
    BY <1>6, FS_AddElement
  <2> QED
    BY <1>8, <2>1
<1>11. IsFiniteSet(rest \cup {s}) /\ Cardinality(rest \cup {s}) \in Nat
  BY <1>6, FS_AddElement, FS_CardinalityType
<1>12. Cardinality(Members(g, sc)) <= options.maxPeersPerScope
  BY <1>1, <1>8, <1>9, <1>10, <1>11 DEF rest, old
<1>13. \A c \in Scopes \ {sc} :
         Cardinality(Members(g, c)) <= options.maxPeersPerScope
  BY DEF Limited
<1> QED
  BY <1>4, <1>12, <1>13 DEF Limited

EnteredFor(h, s, a) ==
  [h EXCEPT !.scopes = @ \cup {ScopeOf[a]}, !.ad[s] = a,
            !.registry[ScopeOf[a]][PeerOf[a]] = s]

EnteredOnly(h, e, s, a) ==
  /\ e.closed = h.closed /\ e.used = h.used /\ e.sessions = h.sessions
  /\ \A q \in Sessions : e.ad[q] = IF q = s THEN a ELSE h.ad[q]

(* Entering session s for advertisement a takes the place of the session   *)
(* that is there, which is then the only one with an advertisement that is *)
(* not entered; only the lists of that scope are old.                      *)
LEMMA EnteringEffect ==
  ASSUME NEW h \in HubType, options \in Options, Consistent(h),
         NEW s \in h.sessions, h.ad[s] = NoAd, NEW a \in Ads,
         ~Full(h, ScopeOf[a], PeerOf[a])
  PROVE  LET e == EnteredFor(h, s, a)
         IN  /\ e \in HubType /\ EnteredOnly(h, e, s, a) /\ Matching(e)
             /\ EnteredBut(e, {h.registry[ScopeOf[a]][PeerOf[a]]} \ {NoSession})
             /\ Within(e) /\ Live(e) /\ Limited(e)
             /\ CurrentBut(e, {ScopeOf[a]})
<1> DEFINE e == EnteredFor(h, s, a)
           sc == ScopeOf[a]
           p == PeerOf[a]
           old == h.registry[sc][p]
<1>1. sc \in Scopes /\ p \in Peers /\ s \in Sessions
  BY AdAssumption DEF HubType
<1>2. /\ e.closed = h.closed /\ e.used = h.used
      /\ e.sessions = h.sessions /\ e.missed = h.missed /\ e.view = h.view
      /\ e.scopes = h.scopes \cup {sc}
      /\ e.ad = [h.ad EXCEPT ![s] = a]
      /\ e.registry = [h.registry EXCEPT ![sc][p] = s]
  BY DEF HubType, EnteredFor
<1>3. e \in HubType
  <2>1. [h.ad EXCEPT ![s] = a] \in [Sessions -> Ads \cup {NoAd}]
    BY <1>1 DEF HubType
  <2>2. [h.registry EXCEPT ![sc][p] = s]
          \in [Scopes -> [Peers -> Sessions \cup {NoSession}]]
    BY <1>1 DEF HubType
  <2> QED
    BY <1>1, <2>1, <2>2 DEF HubType, EnteredFor
<1> HIDE DEF e
<1>4. \A c \in Scopes, q \in Peers :
        e.registry[c][q] = IF c = sc /\ q = p THEN s ELSE h.registry[c][q]
  BY <1>1, <1>2 DEF HubType
<1>5. \A t \in Sessions : e.ad[t] = IF t = s THEN a ELSE h.ad[t]
  BY <1>2 DEF HubType
<1>6. \A c \in Scopes, q \in Peers : h.registry[c][q] # s
  BY <1>1, AdAssumption DEF Consistent, Matching
<1> HIDE DEF old
<1>7. Matching(e)
  <2> SUFFICES ASSUME NEW c \in Scopes, NEW q \in Peers,
                      e.registry[c][q] # NoSession
               PROVE  /\ e.ad[e.registry[c][q]] # NoAd
                      /\ ScopeOf[e.ad[e.registry[c][q]]] = c
                      /\ PeerOf[e.ad[e.registry[c][q]]] = q
    BY DEF Matching
  <2>1. CASE c = sc /\ q = p
    BY <1>1, <1>4, <1>5, <2>1, AdAssumption
  <2>2. CASE ~(c = sc /\ q = p)
    <3>1. e.registry[c][q] = h.registry[c][q]
      BY <1>4, <2>2
    <3>2. h.registry[c][q] \in Sessions \ {s}
      BY <1>6, <3>1 DEF HubType
    <3>3. e.ad[h.registry[c][q]] = h.ad[h.registry[c][q]]
      BY <1>5, <3>2
    <3> QED
      BY <3>1, <3>3 DEF Consistent, Matching
  <2> QED
    BY <2>1, <2>2
<1>8. EnteredBut(e, {old} \ {NoSession})
  <2> SUFFICES ASSUME NEW t \in Sessions, t # old, e.ad[t] # NoAd
               PROVE  e.registry[ScopeOf[e.ad[t]]][PeerOf[e.ad[t]]] = t
    BY AdAssumption DEF EnteredBut
  <2>1. CASE t = s
    BY <1>1, <1>4, <1>5, <2>1
  <2>2. CASE t # s
    <3>1. e.ad[t] = h.ad[t] /\ h.ad[t] \in Ads
      BY <1>5, <2>2 DEF HubType
    <3>2. h.registry[ScopeOf[h.ad[t]]][PeerOf[h.ad[t]]] = t
      BY <3>1 DEF Consistent, EnteredBut
    <3>3. ScopeOf[h.ad[t]] \in Scopes /\ PeerOf[h.ad[t]] \in Peers
      BY <3>1, AdAssumption
    <3> QED
      BY <1>4, <3>1, <3>2, <3>3 DEF old
  <2> QED
    BY <2>1, <2>2
<1>9. Within(e)
  BY <1>2, <1>5 DEF Consistent, Within
<1>10. \A c \in Scopes \ {sc} : Members(e, c) = Members(h, c)
  BY <1>4 DEF Members
<1>11. Members(e, sc) = (Members(h, sc) \ {old}) \cup {s}
  <2>1. \A q \in Peers : q # p /\ h.registry[sc][q] # NoSession
                           => h.registry[sc][q] # old
    BY <1>1 DEF old, Consistent, Matching
  <2>2. s # NoSession
    BY <1>1, AdAssumption
  <2> QED
    BY <1>1, <1>4, <2>1, <2>2 DEF Members, old
<1>12. Live(e)
  <2>1. h.scopes \subseteq Scopes
    BY DEF HubType
  <2> QED
    BY <1>1, <1>2, <1>10, <1>11, <2>1 DEF Consistent, Live
<1>13. Limited(e)
  <2>1. Matching(h) /\ Live(h) /\ Limited(h)
    BY DEF Consistent
  <2>2. Members(e, sc) = (Members(h, sc) \ {h.registry[sc][p]}) \cup {s}
    BY <1>11 DEF old
  <2>3. e.scopes = h.scopes \cup {sc}
    BY <1>2
  <2>4. /\ h \in HubType /\ e \in HubType /\ sc \in Scopes /\ p \in Peers
        /\ s \in Sessions /\ ~Full(h, sc, p)
    BY <1>1, <1>3
  <2> HIDE DEF sc, p
  <2> QED
    BY <1>10, <2>1, <2>2, <2>3, <2>4, RoomKeepsLimits, SMTT(30)
<1>14. CurrentBut(e, {sc})
  <2> SUFFICES ASSUME NEW t \in e.sessions \ e.missed, e.ad[t] # NoAd,
                      ScopeOf[e.ad[t]] # sc
               PROVE  e.view[t] = Listed(e, ScopeOf[e.ad[t]])
    BY DEF CurrentBut
  <2> DEFINE c == ScopeOf[h.ad[t]]
  <2>1. t \in Sessions /\ t # s /\ e.ad[t] = h.ad[t] /\ c \in Scopes
    BY <1>1, <1>2, <1>5, AdAssumption DEF HubType
  <2>2. \A q \in Members(h, c) : e.ad[q] = h.ad[q]
    <3>1. s \notin Members(h, c)
      BY <1>6, <2>1 DEF Members
    <3> QED
      BY <1>5, <2>1, <3>1, MembersFinite
  <2>3. Listed(e, c) = Listed(h, c)
    <3>1. c # sc
      BY <2>1
    <3>2. Members(e, c) = Members(h, c)
      BY <1>10, <2>1, <3>1
    <3> QED
      BY <1>3, <2>1, <2>2, <3>2, SameList
  <2> QED
    BY <1>2, <2>1, <2>3 DEF Consistent, CurrentBut
<1> QED
  BY <1>2, <1>3, <1>5, <1>7, <1>8, <1>9, <1>12, <1>13, <1>14
  DEF old, e, EnteredOnly

(* From h to r, the sessions that are left have what they had, but s has a. *)
Registered(h, r, s, a) ==
  /\ r.closed = h.closed /\ r.used = h.used /\ r.sessions \subseteq h.sessions
  /\ \A q \in r.sessions : r.ad[q] = IF q = s THEN a ELSE h.ad[q]

(* A registration keeps the hub consistent.  The sessions it closes are s  *)
(* itself, when there is no room, or the one that s replaces.              *)
LEMMA RegisterKeeps ==
  ASSUME NEW h \in HubType, options \in Options, Consistent(h),
         NEW s \in h.sessions, NEW a \in Ads, NEW failing \in SUBSET Sessions
  PROVE  /\ Register(h, s, a, failing) \in HubType
         /\ Registered(h, Register(h, s, a, failing), s, a)
         /\ Consistent(Register(h, s, a, failing))
<1> DEFINE left == RemoveRegistrations(h, {s}, failing)
           sc == ScopeOf[a]
           p == PeerOf[a]
           existing == left.registry[sc][p]
           entered == EnteredFor(left, s, a)
           gone == {existing} \ {NoSession, s}
           x == CloseSessions(entered, gone, failing)
           r == BroadcastScopes(x, {sc}, failing)
<1>1. Register(h, s, a, failing) = IF Full(left, sc, p)
                                     THEN CloseSessions(left, {s}, failing)
                                     ELSE r
  BY DEF Register, EnteredFor
<1>2. s \in Sessions /\ sc \in Scopes /\ p \in Peers
  BY AdAssumption DEF HubType
<1>3. /\ left \in HubType /\ Freed(h, left, {s}) /\ left.sessions = h.sessions
      /\ Matching(left) /\ EnteredBut(left, {}) /\ Live(left)
      /\ CurrentBut(left, {})
  <2>1. EnteredBut(h, {s}) /\ Matching(h) /\ Live(h) /\ CurrentBut(h, {})
    BY DEF Consistent, EnteredBut
  <2> QED
    BY <1>2, <2>1, RemovalEffect
<1> HIDE DEF left
<1>4. /\ left.closed = h.closed /\ left.used = h.used /\ left.ad[s] = NoAd
      /\ \A q \in Sessions \ {s} : left.ad[q] = h.ad[q]
      /\ \A c \in Scopes : Members(left, c) \subseteq Members(h, c)
  BY <1>2, <1>3 DEF Freed
<1>5. Limited(left)
  BY <1>3, <1>4, FewerKeepLimits DEF Consistent
<1>6. Within(left)
  BY <1>3 DEF Freed, Consistent, Within
<1>7. Consistent(left)
  BY <1>3, <1>5, <1>6 DEF Consistent
<1>8. CASE Full(left, sc, p)
  <2> DEFINE c == CloseSessions(left, {s}, failing)
  <2>1. /\ c \in HubType /\ Freed(left, c, {s}) /\ Consistent(c)
        /\ c.sessions = left.sessions \ {s}
    BY <1>2, <1>3, <1>7, ClosingKeeps
  <2> HIDE DEF c
  <2>2. Registered(h, c, s, a)
    BY <1>3, <1>4, <2>1 DEF Freed, Registered, HubType
  <2>3. Register(h, s, a, failing) = c
    BY <1>1, <1>8 DEF c
  <2> QED
    BY <2>1, <2>2, <2>3
<1>9. CASE ~Full(left, sc, p)
  <2>1. /\ entered \in HubType /\ entered.used = left.used
        /\ entered.closed = left.closed /\ entered.sessions = left.sessions
        /\ \A q \in Sessions :
             entered.ad[q] = IF q = s THEN a ELSE left.ad[q]
        /\ Matching(entered) /\ EnteredBut(entered, {existing} \ {NoSession})
        /\ Within(entered) /\ Live(entered) /\ Limited(entered)
        /\ CurrentBut(entered, {sc})
    <3>1. /\ entered \in HubType /\ EnteredOnly(left, entered, s, a)
          /\ Matching(entered) /\ EnteredBut(entered, {existing} \ {NoSession})
          /\ Within(entered) /\ Live(entered) /\ Limited(entered)
          /\ CurrentBut(entered, {sc})
      BY <1>3, <1>4, <1>7, <1>9, EnteringEffect
    <3> QED
      BY <3>1 DEF EnteredOnly
  <2>2. existing \in Sessions \cup {NoSession} /\ existing # s
    BY <1>2, <1>3, <1>4, AdAssumption DEF HubType, Matching
  <2>3. existing # NoSession => existing \in left.sessions
    BY <1>2, <1>3, <1>6, <2>2 DEF Matching, Within
  <2> HIDE DEF entered, existing
  <2>4. /\ gone \in SUBSET Sessions /\ gone \cap entered.sessions = gone
        /\ {sc} \in SUBSET Scopes
    BY <1>2, <2>1, <2>2, <2>3
  <2>5. EnteredBut(entered, gone \cap entered.sessions)
    BY <2>1, <2>2, <2>4 DEF EnteredBut
  <2> HIDE DEF gone
  <2>6. /\ x \in HubType /\ Freed(entered, x, gone)
        /\ x.sessions = entered.sessions \ gone
        /\ Matching(x) /\ EnteredBut(x, {}) /\ Within(x) /\ Live(x)
        /\ CurrentBut(x, {sc})
    <3> DEFINE D == {sc}
    <3>1. /\ entered \in HubType /\ Matching(entered) /\ Within(entered)
          /\ Live(entered) /\ CurrentBut(entered, D)
          /\ D \in SUBSET Scopes /\ gone \in SUBSET Sessions
      BY <2>1, <2>4
    <3> HIDE DEF D
    <3>2. /\ x \in HubType /\ Freed(entered, x, gone)
          /\ x.sessions = entered.sessions \ gone
          /\ Matching(x) /\ EnteredBut(x, {}) /\ Within(x) /\ Live(x)
          /\ CurrentBut(x, D)
      BY <2>5, <3>1, ClosingEffect
    <3> QED
      BY <3>2 DEF D
  <2> HIDE DEF x
  <2>7. Limited(x)
    <3>1. \A c \in Scopes : Members(x, c) \subseteq Members(entered, c)
      BY <2>6 DEF Freed
    <3> QED
      BY <2>1, <2>6, <3>1, FewerKeepLimits
  <2>8. r \in HubType /\ OnlyTold(x, r)
    BY <1>2, <2>6, BroadcastEffect
  <2>9. CurrentBut(r, {})
    <3>1. CurrentBut(x, {sc} \cup {})
      BY <2>6
    <3> QED
      BY <1>2, <2>6, <3>1, BroadcastTells
  <2> HIDE DEF r
  <2>10. Matching(r) /\ EnteredBut(r, {}) /\ Within(r) /\ Live(r) /\ Limited(r)
    BY <2>6, <2>7, <2>8
    DEF OnlyTold, Matching, EnteredBut, Within, Live, Limited
  <2>11. Registered(h, r, s, a)
    <3>1. /\ r.closed = h.closed /\ r.used = h.used
          /\ r.sessions = left.sessions \ gone
          /\ \A q \in Sessions \ gone : r.ad[q] = entered.ad[q]
      BY <1>4, <2>1, <2>6, <2>8 DEF Freed, OnlyTold
    <3>2. \A q \in r.sessions : r.ad[q] = IF q = s THEN a ELSE h.ad[q]
      <4> TAKE q \in r.sessions
      <4>1. q \in Sessions \ gone
        BY <3>1, <1>3 DEF HubType
      <4> QED
        BY <1>4, <2>1, <3>1, <4>1
    <3> QED
      BY <1>3, <3>1, <3>2 DEF Registered
  <2> QED
    BY <1>1, <1>9, <2>8, <2>9, <2>10, <2>11 DEF Consistent
<1> QED
  BY <1>8, <1>9

------------------------------------------------------------------------------
(* The steps of the hub.                                                   *)

(* A hub that stays consistent, with no new sessions, keeps its part of    *)
(* the invariant.                                                          *)
LEMMA HubKept ==
  ASSUME HubInv, NEW h \in HubType, Consistent(h), hub' = h,
         h.sessions \subseteq h.used, UNCHANGED options
  PROVE  /\ hub' \in HubType /\ (hub.sessions \subseteq hub.used)'
         /\ Consistent(hub)'
<1>1. Matching(hub)' /\ EnteredBut(hub, {})' /\ Within(hub)'
  BY DEF Consistent, Matching, EnteredBut, Within
<1>2. Live(hub)' /\ Limited(hub)'
  BY DEF Consistent, Live, Limited, Members
<1>3. CurrentBut(hub, {})'
  BY DEF Consistent, CurrentBut, Members, Listed
<1>4. hub' \in HubType /\ (hub.sessions \subseteq hub.used)'
  OBVIOUS
<1> QED
  BY <1>1, <1>2, <1>3, <1>4 DEF Consistent

(* Every set of sends that may fail is a set of sessions.                  *)
LEMMA FailingSends ==
  ASSUME options \in Options, NEW failing \in options.failingSends
  PROVE  failing \in SUBSET Sessions
BY OptionsAssumption

(* A step that only closes sessions.                                       *)
LEMMA ClosingStep ==
  ASSUME HubInv, NEW S \in SUBSET Sessions, NEW failing \in options.failingSends,
         hub' = CloseSessions(hub, S, failing),
         UNCHANGED <<timestamp, windowStarted, messageCount, now, options>>,
         \A s \in Sessions : authorizing'[s] \in {authorizing[s], Idle},
         authorizing' \in [Sessions -> Waiting \cup {Idle}]
  PROVE  HubInv' /\ \A s \in Sessions : timestamp'[s] >= timestamp[s]
<1> DEFINE r == CloseSessions(hub, S, failing)
<1>1. hub \in HubType /\ failing \in SUBSET Sessions /\ Consistent(hub)
  BY FailingSends DEF HubInv, TypeOK
<1>2. /\ r \in HubType /\ Freed(hub, r, S) /\ Consistent(r)
      /\ r.sessions = hub.sessions \ S
  BY <1>1, ClosingKeeps DEF HubInv, TypeOK
<1>3. hub' = r
  OBVIOUS
<1> HIDE DEF r
<1>4. r.used = hub.used /\ r.sessions \subseteq r.used
  BY <1>2 DEF HubInv, Freed
<1>5. /\ hub' \in HubType /\ (hub.sessions \subseteq hub.used)'
      /\ Consistent(hub)'
  BY <1>2, <1>3, <1>4, HubKept
<1>6. TypeOK'
  BY <1>5 DEF HubInv, TypeOK
<1>7. Clocks'
  BY <1>3, <1>4 DEF HubInv, Clocks
<1>8. \A s \in Sessions : timestamp'[s] >= timestamp[s]
  BY DEF HubInv, TypeOK
<1> QED
  BY <1>5, <1>6, <1>7, <1>8 DEF HubInv

LEMMA OpenSessionStep ==
  ASSUME HubInv, NEW s \in Sessions, OpenSession(s)
  PROVE  HubInv' /\ \A q \in Sessions : timestamp'[q] >= timestamp[q]
<1> DEFINE h == [hub EXCEPT !.used = @ \cup {s},
                            !.sessions = IF hub.closed THEN @ ELSE @ \cup {s}]
<1> USE DEF OpenSession
<1>1. /\ hub \in HubType /\ hub' = h /\ s \notin hub.used
      /\ s \notin hub.sessions /\ hub.sessions \subseteq hub.used
  BY DEF HubInv, TypeOK
<1>2. /\ h \in HubType /\ h.used = hub.used \cup {s}
      /\ h.sessions \in {hub.sessions, hub.sessions \cup {s}}
      /\ h.closed = hub.closed /\ h.scopes = hub.scopes
      /\ h.registry = hub.registry /\ h.ad = hub.ad
      /\ h.view = hub.view /\ h.missed = hub.missed
  BY <1>1 DEF HubType
<1> HIDE DEF h
<1>3. hub.ad[s] = NoAd
  BY <1>1 DEF HubInv, Consistent, Within
<1>4. \A sc \in Scopes : Members(h, sc) = Members(hub, sc)
  BY <1>2 DEF Members
<1>5. CurrentBut(h, {})
  <2> SUFFICES ASSUME NEW q \in h.sessions \ h.missed, h.ad[q] # NoAd
               PROVE  h.view[q] = Listed(h, ScopeOf[h.ad[q]])
    BY DEF CurrentBut
  <2>1. q \in hub.sessions \ hub.missed /\ q \in Sessions
    BY <1>2, <1>3 DEF HubType
  <2>2. hub.view[q] = Listed(hub, ScopeOf[hub.ad[q]])
    BY <1>2, <2>1 DEF HubInv, Consistent, CurrentBut
  <2>3. ScopeOf[hub.ad[q]] \in Scopes
    BY <1>1, <1>2, <2>1, AdAssumption DEF HubType
  <2>4. Listed(h, ScopeOf[hub.ad[q]]) = Listed(hub, ScopeOf[hub.ad[q]])
    BY <1>1, <1>2, <1>4, <2>3, SameList
  <2> QED
    BY <1>2, <2>2, <2>4
<1>6. Consistent(h)
  BY <1>2, <1>4, <1>5
  DEF HubInv, Consistent, Matching, EnteredBut, Within, Live, Limited
<1>7. /\ hub' \in HubType /\ (hub.sessions \subseteq hub.used)'
      /\ Consistent(hub)'
  BY <1>1, <1>2, <1>6, HubKept
<1>8. timestamp' \in [Sessions -> 0..MaxNow] /\ now \in 0..MaxNow
  BY DEF HubInv, TypeOK
<1>9. \A q \in Sessions : timestamp'[q] = IF q = s THEN now ELSE timestamp[q]
  BY DEF HubInv, TypeOK
<1>10. \A q \in Sessions : timestamp[q] <= now /\ timestamp[q] \in 0..MaxNow
  BY DEF HubInv, TypeOK, Clocks
<1>11. TypeOK'
  BY <1>7, <1>8 DEF HubInv, TypeOK
<1>12. authorizing[s] = Idle
  BY <1>1 DEF HubInv, Clocks
<1>13. Clocks'
  BY <1>1, <1>2, <1>8, <1>9, <1>12 DEF HubInv, Clocks
<1> QED
  BY <1>7, <1>8, <1>9, <1>10, <1>11, <1>13 DEF HubInv

LEMMA ReceivePingStep ==
  ASSUME HubInv, NEW s \in Sessions, ReceivePing(s)
  PROVE  HubInv' /\ \A q \in Sessions : timestamp'[q] >= timestamp[q]
<1> USE DEF ReceivePing, CountMessage, Receivable
<1>1. /\ hub' \in HubType /\ (hub.sessions \subseteq hub.used)'
      /\ Consistent(hub)'
  BY HubKept DEF HubInv, TypeOK
<1>2. /\ windowStarted' \in [Sessions -> 0..MaxNow]
      /\ timestamp' \in [Sessions -> 0..MaxNow] /\ now \in 0..MaxNow
  BY DEF HubInv, TypeOK
<1>3. messageCount' \in [Sessions -> 0..options.maxMessages]
  <2>1. options.maxMessages \in Nat /\ messageCount[s] \in 0..options.maxMessages
    BY OptionsAssumption DEF HubInv, TypeOK
  <2>2. CountAfter(s) \in 0..options.maxMessages
    BY <2>1 DEF CountAfter
  <2> QED
    BY <2>2 DEF HubInv, TypeOK
<1>4. TypeOK'
  BY <1>1, <1>2, <1>3 DEF HubInv, TypeOK
<1>5. \A q \in Sessions : timestamp'[q] = IF q = s THEN now ELSE timestamp[q]
  BY DEF HubInv, TypeOK
<1>6. \A q \in Sessions : timestamp[q] <= now /\ timestamp[q] \in 0..MaxNow
  BY DEF HubInv, TypeOK, Clocks
<1>7. Clocks'
  BY <1>2, <1>5 DEF HubInv, Clocks
<1> QED
  BY <1>1, <1>2, <1>4, <1>5, <1>6, <1>7 DEF HubInv

LEMMA ReceiveRegisterStep ==
  ASSUME HubInv, NEW s \in Sessions, ReceiveRegister(s)
  PROVE  HubInv' /\ \A q \in Sessions : timestamp'[q] >= timestamp[q]
<1> USE DEF ReceiveRegister, CountMessage, Receivable
<1>1. /\ hub' \in HubType /\ (hub.sessions \subseteq hub.used)'
      /\ Consistent(hub)'
  BY HubKept DEF HubInv, TypeOK
<1>2. /\ windowStarted' \in [Sessions -> 0..MaxNow] /\ now \in 0..MaxNow
  BY DEF HubInv, TypeOK
<1>3. messageCount' \in [Sessions -> 0..options.maxMessages]
  <2>1. options.maxMessages \in Nat /\ messageCount[s] \in 0..options.maxMessages
    BY OptionsAssumption DEF HubInv, TypeOK
  <2>2. CountAfter(s) \in 0..options.maxMessages
    BY <2>1 DEF CountAfter
  <2> QED
    BY <2>2 DEF HubInv, TypeOK
<1>4. PICK a \in Ads :
        authorizing' = [authorizing EXCEPT ![s] = [ad |-> a, at |-> now]]
  OBVIOUS
<1>5. authorizing' \in [Sessions -> Waiting \cup {Idle}]
  <2>1. [ad |-> a, at |-> now] \in Waiting
    BY <1>2 DEF Waiting
  <2> QED
    BY <1>4, <2>1 DEF HubInv, TypeOK
<1>6. TypeOK'
  BY <1>1, <1>2, <1>3, <1>5 DEF HubInv, TypeOK
<1>7. \A q \in Sessions :
        authorizing'[q] = IF q = s THEN [ad |-> a, at |-> now] ELSE authorizing[q]
  BY <1>4 DEF HubInv, TypeOK
<1>8. \A q \in Sessions : timestamp[q] <= now /\ timestamp[q] \in 0..MaxNow
  BY DEF HubInv, TypeOK, Clocks
<1>9. s \in hub.used
  BY DEF HubInv
<1>10. Clocks'
  <2> SUFFICES ASSUME NEW q \in Sessions
               PROVE  /\ timestamp[q] <= now
                      /\ authorizing'[q] # Idle =>
                           /\ timestamp[q] <= authorizing'[q].at
                           /\ authorizing'[q].at <= now
                           /\ q \in hub.used
    BY DEF Clocks
  <2>1. CASE q = s
    BY <1>2, <1>7, <1>8, <1>9, <2>1
  <2>2. CASE q # s
    BY <1>7, <2>2 DEF HubInv, Clocks
  <2> QED
    BY <2>1, <2>2
<1>11. \A q \in Sessions : timestamp'[q] >= timestamp[q]
  BY <1>8
<1> QED
  BY <1>1, <1>6, <1>10, <1>11 DEF HubInv

(* What an awaited authorization leads to.                                 *)
LEMMA AuthorizedStep ==
  ASSUME HubInv, NEW s \in Sessions, Authorized(s)
  PROVE  HubInv' /\ \A q \in Sessions : timestamp'[q] >= timestamp[q]
<1> USE DEF Authorized, Settle
<1> DEFINE a == authorizing[s].ad
           at == authorizing[s].at
<1>1. /\ hub \in HubType /\ Consistent(hub) /\ options \in Options
      /\ hub.sessions \subseteq hub.used
  BY DEF HubInv, TypeOK
<1>2. authorizing[s] \in Waiting
  BY DEF HubInv, TypeOK
<1>3. /\ a \in Ads /\ at \in 0..MaxNow /\ timestamp[s] <= at /\ at <= now
      /\ timestamp[s] \in 0..MaxNow /\ now \in 0..MaxNow
  BY <1>2 DEF Waiting, HubInv, TypeOK, Clocks
<1>4. /\ authorizing' \in [Sessions -> Waiting \cup {Idle}]
      /\ \A q \in Sessions : authorizing'[q] = IF q = s THEN Idle
                                               ELSE authorizing[q]
  BY DEF HubInv, TypeOK
<1>5. \A q \in Sessions : timestamp[q] <= now /\ timestamp[q] \in 0..MaxNow
  BY DEF HubInv, TypeOK, Clocks
<1>6. /\ hub' \in HubType /\ Consistent(hub)'
      /\ (hub.sessions \subseteq hub.used)' /\ hub'.used = hub.used
  <2>1. CASE hub.closed \/ s \notin hub.sessions
    BY <1>1, <2>1, HubKept
  <2>2. CASE ~(hub.closed \/ s \notin hub.sessions)
    <3>1. PICK failing \in options.failingSends :
            hub' = Register(hub, s, a, failing)
      BY <2>2
    <3>2. /\ hub' \in HubType /\ hub'.used = hub.used
          /\ hub'.sessions \subseteq hub.sessions
          /\ Consistent(Register(hub, s, a, failing))
      BY <1>1, <1>3, <2>2, <3>1, FailingSends, RegisterKeeps DEF Registered
    <3> QED
      BY <1>1, <3>1, <3>2, HubKept
  <2> QED
    BY <2>1, <2>2
<1>7. timestamp' \in {timestamp, [timestamp EXCEPT ![s] = at]}
  <2>1. CASE hub.closed \/ s \notin hub.sessions
    BY <2>1
  <2>2. CASE ~(hub.closed \/ s \notin hub.sessions)
    BY <2>2
  <2> QED
    BY <2>1, <2>2
<1> HIDE DEF a, at
<1>8. /\ timestamp' \in [Sessions -> 0..MaxNow]
      /\ \A q \in Sessions :
           timestamp'[q] = timestamp[q] \/ (q = s /\ timestamp'[q] = at)
  BY <1>3, <1>7 DEF HubInv, TypeOK
<1>9. TypeOK'
  BY <1>4, <1>6, <1>8 DEF HubInv, TypeOK
<1>10. Clocks'
  BY <1>3, <1>4, <1>5, <1>6, <1>8 DEF HubInv, Clocks
<1>11. \A q \in Sessions : timestamp'[q] >= timestamp[q]
  BY <1>3, <1>5, <1>8
<1> QED
  BY <1>6, <1>9, <1>10, <1>11 DEF HubInv

(* Closing the hub closes every session; its scope map is cleared.         *)
LEMMA CloseHubStep ==
  ASSUME HubInv, CloseHub
  PROVE  HubInv' /\ \A q \in Sessions : timestamp'[q] >= timestamp[q]
<1> USE DEF CloseHub
<1> DEFINE h == [hub EXCEPT !.closed = TRUE]
<1>1. PICK failing \in options.failingSends :
        hub' = [CloseSessions(h, Sessions, failing) EXCEPT !.scopes = {}]
  OBVIOUS
<1> DEFINE r == CloseSessions(h, Sessions, failing)
<1>2. /\ h \in HubType /\ h.used = hub.used /\ h.sessions = hub.sessions
      /\ h.scopes = hub.scopes /\ h.registry = hub.registry
      /\ h.ad = hub.ad /\ h.view = hub.view /\ h.missed = hub.missed
  BY DEF HubInv, TypeOK, HubType
<1> HIDE DEF h
<1>3. Consistent(h)
  BY <1>2 DEF HubInv, Consistent, Matching, EnteredBut, Within, Live, Limited,
              CurrentBut, Members, Listed
<1>4. /\ r \in HubType /\ Freed(h, r, Sessions) /\ Consistent(r)
      /\ r.sessions = h.sessions \ Sessions
  <2>1. failing \in SUBSET Sessions /\ options \in Options
    BY FailingSends DEF HubInv, TypeOK
  <2> QED
    BY <1>2, <1>3, <2>1, ClosingKeeps
<1>5. r.scopes = {}
  <2>1. \A sc \in Scopes : Members(r, sc) = {}
    BY <1>2, <1>4, MembersFinite DEF Freed
  <2> QED
    BY <1>4, <2>1 DEF Consistent, Live
<1> HIDE DEF r
<1>6. hub' = r
  BY <1>1, <1>4, <1>5 DEF HubType, r
<1>7. r.used = hub.used /\ r.sessions \subseteq r.used
  BY <1>2, <1>4 DEF Freed, HubType
<1>8. /\ hub' \in HubType /\ (hub.sessions \subseteq hub.used)'
      /\ Consistent(hub)'
  BY <1>4, <1>6, <1>7, HubKept
<1>9. TypeOK'
  BY <1>8 DEF HubInv, TypeOK
<1>10. Clocks'
  BY <1>6, <1>7 DEF HubInv, Clocks
<1>11. \A s \in Sessions : timestamp'[s] >= timestamp[s]
  BY DEF HubInv, TypeOK
<1> QED
  BY <1>8, <1>9, <1>10, <1>11 DEF HubInv

------------------------------------------------------------------------------
(* The hub among its clients.                                              *)

LEMMA HubStep ==
  ASSUME HubInv, [Next]_vars
  PROVE  HubInv' /\ \A s \in Sessions : timestamp'[s] >= timestamp[s]
<1> DEFINE Goal == HubInv' /\ \A s \in Sessions : timestamp'[s] >= timestamp[s]
<1>1. ASSUME NEW s \in Sessions, NEW failing \in options.failingSends,
             hub' = CloseSessions(hub, {s}, failing),
             UNCHANGED <<authorizing, timestamp, windowStarted, messageCount,
                         now, options>>
      PROVE  Goal
  <2>1. authorizing' \in [Sessions -> Waiting \cup {Idle}]
    BY <1>1 DEF HubInv, TypeOK
  <2> QED
    BY <1>1, <2>1, ClosingStep
<1>2. ASSUME NEW s \in Sessions,
             CloseSession(s) \/ ReceiveExpired(s) \/ ReceiveRejected(s)
      PROVE  Goal
  BY <1>1, <1>2 DEF CloseSession, ReceiveExpired, ReceiveRejected
<1>3. ASSUME NEW s \in Sessions, NotAuthorized(s)
      PROVE  Goal
  <2>1. /\ \A q \in Sessions : authorizing'[q] \in {authorizing[q], Idle}
        /\ authorizing' \in [Sessions -> Waiting \cup {Idle}]
    BY <1>3 DEF NotAuthorized, Settle, HubInv, TypeOK
  <2> QED
    BY <1>3, <2>1, ClosingStep DEF NotAuthorized, Settle
<1>4. ASSUME Sweep PROVE Goal
  <2>1. Overdue \in SUBSET Sessions
    BY DEF Overdue, HubInv, TypeOK, HubType
  <2>2. authorizing' \in [Sessions -> Waiting \cup {Idle}]
    BY <1>4 DEF Sweep, HubInv, TypeOK
  <2> QED
    BY <1>4, <2>1, <2>2, ClosingStep DEF Sweep
<1>5. ASSUME Tick PROVE Goal
  <2>1. /\ hub' \in HubType /\ (hub.sessions \subseteq hub.used)'
        /\ Consistent(hub)'
    BY <1>5, HubKept DEF Tick, HubInv, TypeOK
  <2>2. now' = now + 1 /\ now \in 0..MaxNow /\ now' \in 0..MaxNow
    BY <1>5, OptionsAssumption, LimitAssumption DEF Tick, HubInv, TypeOK
  <2>3. TypeOK'
    BY <1>5, <2>1, <2>2 DEF Tick, HubInv, TypeOK
  <2>4. Clocks'
    <3>1. \A s \in Sessions :
            /\ timestamp[s] \in 0..MaxNow
            /\ authorizing[s] # Idle => authorizing[s].at \in 0..MaxNow
      BY DEF HubInv, TypeOK, Waiting
    <3> QED
      BY <1>5, <2>2, <3>1 DEF Tick, HubInv, Clocks
  <2>5. \A s \in Sessions : timestamp'[s] >= timestamp[s]
    BY <1>5 DEF Tick, HubInv, TypeOK
  <2> QED
    BY <2>1, <2>3, <2>4, <2>5 DEF HubInv
<1>6. ASSUME UNCHANGED vars PROVE Goal
  <2>1. HubInv'
    <3>1. /\ hub' \in HubType /\ (hub.sessions \subseteq hub.used)'
          /\ Consistent(hub)'
      BY <1>6, HubKept DEF vars, HubInv, TypeOK
    <3>2. TypeOK' /\ Clocks'
      BY <1>6, <3>1 DEF vars, HubInv, TypeOK, Clocks
    <3> QED
      BY <3>1, <3>2 DEF HubInv
  <2>2. \A s \in Sessions : timestamp'[s] >= timestamp[s]
    BY <1>6 DEF vars, HubInv, TypeOK
  <2> QED
    BY <2>1, <2>2
<1> HIDE DEF Goal
<1>7. ASSUME NEW s \in Sessions,
             OpenSession(s) \/ ReceivePing(s) \/ ReceiveRegister(s)
               \/ Authorized(s)
      PROVE  Goal
  BY <1>7, OpenSessionStep, ReceivePingStep, ReceiveRegisterStep,
     AuthorizedStep DEF Goal
<1>8. ASSUME CloseHub PROVE Goal
  BY <1>8, CloseHubStep DEF Goal
<1>9. Goal
  BY <1>2, <1>3, <1>4, <1>5, <1>6, <1>7, <1>8 DEF Next
<1> QED
  BY <1>9 DEF Goal

(* Another server takes over with no session, scope or registration.       *)
LEMMA RestartStep ==
  ASSUME HubInv, Restart
  PROVE  HubInv' /\ \A s \in Sessions : timestamp'[s] >= timestamp[s]
<1> USE DEF Restart
<1> DEFINE h == [hub EXCEPT
       !.sessions = {}, !.scopes = {},
       !.registry = [sc \in Scopes |-> [p \in Peers |-> NoSession]],
       !.ad = [s \in Sessions |-> NoAd]]
<1>1. hub \in HubType /\ hub' = h /\ options \in Options
  BY DEF HubInv, TypeOK
<1>2. /\ h \in HubType /\ h.used = hub.used /\ h.sessions = {}
      /\ h.scopes = {} /\ h.ad = [s \in Sessions |-> NoAd]
      /\ h.registry = [sc \in Scopes |-> [p \in Peers |-> NoSession]]
  BY <1>1 DEF HubType
<1> HIDE DEF h
<1>3. \A sc \in Scopes : Members(h, sc) = {}
  BY <1>2 DEF Members
<1>4. Limited(h)
  <2>1. 0 <= options.maxScopes /\ 0 <= options.maxPeersPerScope
    BY <1>1, OptionsAssumption
  <2> QED
    BY <1>2, <1>3, <2>1, FS_EmptySet DEF Limited
<1>5. Consistent(h)
  BY <1>2, <1>3, <1>4
  DEF Consistent, Matching, EnteredBut, Within, Live, CurrentBut
<1>6. /\ hub' \in HubType /\ (hub.sessions \subseteq hub.used)'
      /\ Consistent(hub)'
  BY <1>1, <1>2, <1>5, HubKept
<1>7. TypeOK'
  BY <1>6 DEF HubInv, TypeOK
<1>8. Clocks'
  BY DEF HubInv, Clocks
<1>9. \A s \in Sessions : timestamp'[s] >= timestamp[s]
  BY DEF HubInv, TypeOK
<1> QED
  BY <1>6, <1>7, <1>8, <1>9 DEF HubInv

(* With its clients, a hub takes its own steps, restarts or stays.         *)
LEMMA SystemStepsTheHub ==
  ASSUME [SystemNext]_systemVars
  PROVE  [Next]_vars \/ Restart
<1>1. ASSUME NEW c \in Users, ClientProgress(c) \/ ClientChoice(c)
      PROVE  UNCHANGED vars
  BY <1>1 DEF ClientProgress, ClientChoice, OpenSocket, Opened, Deliver, HungUp,
              Publish, Heartbeat, Lost, Close, OnClose
<1>2. ASSUME NEW s \in Sessions,
             Accept(s) \/ Received(s) \/ Settled(s) \/ Disconnected(s)
      PROVE  Next
  BY <1>2 DEF Accept, Received, Settled, Disconnected, Next
<1>3. ASSUME Swept \/ Ticked PROVE Next
  BY <1>3 DEF Swept, Ticked, Next
<1>4. ASSUME UNCHANGED systemVars PROVE UNCHANGED vars
  BY <1>4 DEF systemVars, vars
<1> QED
  BY <1>1, <1>2, <1>3, <1>4 DEF SystemNext, ServerProgress

LEMMA SystemStep ==
  ASSUME HubInv, [SystemNext]_systemVars
  PROVE  HubInv' /\ \A s \in Sessions : timestamp'[s] >= timestamp[s]
BY SystemStepsTheHub, HubStep, RestartStep

LEMMA HubInitially ==
  ASSUME Init PROVE HubInv
<1> USE DEF Init
<1>1. TypeOK
  <2>1. hub \in HubType
    BY DEF HubType
  <2>2. options \in Options /\ options.maxMessages \in Nat
    BY OptionsAssumption
  <2> QED
    BY <2>1, <2>2, LimitAssumption DEF TypeOK
<1>2. \A sc \in Scopes : Members(hub, sc) = {}
  BY DEF Members
<1>3. Limited(hub)
  <2>1. 0 <= options.maxScopes /\ 0 <= options.maxPeersPerScope
    BY OptionsAssumption
  <2> QED
    BY <1>2, <2>1, FS_EmptySet DEF Limited
<1>4. Consistent(hub)
  BY <1>2, <1>3
  DEF Consistent, Matching, EnteredBut, Within, Live, CurrentBut
<1>5. Clocks
  BY DEF Clocks
<1> QED
  BY <1>1, <1>4, <1>5 DEF HubInv

LEMMA HubAlways == SystemSpec => []HubInv
<1>1. SystemInit => HubInv
  BY HubInitially DEF SystemInit
<1>2. HubInv /\ [SystemNext]_systemVars => HubInv'
  BY SystemStep
<1> QED
  BY <1>1, <1>2, PTL DEF SystemSpec

(* The registry lists exactly the registered sessions, each under its own  *)
(* scope and peer, and keeps its limits, whatever closed or replaced a     *)
(* session while its authorization was awaited (rendezvous-hub.ts          *)
(* processMessage, removeRegistration).                                    *)
THEOREM RegistryStaysConsistent == SystemSpec => []RegistryConsistent
<1>1. HubInv => RegistryConsistent
  <2> SUFFICES ASSUME HubInv PROVE RegistryConsistent
    OBVIOUS
  <2>1. \A sc \in Scopes, p \in Peers :
          hub.registry[sc][p] # NoSession =>
            LET s == hub.registry[sc][p]
            IN  /\ s \in hub.sessions /\ hub.ad[s] # NoAd
                /\ ScopeOf[hub.ad[s]] = sc /\ PeerOf[hub.ad[s]] = p
    <3> TAKE sc \in Scopes, p \in Peers
    <3> HAVE hub.registry[sc][p] # NoSession
    <3>1. hub.registry[sc][p] \in Sessions
      BY DEF HubInv, TypeOK, HubType
    <3> QED
      BY <3>1 DEF HubInv, Consistent, Matching, Within
  <2>2. \A s \in Sessions : hub.ad[s] # NoAd =>
          hub.registry[ScopeOf[hub.ad[s]]][PeerOf[hub.ad[s]]] = s
    BY DEF HubInv, Consistent, EnteredBut
  <2>3. hub.scopes = {sc \in Scopes : Members(hub, sc) # {}}
    BY DEF HubInv, Consistent, Live
  <2>4. /\ Cardinality(hub.scopes) <= options.maxScopes
        /\ \A sc \in Scopes :
             Cardinality(Members(hub, sc)) <= options.maxPeersPerScope
    BY DEF HubInv, Consistent, Limited
  <2> QED
    BY <2>1, <2>2, <2>3, <2>4 DEF RegistryConsistent
<1> QED
  BY <1>1, HubAlways, PTL

(* A registration whose authorization was slow does not take back a later  *)
(* heartbeat (rendezvous-hub.ts processMessage).                           *)
THEOREM TimestampsNeverGoBack == SystemSpec => TimestampNeverDecreases
<1>1. HubInv /\ [SystemNext]_systemVars
        => [\A s \in Sessions : timestamp'[s] >= timestamp[s]]_vars
  BY SystemStep
<1> QED
  BY <1>1, HubAlways, PTL DEF SystemSpec, TimestampNeverDecreases

------------------------------------------------------------------------------
(* The clients, and what is under way between them and the hub.            *)

(* Clients have opened and published so many of what they may; the sockets *)
(* still to be opened are unused.                                          *)
Indices ==
  \A c \in Clients :
    /\ client[c].opened \in 0..Len(SocketsOf[c])
    /\ client[c].published \in 1..Len(Published[c])
Unopened ==
  \A c \in Users : \A i \in (client[c].opened + 1)..Len(SocketsOf[c]) :
    socket[SocketsOf[c][i]].state = "unused"

(* The last list on its way to a client is the last that was sent; before  *)
(* a client has listened to its socket, all lists are still on their way.  *)
LastList(s) ==
  socket[s].state # "closed" =>
    IF socket[s].down # <<>>
      THEN socket[s].down[Len(socket[s].down)] = hub.view[s]
      ELSE socket[s].state \in {"unused", "connecting"} => hub.view[s] = {}

(* Listeners know of the last list, once it has arrived.                   *)
Others(list, a) == {b \in list : PeerOf[b] # PeerOf[a]}
Arrived(c) ==
  State(c) = "open" /\ socket[Socket(c)].down = <<>> =>
    \/ hub.view[Socket(c)] = {}
    \/ client[c].peers = Others(hub.view[Socket(c)], Advertisement(c))

(* The registration that is the last under way is for advertisement a, or  *)
(* none is and it is the registered one.                                   *)
Latest(up, waiting, ad, a) ==
  \/ \E i \in 1..Len(up) : up[i] = a /\ \A j \in 1..Len(up) : j > i => up[j] = NoAd
  \/ /\ \A j \in 1..Len(up) : up[j] = NoAd
     /\ IF waiting # Idle THEN waiting.ad = a ELSE ad = a
LatestSent(c) ==
  State(c) = "open" =>
    /\ Socket(c) \in hub.used
    /\ ~Ended(Socket(c)) =>
         Latest(socket[Socket(c)].up, authorizing[Socket(c)], hub.ad[Socket(c)],
                Advertisement(c))

ClientInv ==
  /\ client \in [Clients -> ClientType] /\ socket \in [Sessions -> SocketType]
  /\ Indices /\ Unopened
  /\ Users # {} => ~hub.closed /\ \A s \in Sessions : LastList(s)
  /\ \A c \in Users : Arrived(c) /\ LatestSent(c)

(* How the last registration under way changes.                            *)
LEMMA LatestAppended ==
  ASSUME NEW up \in Seq(Ads \cup {NoAd}), NEW w, NEW ad, NEW a
  PROVE  /\ Latest(Append(up, a), w, ad, a)
         /\ Latest(up, w, ad, a) => Latest(Append(up, NoAd), w, ad, a)
<1>1. ASSUME NEW m
      PROVE  /\ Len(Append(up, m)) = Len(up) + 1
             /\ Append(up, m)[Len(up) + 1] = m
             /\ \A i \in 1..Len(up) : Append(up, m)[i] = up[i]
  OBVIOUS
<1>2. Len(up) \in Nat
  OBVIOUS
<1>3. Latest(Append(up, a), w, ad, a)
  <2>1. Len(up) + 1 \in 1..(Len(up) + 1)
    BY <1>2
  <2>2. \A j \in 1..(Len(up) + 1) : ~(j > Len(up) + 1)
    BY <1>2
  <2> QED
    BY <1>1, <2>1, <2>2 DEF Latest
<1>4. ASSUME Latest(up, w, ad, a) PROVE Latest(Append(up, NoAd), w, ad, a)
  <2> DEFINE new == Append(up, NoAd)
  <2>1. /\ Len(new) = Len(up) + 1 /\ new[Len(up) + 1] = NoAd
        /\ \A i \in 1..Len(up) : new[i] = up[i]
    BY <1>1
  <2> HIDE DEF new
  <2>2. \A j \in 1..(Len(up) + 1) : j \in 1..Len(up) \/ j = Len(up) + 1
    BY <1>2
  <2>3. \A j \in 1..Len(up) : j \in 1..(Len(up) + 1)
    BY <1>2
  <2>4. CASE \E i \in 1..Len(up) : /\ up[i] = a
                                   /\ \A j \in 1..Len(up) : j > i => up[j] = NoAd
    BY <2>1, <2>2, <2>3, <2>4 DEF Latest
  <2>5. CASE /\ \A j \in 1..Len(up) : up[j] = NoAd
             /\ IF w # Idle THEN w.ad = a ELSE ad = a
    BY <2>1, <2>2, <2>5 DEF Latest
  <2> QED
    BY <1>4, <2>4, <2>5 DEF Latest, new
<1> QED
  BY <1>3, <1>4

LEMMA LatestReceived ==
  ASSUME NEW up \in Seq(Ads \cup {NoAd}), up # <<>>, NEW w, NEW ad,
         NEW a, a # NoAd, Latest(up, w, ad, a)
  PROVE  /\ Head(up) = NoAd => Latest(Tail(up), w, ad, a)
         /\ \A v : (Head(up) # NoAd /\ v # Idle /\ v.ad = Head(up))
                  => Latest(Tail(up), v, ad, a)
<1> DEFINE rest == Tail(up)
<1>1. /\ Len(up) \in Nat \ {0} /\ Len(rest) = Len(up) - 1
      /\ Head(up) = up[1] /\ \A i \in 1..Len(rest) : rest[i] = up[i + 1]
  OBVIOUS
<1> HIDE DEF rest
<1>2. ASSUME NEW i \in 1..Len(up), up[i] = a, i # 1,
             \A j \in 1..Len(up) : j > i => up[j] = NoAd,
             NEW v
      PROVE  Latest(rest, v, ad, a)
  <2>1. i - 1 \in 1..Len(rest) /\ rest[i - 1] = a
    BY <1>1, <1>2
  <2>2. \A j \in 1..Len(rest) : j > i - 1 => rest[j] = NoAd
    BY <1>1, <1>2
  <2> QED
    BY <2>1, <2>2 DEF Latest
<1>3. ASSUME \A j \in 1..Len(up) : j > 1 => up[j] = NoAd
      PROVE  \A j \in 1..Len(rest) : rest[j] = NoAd
  BY <1>1, <1>3
<1>4. 1 \in 1..Len(up)
  BY <1>1
<1>5. ASSUME Head(up) = NoAd PROVE Latest(rest, w, ad, a)
  <2>1. CASE \E i \in 1..Len(up) : /\ up[i] = a
                                   /\ \A j \in 1..Len(up) : j > i => up[j] = NoAd
    BY <1>1, <1>2, <1>5, <2>1
  <2>2. CASE /\ \A j \in 1..Len(up) : up[j] = NoAd
             /\ IF w # Idle THEN w.ad = a ELSE ad = a
    BY <1>3, <2>2 DEF Latest
  <2> QED
    BY <2>1, <2>2 DEF Latest
<1>6. ASSUME NEW v, Head(up) # NoAd, v # Idle, v.ad = Head(up)
      PROVE  Latest(rest, v, ad, a)
  <2>1. PICK i \in 1..Len(up) : /\ up[i] = a
                                /\ \A j \in 1..Len(up) : j > i => up[j] = NoAd
    BY <1>1, <1>4, <1>6 DEF Latest
  <2>2. CASE i = 1
    BY <1>1, <1>3, <1>6, <2>1, <2>2 DEF Latest
  <2>3. CASE i # 1
    BY <1>2, <2>1, <2>3
  <2> QED
    BY <2>2, <2>3
<1> QED
  BY <1>5, <1>6 DEF rest

LEMMA LatestSettled ==
  ASSUME NEW up, NEW w, w # Idle, NEW ad, NEW a, Latest(up, w, ad, a)
  PROVE  Latest(up, Idle, w.ad, a)
BY DEF Latest

(* A user is a client with an advertisement, and its socket one of those   *)
(* it may open.                                                            *)
LEMMA UserFacts ==
  ASSUME options \in Options, ClientInv, NEW c \in Users
  PROVE  /\ c \in Clients /\ Advertisement(c) \in Ads
         /\ SocketsOf[c] \in Seq(Sessions)
         /\ Socket(c) \in Sessions \cup {NoSession}
         /\ Socket(c) # NoSession =>
              /\ client[c].opened \in 1..Len(SocketsOf[c])
              /\ Socket(c) = SocketsOf[c][client[c].opened]
         /\ State(c) # "unused" =>
              Socket(c) \in Sessions /\ State(c) = socket[Socket(c)].state
<1>1. c \in Clients /\ SocketsOf[c] \in Seq(Sessions)
  BY ClientAssumption DEF Users
<1>2. Published[c] \in Seq(Ads) /\ client[c].published \in 1..Len(Published[c])
  BY <1>1, ClientAssumption DEF ClientInv, Indices
<1>3. Advertisement(c) \in Ads
  BY <1>2 DEF Advertisement
<1>4. client[c].opened \in 0..Len(SocketsOf[c]) /\ Len(SocketsOf[c]) \in Nat
  BY <1>1 DEF ClientInv, Indices
<1>5. CASE client[c].opened = 0
  BY <1>1, <1>3, <1>5 DEF Socket, State
<1>6. CASE client[c].opened # 0
  <2>1. client[c].opened \in 1..Len(SocketsOf[c])
    BY <1>4, <1>6
  <2>2. Socket(c) = SocketsOf[c][client[c].opened] /\ Socket(c) \in Sessions
    BY <1>1, <1>6, <2>1 DEF Socket
  <2>3. Socket(c) # NoSession
    BY <2>2, AdAssumption
  <2> QED
    BY <1>1, <1>3, <2>1, <2>2, <2>3 DEF State
<1> QED
  BY <1>5, <1>6

(* The sockets of the users are different objects.                         *)
LEMMA DistinctSockets ==
  ASSUME options \in Options, NEW c \in Users, NEW d \in Users,
         NEW i \in 1..Len(SocketsOf[c]), NEW j \in 1..Len(SocketsOf[d]),
         SocketsOf[c][i] = SocketsOf[d][j]
  PROVE  c = d /\ i = j
<1>1. c \in Clients /\ d \in Clients
  BY ClientAssumption DEF Users
<1>2. SocketsOf[c] \in Seq(Sessions) /\ SocketsOf[d] \in Seq(Sessions)
  BY <1>1, ClientAssumption
<1>3. i \in DOMAIN SocketsOf[c] /\ j \in DOMAIN SocketsOf[d]
  BY <1>2
<1> QED
  BY <1>3, SocketAssumption DEF Users

(* A step of client c that touches the k-th of its sockets leaves the      *)
(* others as they are.                                                     *)
LEMMA ClientStep ==
  ASSUME options \in Options, ClientInv, UNCHANGED vars, NEW c \in Users,
         NEW x \in ClientType, client' = [client EXCEPT ![c] = x],
         socket' \in [Sessions -> SocketType],
         NEW k \in 0..Len(SocketsOf[c]),
         \A q \in Sessions :
           socket'[q] = socket[q] \/ (k # 0 /\ q = SocketsOf[c][k]),
         x.opened \in client[c].opened..Len(SocketsOf[c]), k <= x.opened,
         x.published \in 1..Len(Published[c]),
         k # 0 => LastList(SocketsOf[c][k])',
         Arrived(c)', LatestSent(c)'
  PROVE  ClientInv'
<1>1. c \in Clients /\ Users' = Users /\ Users \subseteq Clients
  BY ClientAssumption, UserFacts DEF vars, Users
<1>2. client \in [Clients -> ClientType] /\ socket \in [Sessions -> SocketType]
  BY DEF ClientInv
<1>3. client' \in [Clients -> ClientType]
  BY <1>1, <1>2
<1>4. \A d \in Clients : client'[d] = IF d = c THEN x ELSE client[d]
  BY <1>1, <1>2
<1>5. /\ client[c].opened \in Nat /\ Len(SocketsOf[c]) \in Nat
      /\ client[c].opened \in 0..Len(SocketsOf[c])
  BY <1>1, <1>2, ClientAssumption DEF ClientType, ClientInv, Indices
<1>6. x.opened \in 0..Len(SocketsOf[c])
  BY <1>5
<1>7. Indices'
  BY <1>4, <1>6 DEF ClientInv, Indices
<1>8. ASSUME NEW d \in Users, NEW j \in 1..Len(SocketsOf[d]),
             d = c => j > k
      PROVE  socket'[SocketsOf[d][j]] = socket[SocketsOf[d][j]]
  <2>1. SocketsOf[d][j] \in Sessions
    BY <1>1, ClientAssumption
  <2>2. ASSUME k # 0, SocketsOf[d][j] = SocketsOf[c][k] PROVE FALSE
    <3>1. k \in 1..Len(SocketsOf[c])
      BY <1>5, <2>2
    <3>2. d = c /\ j = k
      BY <2>2, <3>1, DistinctSockets
    <3> QED
      BY <1>5, <1>8, <3>1, <3>2
  <2> QED
    BY <2>1, <2>2
<1>9. Unopened'
  <2> SUFFICES ASSUME NEW d \in Users,
                      NEW i \in (client'[d].opened + 1)..Len(SocketsOf[d])
               PROVE  socket'[SocketsOf[d][i]].state = "unused"
    BY <1>1 DEF Unopened
  <2>1. d \in Clients /\ client[d].opened \in Nat /\ client'[d].opened \in Nat
    BY <1>1, <1>2, <1>3 DEF ClientType
  <2>2. Len(SocketsOf[d]) \in Nat
    BY <2>1, ClientAssumption
  <2>3. client[d].opened <= client'[d].opened
    BY <1>4, <1>5, <2>1
  <2>4. i \in (client[d].opened + 1)..Len(SocketsOf[d]) /\ i \in 1..Len(SocketsOf[d])
    BY <2>1, <2>2, <2>3
  <2>5. d = c => i > k
    BY <1>4, <1>5, <2>1, <2>2
  <2>6. socket'[SocketsOf[d][i]] = socket[SocketsOf[d][i]]
    BY <1>8, <2>4, <2>5
  <2> QED
    BY <2>4, <2>6 DEF ClientInv, Unopened
<1>10. \A s \in Sessions : LastList(s)'
  <2> TAKE s \in Sessions
  <2>1. CASE socket'[s] = socket[s]
    BY <2>1 DEF ClientInv, LastList, vars
  <2>2. CASE k # 0 /\ s = SocketsOf[c][k]
    BY <2>2
  <2> QED
    BY <2>1, <2>2
<1>11. ASSUME NEW d \in Users, d # c
       PROVE  Arrived(d)' /\ LatestSent(d)'
  <2>1. d \in Clients /\ client'[d] = client[d]
    BY <1>1, <1>4, <1>11
  <2>2. Socket(d)' = Socket(d) /\ Advertisement(d)' = Advertisement(d)
    BY <2>1 DEF Socket, Advertisement
  <2>3. CASE Socket(d) = NoSession
    BY <2>2, <2>3 DEF State, Arrived, LatestSent
  <2>4. CASE Socket(d) # NoSession
    <3>1. /\ client[d].opened \in 1..Len(SocketsOf[d])
          /\ Socket(d) = SocketsOf[d][client[d].opened]
      BY <2>4, UserFacts
    <3>2. socket'[Socket(d)] = socket[Socket(d)]
      BY <1>8, <1>11, <3>1
    <3>3. State(d)' = State(d)
      BY <2>2, <2>4, <3>2 DEF State
    <3> QED
      BY <2>1, <2>2, <3>2, <3>3
      DEF ClientInv, Arrived, LatestSent, Ended, vars
  <2> QED
    BY <2>3, <2>4
<1>12. \A d \in Users' : Arrived(d)' /\ LatestSent(d)'
  BY <1>1, <1>11
<1>13. ~hub'.closed
  BY DEF ClientInv, vars
<1> QED
  BY <1>3, <1>7, <1>9, <1>10, <1>12, <1>13 DEF ClientInv

(* What is sent on a socket whose session has ended is lost.               *)
LEMMA SentEffect ==
  ASSUME socket \in [Sessions -> SocketType], NEW s \in Sessions,
         NEW m \in Ads \cup {NoAd}
  PROVE  /\ Sent(s, m) \in [Sessions -> SocketType]
         /\ \A q \in Sessions \ {s} : Sent(s, m)[q] = socket[q]
         /\ Sent(s, m)[s].state = socket[s].state
         /\ Sent(s, m)[s].down = socket[s].down
         /\ ~Ended(s) => Sent(s, m)[s].up = Append(socket[s].up, m)
<1>1. /\ socket[s] \in SocketType
      /\ IF Ended(s) THEN socket[s].up \in Seq(Ads \cup {NoAd})
         ELSE Append(socket[s].up, m) \in Seq(Ads \cup {NoAd})
  BY DEF SocketType
<1>2. [socket[s] EXCEPT !.up = IF Ended(s) THEN @ ELSE Append(@, m)]
        \in SocketType
  BY <1>1 DEF SocketType
<1> QED
  BY <1>1, <1>2 DEF Sent, SocketType

LEMMA OpenSocketStep ==
  ASSUME options \in Options, ClientInv, NEW c \in Users, OpenSocket(c)
  PROVE  ClientInv'
<1> USE DEF OpenSocket
<1>0. PICK k : k = client[c].opened + 1
  OBVIOUS
<1> USE <1>0
<1> DEFINE t == SocketsOf[c][k]
           x == [client[c] EXCEPT !.opened = @ + 1, !.reconnecting = FALSE]
<1>1. /\ c \in Clients /\ client \in [Clients -> ClientType]
      /\ socket \in [Sessions -> SocketType]
      /\ client[c].opened \in Nat /\ SocketsOf[c] \in Seq(Sessions)
  BY UserFacts DEF ClientInv, ClientType
<1>2. k \in 1..Len(SocketsOf[c]) /\ t \in Sessions
  BY <1>1 DEF SocketsLeft
<1>3. x \in ClientType /\ x.opened = k /\ x.published = client[c].published
  BY <1>1, <1>2 DEF ClientType
<1>4. client' = [client EXCEPT ![c] = x]
  BY <1>1
<1>5. socket' \in [Sessions -> SocketType]
  <2>1. [socket[t] EXCEPT !.state = "connecting"] \in SocketType
    BY <1>1, <1>2 DEF SocketType
  <2> QED
    BY <1>1, <1>2, <2>1
<1>6. /\ \A q \in Sessions : socket'[q] = socket[q] \/ q = t
      /\ socket'[t].state = "connecting" /\ socket'[t].down = socket[t].down
  BY <1>1, <1>2 DEF SocketType
<1>7. socket[t].state = "unused"
  BY <1>1, <1>2 DEF ClientInv, Unopened
<1>8. client'[c].opened = k
  BY <1>1, <1>3, <1>4
<1> HIDE DEF x
<1>9. Socket(c)' = t /\ t # NoSession
  BY <1>1, <1>2, <1>8, AdAssumption DEF Socket
<1>10. State(c)' = "connecting"
  BY <1>6, <1>9 DEF State
<1>11. LastList(t)'
  BY <1>2, <1>6, <1>7 DEF ClientInv, LastList, vars
<1>12. Arrived(c)' /\ LatestSent(c)'
  BY <1>10 DEF Arrived, LatestSent
<1>13. x.opened \in client[c].opened..Len(SocketsOf[c])
  BY <1>1, <1>2, <1>3
<1>14. k \in 0..Len(SocketsOf[c]) /\ k # 0
  BY <1>1, <1>2
<1>15. client[c].published \in 1..Len(Published[c])
  BY <1>1 DEF ClientInv, Indices
<1>16. k <= x.opened /\ UNCHANGED vars
  BY <1>1, <1>3
<1> HIDE <1>0 DEF OpenSocket
<1> QED
  BY <1>3, <1>4, <1>5, <1>6, <1>11, <1>12, <1>13, <1>14, <1>15, <1>16, ClientStep

(* A step of client c that leaves the count of its sockets alone.          *)
LEMMA CurrentSocketStep ==
  ASSUME options \in Options, ClientInv, UNCHANGED vars, NEW c \in Users,
         NEW x \in ClientType, client' = [client EXCEPT ![c] = x],
         x.opened = client[c].opened, x.published \in 1..Len(Published[c]),
         socket' \in [Sessions -> SocketType],
         NEW s, s = Socket(c),
         \A q \in Sessions : socket'[q] = socket[q] \/ q = s,
         s \in Sessions => LastList(s)',
         Arrived(c)', LatestSent(c)'
  PROVE  ClientInv'
<1>0. PICK k : k = client[c].opened
  OBVIOUS
<1> USE <1>0
<1>1. /\ c \in Clients /\ k \in 0..Len(SocketsOf[c])
      /\ SocketsOf[c] \in Seq(Sessions)
  BY UserFacts DEF ClientInv, Indices
<1>2. CASE k = 0
  <2>1. Socket(c) = NoSession
    BY <1>2 DEF Socket
  <2>2. \A q \in Sessions : socket'[q] = socket[q]
    BY <2>1, AdAssumption
  <2>3. x.opened \in client[c].opened..Len(SocketsOf[c]) /\ k <= x.opened
    BY <1>1
  <2> HIDE <1>0
  <2> QED
    BY <1>1, <1>2, <2>2, <2>3, ClientStep
<1>3. CASE k # 0
  <2>1. Socket(c) = SocketsOf[c][k] /\ Socket(c) \in Sessions
    BY <1>1, <1>3 DEF Socket
  <2>2. x.opened \in client[c].opened..Len(SocketsOf[c]) /\ k <= x.opened
    BY <1>1
  <2> QED
    BY <1>1, <1>3, <2>1, <2>2, ClientStep
<1> QED
  BY <1>2, <1>3

(* The socket of client c stays the same one.                              *)
LEMMA SameSocket ==
  ASSUME NEW c, client'[c].opened = client[c].opened
  PROVE  /\ Socket(c)' = Socket(c)
         /\ State(c)' = IF Socket(c) = NoSession THEN "unused"
                        ELSE socket'[Socket(c)].state
BY DEF Socket, State

LEMMA OpenedStep ==
  ASSUME HubInv, ClientInv, NEW c \in Users, Opened(c)
  PROVE  ClientInv'
<1> USE DEF Opened
<1>0. PICK s : s = Socket(c)
  OBVIOUS
<1> USE <1>0
<1> DEFINE a == Advertisement(c)
           x == [client[c] EXCEPT !.pinged = now]
<1>1. options \in Options /\ now \in 0..MaxNow
  BY DEF HubInv, TypeOK
<1>2. /\ c \in Clients /\ a \in Ads /\ s \in Sessions
      /\ socket[s].state = "connecting"
      /\ client \in [Clients -> ClientType]
      /\ socket \in [Sessions -> SocketType]
      /\ client[c].published \in 1..Len(Published[c])
  BY <1>1, UserFacts DEF ClientInv, Indices
<1>3. /\ x \in ClientType /\ x.opened = client[c].opened
      /\ x.published = client[c].published
      /\ client' = [client EXCEPT ![c] = x] /\ client'[c] = x
  BY <1>1, <1>2 DEF ClientType
<1> HIDE DEF x
<1> DEFINE sent == Sent(s, a)
<1>4. /\ sent \in [Sessions -> SocketType]
      /\ \A q \in Sessions \ {s} : sent[q] = socket[q]
      /\ sent[s].down = socket[s].down
      /\ ~Ended(s) => sent[s].up = Append(socket[s].up, a)
  BY <1>2, SentEffect
<1>5. socket' = [sent EXCEPT ![s].state = "open"]
  OBVIOUS
<1> HIDE DEF sent
<1>6. /\ socket' \in [Sessions -> SocketType]
      /\ \A q \in Sessions : socket'[q] = socket[q] \/ q = s
      /\ socket'[s].state = "open" /\ socket'[s].down = socket[s].down
      /\ ~Ended(s) => socket'[s].up = Append(socket[s].up, a)
  <2> HIDE <1>0 DEF Opened
  <2> DEFINE new == [sent[s] EXCEPT !.state = "open"]
  <2>1. sent[s] \in SocketType
    BY <1>2, <1>4
  <2>2. /\ new \in SocketType /\ new.state = "open"
        /\ new.down = sent[s].down /\ new.up = sent[s].up
    BY <2>1 DEF SocketType
  <2>3. socket' = [sent EXCEPT ![s] = new]
    BY <1>5
  <2> HIDE DEF new
  <2> QED
    BY <1>2, <1>4, <2>2, <2>3
<1>7. /\ Socket(c)' = s /\ Advertisement(c)' = a
  BY <1>3, SameSocket DEF Advertisement
<1>8. LastList(s)
  BY <1>2 DEF ClientInv
<1>9. LastList(s)'
  BY <1>2, <1>6, <1>8 DEF LastList, vars
<1>10. Arrived(c)'
  BY <1>2, <1>6, <1>7, <1>8 DEF Arrived, LastList, vars
<1>11. LatestSent(c)'
  <2>1. socket[s].up \in Seq(Ads \cup {NoAd})
    BY <1>2 DEF SocketType
  <2>2. Latest(Append(socket[s].up, a), authorizing[s], hub.ad[s], a)
    BY <2>1, LatestAppended
  <2>3. Ended(s)' = Ended(s)
    BY DEF Ended, vars
  <2> QED
    BY <1>6, <1>7, <2>2, <2>3 DEF LatestSent, vars
<1> QED
  BY <1>1, <1>2, <1>3, <1>6, <1>7, <1>9, <1>10, <1>11, CurrentSocketStep

LEMMA PublishStep ==
  ASSUME HubInv, ClientInv, NEW c \in Users, Publish(c)
  PROVE  ClientInv'
<1> USE DEF Publish
<1>0. PICK s : s = Socket(c)
  OBVIOUS
<1> USE <1>0
<1> DEFINE a == Published[c][client[c].published + 1]
           x == [client[c] EXCEPT !.published = @ + 1]
<1>1. options \in Options
  BY DEF HubInv, TypeOK
<1>2. /\ c \in Clients
      /\ client \in [Clients -> ClientType]
      /\ socket \in [Sessions -> SocketType]
      /\ client[c].published \in 1..Len(Published[c])
      /\ Published[c] \in Seq(Ads)
  BY <1>1, UserFacts, ClientAssumption DEF ClientInv, Indices
<1>3. /\ client[c].published + 1 \in 1..Len(Published[c])
      /\ client[c].published + 1 \in Nat
      /\ DOMAIN Published[c] = 1..Len(Published[c])
  BY <1>2
<1>4. a \in Ads /\ PeerOf[a] = PeerOf[Advertisement(c)]
  BY <1>2, <1>3, SocketAssumption DEF Advertisement
<1>5. /\ x \in ClientType /\ x.opened = client[c].opened
      /\ x.published = client[c].published + 1 /\ x.peers = client[c].peers
      /\ client' = [client EXCEPT ![c] = x] /\ client'[c] = x
  BY <1>2, <1>3 DEF ClientType
<1> HIDE DEF x
<1>6. Socket(c)' = s /\ Advertisement(c)' = a
  BY <1>5, SameSocket DEF Advertisement
<1>7. /\ socket' \in [Sessions -> SocketType]
      /\ \A q \in Sessions : socket'[q] = socket[q] \/ q = s
      /\ s \in Sessions => /\ socket'[s].state = socket[s].state
                           /\ socket'[s].down = socket[s].down
      /\ State(c) = "open" /\ ~Ended(s)
           => socket'[s].up = Append(socket[s].up, a)
  <2>1. CASE State(c) = "open"
    BY <1>1, <1>2, <1>4, <2>1, UserFacts, SentEffect
  <2>2. CASE State(c) # "open"
    BY <1>2, <2>2
  <2> QED
    BY <2>1, <2>2
<1>8. State(c)' = State(c)
  <2>1. s \in Sessions \cup {NoSession}
    BY <1>1, UserFacts
  <2> QED
    BY <1>5, <1>7, <2>1, SameSocket DEF State
<1>9. s \in Sessions => LastList(s)'
  BY <1>7 DEF ClientInv, LastList, vars
<1>10. Arrived(c)'
  <2>1. SUFFICES ASSUME State(c) = "open", socket[s].down = <<>>
                 PROVE  \/ hub.view[s] = {}
                        \/ client[c].peers = Others(hub.view[s], a)
    <3>1. s \in Sessions \/ State(c) # "open"
      BY <1>1, UserFacts
    <3> QED
      BY <1>5, <1>6, <1>7, <1>8, <2>1, <3>1 DEF Arrived, vars
  <2> QED
    BY <1>4, <2>1 DEF ClientInv, Arrived, Others
<1>11. LatestSent(c)'
  <2> SUFFICES ASSUME State(c) = "open"
               PROVE  /\ s \in hub.used
                      /\ ~Ended(s) => Latest(socket'[s].up, authorizing[s],
                                             hub.ad[s], a)
    BY <1>6, <1>8 DEF LatestSent, Ended, vars
  <2>1. s \in Sessions
    BY <1>1, UserFacts
  <2>2. socket[s].up \in Seq(Ads \cup {NoAd})
    BY <1>2, <2>1 DEF SocketType
  <2>3. Latest(Append(socket[s].up, a), authorizing[s], hub.ad[s], a)
    BY <2>2, LatestAppended
  <2> QED
    BY <1>7, <2>3 DEF ClientInv, LatestSent
<1> QED
  BY <1>1, <1>2, <1>3, <1>5, <1>7, <1>9, <1>10, <1>11, CurrentSocketStep

LEMMA HeartbeatStep ==
  ASSUME HubInv, ClientInv, NEW c \in Users, Heartbeat(c)
  PROVE  ClientInv'
<1> USE DEF Heartbeat
<1>0. PICK s : s = Socket(c)
  OBVIOUS
<1> USE <1>0
<1> DEFINE a == Advertisement(c)
           x == [client[c] EXCEPT !.pinged = now]
<1>1. options \in Options /\ now \in 0..MaxNow
  BY DEF HubInv, TypeOK
<1>2. /\ c \in Clients /\ a \in Ads /\ s \in Sessions
      /\ socket[s].state = "open"
      /\ client \in [Clients -> ClientType]
      /\ socket \in [Sessions -> SocketType]
      /\ client[c].published \in 1..Len(Published[c])
  BY <1>1, UserFacts DEF ClientInv, Indices
<1>3. /\ x \in ClientType /\ x.opened = client[c].opened
      /\ x.published = client[c].published /\ x.peers = client[c].peers
      /\ client' = [client EXCEPT ![c] = x] /\ client'[c] = x
  BY <1>1, <1>2 DEF ClientType
<1> HIDE DEF x
<1>4. /\ socket' \in [Sessions -> SocketType]
      /\ \A q \in Sessions : socket'[q] = socket[q] \/ q = s
      /\ socket'[s].state = "open" /\ socket'[s].down = socket[s].down
      /\ ~Ended(s) => socket'[s].up = Append(socket[s].up, NoAd)
  BY <1>2, SentEffect
<1>5. Socket(c)' = s /\ Advertisement(c)' = a
  BY <1>3, SameSocket DEF Advertisement
<1>6. LastList(s)'
  BY <1>2, <1>4 DEF ClientInv, LastList, vars
<1>7. Arrived(c)'
  <2>1. /\ State(c) = "open" /\ State(c)' = "open" /\ hub' = hub
        /\ client'[c].peers = client[c].peers
        /\ socket'[s].down = socket[s].down
    BY <1>2, <1>3, <1>4, <1>5 DEF State, vars
  <2>2. Arrived(c)
    BY DEF ClientInv
  <2> QED
    BY <1>5, <2>1, <2>2 DEF Arrived
<1>8. LatestSent(c)'
  <2>1. socket[s].up \in Seq(Ads \cup {NoAd})
    BY <1>2 DEF SocketType
  <2>2. s \in hub.used /\ (~Ended(s) =>
          Latest(Append(socket[s].up, NoAd), authorizing[s], hub.ad[s], a))
    BY <2>1, LatestAppended DEF ClientInv, LatestSent
  <2>3. Ended(s)' = Ended(s)
    BY DEF Ended, vars
  <2> QED
    BY <1>4, <1>5, <2>2, <2>3 DEF LatestSent, vars
<1> QED
  BY <1>1, <1>2, <1>3, <1>4, <1>6, <1>7, <1>8, CurrentSocketStep

LEMMA LastOfTail ==
  ASSUME NEW T, NEW q \in Seq(T), q # <<>>
  PROVE  /\ Head(q) = q[1] /\ Head(q) \in T /\ Tail(q) \in Seq(T)
         /\ Tail(q) = <<>> => Len(q) = 1
         /\ Tail(q) # <<>> => Tail(q)[Len(Tail(q))] = q[Len(q)]
<1> DEFINE rest == Tail(q)
<1>1. /\ Len(q) \in Nat \ {0} /\ Head(q) = q[1] /\ Head(q) \in T
      /\ rest \in Seq(T) /\ Len(rest) = Len(q) - 1
      /\ \A i \in 1..Len(rest) : rest[i] = q[i + 1]
  OBVIOUS
<1> HIDE DEF rest
<1>2. rest = <<>> => Len(rest) = 0
  OBVIOUS
<1>3. rest # <<>> => Len(rest) # 0
  BY <1>1
<1>4. rest = <<>> => Len(q) = 1
  BY <1>1, <1>2
<1>5. ASSUME rest # <<>> PROVE rest[Len(rest)] = q[Len(q)]
  <2>1. Len(rest) \in 1..Len(rest) /\ Len(rest) + 1 = Len(q)
    BY <1>1, <1>3, <1>5
  <2> QED
    BY <1>1, <2>1
<1> QED
  BY <1>1, <1>4, <1>5 DEF rest

LEMMA DeliverStep ==
  ASSUME HubInv, ClientInv, NEW c \in Users, Deliver(c)
  PROVE  ClientInv'
<1> USE DEF Deliver
<1>0. PICK s : s = Socket(c)
  OBVIOUS
<1> USE <1>0
<1> DEFINE a == Advertisement(c)
           down == socket[s].down
           x == [client[c] EXCEPT !.peers = Others(Head(down), a)]
<1>1. options \in Options
  BY DEF HubInv, TypeOK
<1>2. /\ c \in Clients /\ a \in Ads /\ s \in Sessions
      /\ socket[s].state = "open"
      /\ client \in [Clients -> ClientType]
      /\ socket \in [Sessions -> SocketType]
      /\ client[c].published \in 1..Len(Published[c])
  BY <1>1, UserFacts DEF ClientInv, Indices
<1>3. /\ down \in Seq(SUBSET Ads) /\ down # <<>> /\ Head(down) = down[1]
      /\ Head(down) \in SUBSET Ads /\ Tail(down) \in Seq(SUBSET Ads)
      /\ Tail(down) = <<>> => Len(down) = 1
      /\ Tail(down) # <<>> => Tail(down)[Len(Tail(down))] = down[Len(down)]
  <2>1. down \in Seq(SUBSET Ads) /\ down # <<>>
    BY <1>2 DEF SocketType
  <2> QED
    BY <2>1, LastOfTail
<1>4. Others(Head(down), a) \in SUBSET Ads
  BY <1>3 DEF Others
<1>5. /\ x \in ClientType /\ x.opened = client[c].opened
      /\ x.published = client[c].published
      /\ x.peers = Others(Head(down), a)
      /\ client' = [client EXCEPT ![c] = x] /\ client'[c] = x
  BY <1>2, <1>4 DEF ClientType, Others
<1> HIDE DEF x
<1>6. /\ socket' \in [Sessions -> SocketType]
      /\ \A q \in Sessions : socket'[q] = socket[q] \/ q = s
      /\ socket'[s].state = "open" /\ socket'[s].down = Tail(down)
      /\ socket'[s].up = socket[s].up
  <2>1. [socket[s] EXCEPT !.down = Tail(@)] \in SocketType
    BY <1>2, <1>3 DEF SocketType
  <2> QED
    BY <1>2, <2>1 DEF SocketType
<1>7. Socket(c)' = s /\ Advertisement(c)' = a
  BY <1>5, SameSocket DEF Advertisement
<1>8. down[Len(down)] = hub.view[s]
  BY <1>2, <1>3 DEF ClientInv, LastList
<1> HIDE DEF down
<1>9. LastList(s)'
  BY <1>2, <1>3, <1>6, <1>8 DEF LastList, vars
<1>10. Arrived(c)'
  BY <1>2, <1>3, <1>5, <1>6, <1>7, <1>8 DEF Arrived, vars
<1>11. LatestSent(c)'
  BY <1>2, <1>6, <1>7 DEF ClientInv, LatestSent, Ended, vars
<1> QED
  BY <1>1, <1>2, <1>5, <1>6, <1>9, <1>10, <1>11, CurrentSocketStep

LEMMA OnCloseStep ==
  ASSUME HubInv, ClientInv, NEW c \in Users,
         State(c) \in {"connecting", "open"},
         NEW x \in ClientType, x.opened = client[c].opened,
         x.published = client[c].published,
         client' = [client EXCEPT ![c] = x],
         socket' = Dropped(Socket(c)), UNCHANGED vars
  PROVE  ClientInv'
<1>0. PICK s : s = Socket(c)
  OBVIOUS
<1> USE <1>0
<1>1. options \in Options
  BY DEF HubInv, TypeOK
<1>2. /\ c \in Clients /\ s \in Sessions
      /\ client \in [Clients -> ClientType]
      /\ socket \in [Sessions -> SocketType]
      /\ client[c].published \in 1..Len(Published[c])
      /\ client'[c] = x
  BY <1>1, UserFacts DEF ClientInv, Indices
<1>3. /\ socket' \in [Sessions -> SocketType]
      /\ \A q \in Sessions : socket'[q] = socket[q] \/ q = s
      /\ socket'[s].state = "closed"
  <2>1. [state |-> "closed", up |-> socket[s].up, down |-> <<>>] \in SocketType
    BY <1>2 DEF SocketType
  <2> QED
    BY <1>2, <2>1 DEF Dropped
<1>4. State(c)' # "open"
  BY <1>2, <1>3, SameSocket
<1>5. LastList(s)' /\ Arrived(c)' /\ LatestSent(c)'
  BY <1>3, <1>4 DEF LastList, Arrived, LatestSent
<1> QED
  BY <1>1, <1>2, <1>3, <1>5, CurrentSocketStep

LEMMA CloseStep ==
  ASSUME HubInv, ClientInv, NEW c \in Users, Close(c)
  PROVE  ClientInv'
<1> USE DEF Close
<1> DEFINE x == [client[c] EXCEPT !.closed = TRUE, !.reconnecting = FALSE]
<1>1. options \in Options
  BY DEF HubInv, TypeOK
<1>2. /\ c \in Clients /\ client \in [Clients -> ClientType]
      /\ client[c].published \in 1..Len(Published[c])
      /\ socket \in [Sessions -> SocketType]
  BY <1>1, UserFacts DEF ClientInv, Indices
<1>3. /\ x \in ClientType /\ x.opened = client[c].opened
      /\ x.published = client[c].published
      /\ client' = [client EXCEPT ![c] = x] /\ client'[c] = x
  BY <1>2 DEF ClientType
<1> HIDE DEF x
<1>4. CASE State(c) \in {"connecting", "open"}
  BY <1>3, <1>4, OnCloseStep
<1>5. CASE State(c) \notin {"connecting", "open"}
  <2>1. socket' = socket
    BY <1>5
  <2>2. Socket(c)' = Socket(c) /\ State(c)' # "open"
    BY <1>3, <1>5, <2>1, SameSocket DEF State
  <2>3. Arrived(c)' /\ LatestSent(c)'
    BY <2>2 DEF Arrived, LatestSent
  <2>4. PICK s : s = Socket(c)
    OBVIOUS
  <2>5. s \in Sessions => LastList(s)'
    BY <2>1 DEF ClientInv, LastList, vars
  <2> QED
    BY <1>1, <1>2, <1>3, <2>1, <2>3, <2>4, <2>5, CurrentSocketStep
<1> QED
  BY <1>4, <1>5

(* A client's step keeps what clients and hub know of each other.          *)
LEMMA ClientSteps ==
  ASSUME HubInv, ClientInv, NEW c \in Users, ClientProgress(c) \/ ClientChoice(c)
  PROVE  ClientInv'
<1>1. options \in Options
  BY DEF HubInv, TypeOK
<1>2. ASSUME HungUp(c) \/ Lost(c) PROVE ClientInv'
  <2> DEFINE x == [client[c] EXCEPT !.reconnecting = TRUE]
  <2>1. c \in Clients /\ client \in [Clients -> ClientType]
    BY <1>1, UserFacts DEF ClientInv
  <2>2. /\ x \in ClientType /\ x.opened = client[c].opened
        /\ x.published = client[c].published
        /\ client' = [client EXCEPT ![c] = x]
    BY <1>2, <2>1 DEF ClientType, HungUp, Lost, OnClose
  <2>3. /\ State(c) \in {"connecting", "open"}
        /\ socket' = Dropped(Socket(c)) /\ UNCHANGED vars
    BY <1>2 DEF HungUp, Lost, OnClose
  <2> HIDE DEF x
  <2> QED
    BY <2>2, <2>3, OnCloseStep
<1> QED
  BY <1>1, <1>2, OpenSocketStep, OpenedStep, PublishStep, HeartbeatStep,
     DeliverStep, CloseStep DEF ClientProgress, ClientChoice

------------------------------------------------------------------------------
(* The hub's steps, as its clients see them.                               *)

(* A session that goes on keeps its registration and what it waits for,    *)
(* but those of K, and none starts again.                                  *)
Spares(K) ==
  /\ hub.used \subseteq hub'.used /\ hub'.closed = hub.closed
  /\ \A q \in hub.used : q \in hub'.sessions =>
       /\ q \in hub.sessions
       /\ q \notin K => hub'.ad[q] = hub.ad[q] /\ authorizing'[q] = authorizing[q]

LEMMA ClosingSpares ==
  ASSUME HubInv, NEW S \in SUBSET Sessions, NEW failing \in options.failingSends,
         hub' = CloseSessions(hub, S, failing), UNCHANGED authorizing
  PROVE  Spares({}) /\ hub'.sessions = hub.sessions \ S
<1> DEFINE r == CloseSessions(hub, S, failing)
<1>1. /\ hub \in HubType /\ Consistent(hub) /\ failing \in SUBSET Sessions
      /\ options \in Options
  BY FailingSends DEF HubInv, TypeOK
<1>2. /\ r \in HubType /\ Freed(hub, r, S) /\ r.sessions = hub.sessions \ S
  BY <1>1, ClosingKeeps
<1> HIDE DEF r
<1>3. hub' = r
  BY DEF r
<1> QED
  BY <1>1, <1>2, <1>3 DEF Spares, Freed, HubType

(* What a step of the hub carries to the clients.                          *)
LEMMA CarriedEffect ==
  ASSUME HubInv', socket \in [Sessions -> SocketType],
         NEW from \in [Sessions -> SocketType], Carried(from),
         NEW s \in Sessions
  PROVE  /\ socket'[s] \in SocketType
         /\ socket'[s].state = from[s].state
         /\ socket'[s].up = IF Ended(s)' THEN <<>> ELSE from[s].up
         /\ socket'[s].down =
              IF hub'.view[s] # hub.view[s] /\ from[s].state # "closed"
                THEN Append(from[s].down, hub'.view[s]) ELSE from[s].down
<1>1. hub'.view[s] \in SUBSET Ads
  BY DEF HubInv, TypeOK, HubType
<1> DEFINE up == IF Ended(s)' THEN <<>> ELSE from[s].up
           down == IF hub'.view[s] # hub.view[s] /\ from[s].state # "closed"
                     THEN Append(from[s].down, hub'.view[s]) ELSE from[s].down
<1>2. socket'[s] = [from[s] EXCEPT !.up = up, !.down = down]
  BY DEF Carried
<1>3. from[s] \in SocketType
  OBVIOUS
<1>4. up \in Seq(Ads \cup {NoAd}) /\ down \in Seq(SUBSET Ads)
  BY <1>1, <1>3 DEF SocketType
<1> HIDE DEF up, down
<1>5. /\ socket'[s] \in SocketType /\ socket'[s].state = from[s].state
      /\ socket'[s].up = up /\ socket'[s].down = down
  BY <1>2, <1>3, <1>4 DEF SocketType
<1> QED
  BY <1>5 DEF up, down

(* Only a message may have been taken from what is under way.              *)
Taken(from) ==
  /\ from \in [Sessions -> SocketType]
  /\ \A s \in Sessions : /\ from[s].state = socket[s].state
                         /\ from[s].down = socket[s].down

LEMMA LatestKept ==
  ASSUME HubInv, HubInv', ClientInv, NEW from, Taken(from), Carried(from),
         NEW K, Spares(K), UNCHANGED options, NEW d \in Users,
         NEW s, s = Socket(d),
         s \in Sessions =>
           Ended(s)' \/ (s \notin K /\ from[s].up = socket[s].up)
  PROVE  LatestSent(d)'
<1>1. options \in Options /\ socket \in [Sessions -> SocketType]
  BY DEF HubInv, TypeOK, ClientInv
<1>2. UNCHANGED client
  BY DEF Carried
<1>3. Socket(d)' = s /\ Advertisement(d)' = Advertisement(d)
  BY <1>2 DEF Socket, Advertisement
<1> SUFFICES ASSUME State(d)' = "open"
             PROVE  /\ s \in hub'.used
                    /\ ~Ended(s)' => Latest(socket'[s].up, authorizing'[s],
                                            hub'.ad[s], Advertisement(d))
  BY <1>3 DEF LatestSent
<1>4. s \in Sessions
  <2>1. s \in Sessions \cup {NoSession}
    BY <1>1, UserFacts
  <2>2. s # NoSession
    BY <1>3 DEF State
  <2> QED
    BY <2>1, <2>2
<1>5. /\ socket'[s].state = from[s].state
      /\ socket'[s].up = IF Ended(s)' THEN <<>> ELSE from[s].up
  BY <1>1, <1>4, CarriedEffect DEF Taken
<1>6. State(d) = "open"
  BY <1>3, <1>4, <1>5, AdAssumption DEF State, Taken
<1>7. /\ s \in hub.used
      /\ ~Ended(s) => Latest(socket[s].up, authorizing[s], hub.ad[s],
                             Advertisement(d))
  BY <1>6 DEF ClientInv, LatestSent
<1>8. s \in hub'.used
  BY <1>7 DEF Spares
<1>9. CASE Ended(s)'
  BY <1>8, <1>9
<1>10. CASE ~Ended(s)'
  <2>1. s \in hub'.sessions
    BY <1>8, <1>10 DEF Ended
  <2>2. s \in hub.sessions /\ ~Ended(s)
    BY <1>7, <2>1 DEF Spares, Ended
  <2>3. s \notin K /\ from[s].up = socket[s].up
    BY <1>4, <1>10
  <2>4. hub'.ad[s] = hub.ad[s] /\ authorizing'[s] = authorizing[s]
    BY <1>7, <2>1, <2>3 DEF Spares
  <2> QED
    BY <1>5, <1>7, <1>8, <1>10, <2>2, <2>3, <2>4
<1> QED
  BY <1>9, <1>10

(* The rest of the clients' invariant only needs that lists are carried.   *)
LEMMA CarriedStep ==
  ASSUME HubInv, HubInv', ClientInv, Users # {}, NEW from, Taken(from),
         Carried(from), NEW K, Spares(K), UNCHANGED options,
         \A d \in Users : LatestSent(d)'
  PROVE  ClientInv'
<1>1. /\ options \in Options /\ socket \in [Sessions -> SocketType]
      /\ from \in [Sessions -> SocketType] /\ UNCHANGED client
  BY DEF HubInv, TypeOK, ClientInv, Taken, Carried
<1>2. /\ \A s \in Sessions :
           /\ socket'[s] \in SocketType
           /\ socket'[s].state = socket[s].state
           /\ socket'[s].down =
                IF hub'.view[s] # hub.view[s] /\ socket[s].state # "closed"
                  THEN Append(socket[s].down, hub'.view[s]) ELSE socket[s].down
      /\ socket' \in [Sessions -> SocketType]
  <2>1. \A s \in Sessions :
           /\ socket'[s] \in SocketType
           /\ socket'[s].state = socket[s].state
           /\ socket'[s].down =
                IF hub'.view[s] # hub.view[s] /\ socket[s].state # "closed"
                  THEN Append(socket[s].down, hub'.view[s]) ELSE socket[s].down
    <3> TAKE s \in Sessions
    <3>1. /\ socket'[s] \in SocketType
          /\ socket'[s].state = from[s].state
          /\ socket'[s].down =
               IF hub'.view[s] # hub.view[s] /\ from[s].state # "closed"
                 THEN Append(from[s].down, hub'.view[s]) ELSE from[s].down
      BY <1>1, CarriedEffect
    <3>2. from[s].state = socket[s].state /\ from[s].down = socket[s].down
      BY DEF Taken
    <3> QED
      BY <3>1, <3>2
  <2>2. \E f : socket' = [s \in Sessions |-> f[s]]
    <3> DEFINE f == [s \in Sessions |->
         [from[s] EXCEPT
            !.up = IF Ended(s)' THEN <<>> ELSE @,
            !.down = IF hub'.view[s] # hub.view[s] /\ from[s].state # "closed"
                       THEN Append(@, hub'.view[s]) ELSE @]]
    <3>1. socket' = f
      BY DEF Carried
    <3>2. f = [s \in Sessions |-> f[s]]
      OBVIOUS
    <3> QED
      BY <3>1, <3>2
  <2> QED
    BY <2>1, <2>2
<1>3. Users' = Users
  BY DEF Users
<1>4. Indices'
  BY <1>1 DEF ClientInv, Indices
<1>5. Unopened'
  <2> SUFFICES ASSUME NEW d \in Users,
                      NEW i \in (client[d].opened + 1)..Len(SocketsOf[d])
               PROVE  socket'[SocketsOf[d][i]].state = "unused"
    BY <1>1, <1>3 DEF Unopened
  <2>1. d \in Clients /\ client[d].opened \in Nat /\ Len(SocketsOf[d]) \in Nat
    BY <1>1, UserFacts, ClientAssumption DEF ClientInv, ClientType
  <2>2. SocketsOf[d][i] \in Sessions
    <3>1. i \in 1..Len(SocketsOf[d])
      BY <2>1
    <3> QED
      BY <2>1, <3>1, ClientAssumption
  <2> QED
    BY <1>2, <2>2 DEF ClientInv, Unopened
<1>6. \A s \in Sessions : LastList(s)'
  <2> TAKE s \in Sessions
  <2>1. LastList(s) /\ socket[s].down \in Seq(SUBSET Ads)
    BY <1>1 DEF ClientInv, SocketType
  <2>2. hub'.view[s] \in SUBSET Ads
    BY DEF HubInv, TypeOK, HubType
  <2>3. CASE hub'.view[s] # hub.view[s] /\ socket[s].state # "closed"
    <3>1. socket'[s].down = Append(socket[s].down, hub'.view[s])
      BY <1>2, <2>3
    <3> DEFINE new == Append(socket[s].down, hub'.view[s])
    <3>2. new # <<>> /\ new[Len(new)] = hub'.view[s]
      BY <2>1, <2>2
    <3> QED
      BY <3>1, <3>2 DEF LastList
  <2>4. CASE ~(hub'.view[s] # hub.view[s] /\ socket[s].state # "closed")
    BY <1>2, <2>1, <2>4 DEF LastList
  <2> QED
    BY <2>3, <2>4
<1>7. ASSUME NEW d \in Users PROVE Arrived(d)'
  <2> PICK s : s = Socket(d)
    OBVIOUS
  <2>1. Socket(d)' = s /\ Advertisement(d)' = Advertisement(d)
    BY <1>1 DEF Socket, Advertisement
  <2> SUFFICES ASSUME State(d)' = "open", socket'[s].down = <<>>
               PROVE  \/ hub'.view[s] = {}
                      \/ client[d].peers = Others(hub'.view[s], Advertisement(d))
    BY <1>1, <2>1 DEF Arrived
  <2>2. s \in Sessions
    <3>1. s \in Sessions \cup {NoSession}
      BY <1>1, UserFacts
    <3>2. s # NoSession
      BY <2>1 DEF State
    <3> QED
      BY <3>1, <3>2
  <2>3. State(d) = "open" /\ socket[s].state = "open"
    BY <1>2, <2>1, <2>2, AdAssumption DEF State
  <2>4. socket[s].down \in Seq(SUBSET Ads) /\ hub'.view[s] \in SUBSET Ads
    BY <1>1, <2>2 DEF SocketType, HubInv, TypeOK, HubType
  <2>5. Append(socket[s].down, hub'.view[s]) # <<>>
    BY <2>4
  <2>6. hub'.view[s] = hub.view[s] /\ socket[s].down = <<>>
    BY <1>2, <2>2, <2>3, <2>5
  <2> QED
    BY <2>3, <2>6 DEF ClientInv, Arrived
<1>8. ~hub'.closed
  BY DEF ClientInv, Spares
<1> QED
  BY <1>1, <1>2, <1>3, <1>4, <1>5, <1>6, <1>7, <1>8 DEF ClientInv

(* A step of the hub that takes no message and settles nothing.            *)
LEMMA SparingStep ==
  ASSUME HubInv, HubInv', ClientInv, Users # {}, Carried(socket), Spares({}),
         UNCHANGED options
  PROVE  ClientInv'
<1>1. Taken(socket)
  BY DEF Taken, ClientInv
<1>2. ASSUME NEW d \in Users PROVE LatestSent(d)'
  <2> PICK s : s = Socket(d)
    OBVIOUS
  <2> QED
    BY <1>1, LatestKept
<1> QED
  BY <1>1, <1>2, CarriedStep

(* A step that may change what session s has or waits for: what the client *)
(* of s sent last is still the last under way.                             *)
LEMMA MessageStep ==
  ASSUME HubInv, HubInv', ClientInv, Users # {}, NEW from, Taken(from),
         Carried(from), UNCHANGED options, NEW s \in Sessions, Spares({s}),
         \A q \in Sessions \ {s} : from[q].up = socket[q].up,
         \A a \in Ads :
           s \in hub'.sessions
             /\ Latest(socket[s].up, authorizing[s], hub.ad[s], a)
             => Latest(from[s].up, authorizing'[s], hub'.ad[s], a)
  PROVE  ClientInv'
<1>1. /\ options \in Options /\ socket \in [Sessions -> SocketType]
      /\ UNCHANGED client
  BY DEF HubInv, TypeOK, ClientInv, Carried
<1>2. ASSUME NEW d \in Users PROVE LatestSent(d)'
  <2> PICK t : t = Socket(d)
    OBVIOUS
  <2>1. CASE Ended(t)' \/ t # s
    BY <2>1, LatestKept
  <2>2. CASE ~Ended(t)' /\ t = s
    <3>1. Socket(d)' = s /\ Advertisement(d)' = Advertisement(d)
      BY <1>1, <2>2 DEF Socket, Advertisement
    <3> SUFFICES ASSUME State(d)' = "open"
                 PROVE  s \in hub'.used /\ Latest(socket'[s].up, authorizing'[s],
                                             hub'.ad[s], Advertisement(d))
      BY <3>1 DEF LatestSent
    <3>2. /\ socket'[s].state = from[s].state
          /\ socket'[s].up = from[s].up
      BY <1>1, <2>2, CarriedEffect DEF Taken
    <3>3. State(d) = "open"
      BY <2>2, <3>1, <3>2, AdAssumption DEF State, Taken
    <3>4. /\ s \in hub.used
          /\ ~Ended(s) => Latest(socket[s].up, authorizing[s], hub.ad[s],
                                 Advertisement(d))
      BY <2>2, <3>3 DEF ClientInv, LatestSent
    <3>5. s \in hub'.used
      BY <3>4 DEF Spares
    <3>6. s \in hub'.sessions
      BY <2>2, <3>5 DEF Ended
    <3>7. ~Ended(s)
      BY <3>4, <3>6 DEF Spares, Ended
    <3>8. Advertisement(d) \in Ads
      BY <1>1, UserFacts
    <3> QED
      BY <3>2, <3>4, <3>5, <3>6, <3>7, <3>8
  <2> QED
    BY <2>1, <2>2
<1> QED
  BY <1>2, CarriedStep

LEMMA ReceivedStep ==
  ASSUME HubInv, HubInv', ClientInv, Users # {}, NEW s \in Sessions, Received(s)
  PROVE  ClientInv'
<1> DEFINE from == [socket EXCEPT ![s].up = Tail(@)]
           message == Head(socket[s].up)
<1>1. socket \in [Sessions -> SocketType] /\ socket[s] \in SocketType
  BY DEF ClientInv
<1>2. /\ socket[s].up \in Seq(Ads \cup {NoAd}) /\ socket[s].up # <<>>
      /\ Tail(socket[s].up) \in Seq(Ads \cup {NoAd})
  BY <1>1, LastOfTail DEF Received, SocketType
<1>3. /\ Taken(from) /\ from[s].up = Tail(socket[s].up)
      /\ \A q \in Sessions \ {s} : from[q].up = socket[q].up
  <2>1. [socket[s] EXCEPT !.up = Tail(@)] \in SocketType
    BY <1>1, <1>2 DEF SocketType
  <2> QED
    BY <1>1, <2>1 DEF Taken, SocketType
<1>4. Carried(from)
  BY DEF Received
<1> HIDE DEF from
<1>5. ASSUME ReceiveExpired(s) \/ ReceiveRejected(s)
      PROVE  ClientInv'
  <2>1. PICK failing \in options.failingSends :
          hub' = CloseSessions(hub, {s}, failing)
    BY <1>5 DEF ReceiveExpired, ReceiveRejected
  <2>2. UNCHANGED <<authorizing, options>>
    BY <1>5 DEF ReceiveExpired, ReceiveRejected
  <2>3. Spares({}) /\ hub'.sessions = hub.sessions \ {s}
    BY <2>1, <2>2, ClosingSpares
  <2>4. Spares({s}) /\ s \notin hub'.sessions
    BY <2>3 DEF Spares
  <2> QED
    BY <1>3, <1>4, <2>2, <2>4, MessageStep
<1>6. ASSUME message = NoAd, ReceivePing(s)
      PROVE  ClientInv'
  <2>1. UNCHANGED <<hub, authorizing, options>>
    BY <1>6 DEF ReceivePing
  <2>2. Spares({s})
    BY <2>1 DEF Spares
  <2>3. \A a \in Ads :
          Latest(socket[s].up, authorizing[s], hub.ad[s], a)
            => Latest(from[s].up, authorizing'[s], hub'.ad[s], a)
    <3> TAKE a \in Ads
    <3>1. a # NoAd
      BY AdAssumption
    <3> QED
      BY <1>2, <1>3, <1>6, <2>1, <3>1, LatestReceived
  <2> QED
    BY <1>3, <1>4, <2>1, <2>2, <2>3, MessageStep
<1>7. ASSUME message # NoAd, ReceiveRegister(s), authorizing'[s].ad = message
      PROVE  ClientInv'
  <2>1. UNCHANGED <<hub, options>>
    BY <1>7 DEF ReceiveRegister
  <2>2. \A q \in Sessions \ {s} : authorizing'[q] = authorizing[q]
    BY <1>7 DEF ReceiveRegister, HubInv, TypeOK
  <2>3. Spares({s})
    BY <2>1, <2>2 DEF Spares, HubInv, TypeOK, HubType
  <2>4. authorizing'[s] # Idle
    BY <1>7 DEF Idle
  <2>5. \A a \in Ads :
          Latest(socket[s].up, authorizing[s], hub.ad[s], a)
            => Latest(from[s].up, authorizing'[s], hub'.ad[s], a)
    <3> TAKE a \in Ads
    <3> HAVE Latest(socket[s].up, authorizing[s], hub.ad[s], a)
    <3>1. a # NoAd
      BY AdAssumption
    <3>2. Latest(Tail(socket[s].up), authorizing'[s], hub.ad[s], a)
      BY <1>2, <1>7, <2>4, <3>1, LatestReceived
    <3> QED
      BY <1>3, <2>1, <3>2
  <2> QED
    BY <1>3, <1>4, <2>1, <2>3, <2>5, MessageStep
<1> QED
  BY <1>5, <1>6, <1>7 DEF Received

LEMMA SettledStep ==
  ASSUME HubInv, HubInv', ClientInv, Users # {}, NEW s \in Sessions, Settled(s)
  PROVE  ClientInv'
<1> USE DEF Settled, Authorized, Settle
<1> DEFINE a == authorizing[s].ad
<1>1. /\ hub \in HubType /\ options \in Options /\ Consistent(hub)
      /\ authorizing[s] \in Waiting /\ ~hub.closed
      /\ \A q \in Sessions \ {s} : authorizing'[q] = authorizing[q]
      /\ authorizing'[s] = Idle /\ UNCHANGED options
  BY DEF HubInv, TypeOK, ClientInv
<1>2. a \in Ads
  BY <1>1 DEF Waiting
<1>3. /\ Spares({s})
      /\ s \in hub'.sessions => hub'.ad[s] = a
  <2>1. CASE s \notin hub.sessions
    <3>1. hub' = hub
      BY <2>1
    <3> QED
      BY <1>1, <2>1, <3>1 DEF Spares, HubType
  <2>2. CASE s \in hub.sessions
    <3>1. PICK failing \in options.failingSends :
            hub' = Register(hub, s, a, failing)
      BY <1>1, <2>2
    <3> DEFINE r == Register(hub, s, a, failing)
    <3>2. r \in HubType /\ Registered(hub, r, s, a)
      BY <1>1, <1>2, <2>2, FailingSends, RegisterKeeps
    <3> HIDE DEF r
    <3>3. hub' = r
      BY <3>1 DEF r
    <3> QED
      BY <1>1, <3>2, <3>3 DEF Spares, Registered, HubType
  <2> QED
    BY <2>1, <2>2
<1>4. Taken(socket) /\ Carried(socket)
  BY DEF Taken, ClientInv
<1>5. \A x \in Ads :
        s \in hub'.sessions
          /\ Latest(socket[s].up, authorizing[s], hub.ad[s], x)
          => Latest(socket[s].up, authorizing'[s], hub'.ad[s], x)
  BY <1>1, <1>3, LatestSettled
<1> HIDE DEF Settled
<1> QED
  BY <1>1, <1>3, <1>4, <1>5, MessageStep

LEMMA AcceptStep ==
  ASSUME HubInv, HubInv', ClientInv, Users # {}, NEW s \in Sessions, Accept(s)
  PROVE  ClientInv'
<1>1. hub \in HubType /\ ~hub.closed /\ s \notin hub.used
  BY DEF HubInv, TypeOK, ClientInv, Accept, OpenSession
<1>2. /\ hub'.used = hub.used \cup {s} /\ hub'.sessions = hub.sessions \cup {s}
      /\ hub'.closed = hub.closed /\ hub'.ad = hub.ad
      /\ UNCHANGED <<authorizing, options>>
  BY <1>1 DEF Accept, OpenSession, HubType
<1>3. Spares({})
  BY <1>1, <1>2 DEF Spares
<1> QED
  BY <1>2, <1>3, SparingStep DEF Accept

LEMMA ServerSteps ==
  ASSUME HubInv, HubInv', ClientInv, Users # {},
         \/ \E s \in Sessions : Disconnected(s)
         \/ Swept \/ Restart \/ Ticked
  PROVE  ClientInv'
<1>1. ASSUME NEW s \in Sessions, Disconnected(s) PROVE ClientInv'
  <2>1. PICK failing \in options.failingSends :
          hub' = CloseSessions(hub, {s}, failing)
    BY <1>1 DEF Disconnected, CloseSession
  <2>2. Spares({}) /\ UNCHANGED options
    BY <1>1, <2>1, ClosingSpares DEF Disconnected, CloseSession
  <2> QED
    BY <1>1, <2>2, SparingStep DEF Disconnected
<1>2. ASSUME Swept PROVE ClientInv'
  <2>1. PICK failing \in options.failingSends :
          hub' = CloseSessions(hub, Overdue, failing)
    BY <1>2 DEF Swept, Sweep
  <2>2. Overdue \in SUBSET Sessions
    BY DEF Overdue, HubInv, TypeOK, HubType
  <2>3. Spares({}) /\ UNCHANGED options
    BY <1>2, <2>1, <2>2, ClosingSpares DEF Swept, Sweep
  <2> QED
    BY <1>2, <2>3, SparingStep DEF Swept
<1>3. ASSUME Restart PROVE ClientInv'
  <2>1. /\ hub'.used = hub.used /\ hub'.closed = hub.closed
        /\ hub'.sessions = {}
    BY <1>3 DEF Restart, HubInv, TypeOK, HubType
  <2>2. Spares({}) /\ UNCHANGED options
    BY <1>3, <2>1 DEF Spares, Restart
  <2> QED
    BY <1>3, <2>2, SparingStep DEF Restart
<1>4. ASSUME Ticked PROVE ClientInv'
  <2>1. UNCHANGED <<hub, authorizing, options, client, socket>>
    BY <1>4 DEF Ticked, Tick
  <2> QED
    BY <2>1
    DEF ClientInv, Indices, Unopened, LastList, Arrived, LatestSent, Users,
        Ended, State, Socket, Advertisement
<1> QED
  BY <1>1, <1>2, <1>3, <1>4

(* A hub with clients and its clients keep what they know of each other.   *)
LEMMA ClientsStep ==
  ASSUME HubInv, ClientInv, [SystemNext]_systemVars
  PROVE  ClientInv'
<1>1. HubInv'
  BY SystemStep
<1>2. ASSUME NEW c \in Users, ClientProgress(c) \/ ClientChoice(c)
      PROVE  ClientInv'
  BY <1>2, ClientSteps
<1>3. ASSUME Users # {}, ServerProgress
      PROVE  ClientInv'
  BY <1>1, <1>3, AcceptStep, ReceivedStep, SettledStep DEF ServerProgress
<1>4. ASSUME Users = {}, Next, UNCHANGED <<client, socket>>
      PROVE  ClientInv'
  <2>1. UNCHANGED options
    BY <1>4 DEF Next, OpenSession, CloseSession, ReceiveExpired,
       ReceiveRejected, ReceivePing, ReceiveRegister, CountMessage, Authorized,
       NotAuthorized, Settle, Sweep, CloseHub, Tick
  <2>2. Users' = {}
    BY <1>4, <2>1 DEF Users
  <2> QED
    BY <1>4, <2>2 DEF ClientInv, Indices, Unopened
<1>5. ASSUME UNCHANGED systemVars PROVE ClientInv'
  BY <1>5
  DEF ClientInv, Indices, Unopened, LastList, Arrived, LatestSent, Users,
      Ended, State, Socket, Advertisement, systemVars, vars
<1> QED
  BY <1>1, <1>2, <1>3, <1>4, <1>5, ServerSteps DEF SystemNext

LEMMA ClientsInitially ==
  ASSUME SystemInit PROVE ClientInv
<1> USE DEF SystemInit, Init
<1>1. options \in Options /\ Users \subseteq Clients
  BY ClientAssumption DEF Users
<1>2. client \in [Clients -> ClientType]
  <2>1. 0 \in 0..MaxNow
    BY LimitAssumption
  <2> QED
    BY <2>1 DEF ClientType
<1>3. socket \in [Sessions -> SocketType]
  BY DEF SocketType
<1>4. Indices
  <2> SUFFICES ASSUME NEW c \in Clients
               PROVE  0 \in 0..Len(SocketsOf[c]) /\ 1 \in 1..Len(Published[c])
    BY DEF Indices
  <2>1. Len(SocketsOf[c]) \in Nat /\ Len(Published[c]) \in Nat \ {0}
    BY ClientAssumption
  <2> QED
    BY <2>1
<1>5. Unopened
  <2> SUFFICES ASSUME NEW c \in Users, NEW i \in 1..Len(SocketsOf[c])
               PROVE  socket[SocketsOf[c][i]].state = "unused"
    BY <1>1 DEF Unopened
  <2>1. SocketsOf[c][i] \in Sessions
    BY <1>1, ClientAssumption
  <2> QED
    BY <2>1
<1>6. \A s \in Sessions : LastList(s)
  BY DEF LastList
<1>7. \A c \in Users : State(c) = "unused"
  BY <1>1 DEF State, Socket
<1>8. \A c \in Users : Arrived(c) /\ LatestSent(c)
  BY <1>7 DEF Arrived, LatestSent
<1> QED
  BY <1>2, <1>3, <1>4, <1>5, <1>6, <1>8 DEF ClientInv

LEMMA ClientsAlways == SystemSpec => [](HubInv /\ ClientInv)
<1>1. SystemInit => ClientInv
  BY ClientsInitially
<1>2. HubInv /\ ClientInv /\ [SystemNext]_systemVars => ClientInv'
  BY ClientsStep
<1> QED
  BY <1>1, <1>2, HubAlways, PTL DEF SystemSpec

(* Clients, sockets and the hub keep their types.                          *)
THEOREM TypesAreKept == SystemSpec => []SystemTypeOK
<1>1. HubInv /\ ClientInv => SystemTypeOK
  BY DEF HubInv, ClientInv, SystemTypeOK
<1> QED
  BY <1>1, ClientsAlways, PTL

(* Every registered session has been sent the current list of its scope,   *)
(* unless the last send to it failed; and when nothing is under way        *)
(* between a client and the hub, the hub lists the client's latest         *)
(* advertisement and the client's listeners know exactly the others of its *)
(* scope (client.ts sendRegistration and onmessage, rendezvous-hub.ts      *)
(* processMessage, broadcastScope).                                        *)
THEOREM ListsStayCurrent == SystemSpec => []ListsCurrent
<1>1. HubInv => ViewsCurrent
  BY DEF HubInv, Consistent, CurrentBut, ViewsCurrent
<1>2. HubInv /\ ClientInv => ClientsAgree
  <2> SUFFICES ASSUME HubInv, ClientInv, NEW c \in Users, Quiet(c)
               PROVE  LET a == Advertisement(c)
                      IN  /\ hub.registry[ScopeOf[a]][PeerOf[a]] = Socket(c)
                          /\ hub.ad[Socket(c)] = a
                          /\ client[c].peers =
                               {b \in Listed(hub, ScopeOf[a]) :
                                  PeerOf[b] # PeerOf[a]}
    BY DEF ClientsAgree
  <2> DEFINE a == Advertisement(c)
             s == Socket(c)
  <2>1. /\ State(c) = "open" /\ ~Ended(s) /\ s \notin hub.missed
        /\ socket[s].up = <<>> /\ socket[s].down = <<>>
        /\ authorizing[s] = Idle
    BY DEF Quiet
  <2>2. a \in Ads /\ a # NoAd /\ s \in Sessions /\ hub \in HubType
    BY <2>1, UserFacts, AdAssumption DEF HubInv, TypeOK
  <2>3. s \in hub.used /\ Latest(socket[s].up, Idle, hub.ad[s], a)
    BY <2>1 DEF ClientInv, LatestSent
  <2>4. s \in hub.sessions
    BY <2>1, <2>3 DEF Ended
  <2>5. hub.ad[s] = a
    <3>1. ~(\E i \in 1..Len(socket[s].up) : TRUE)
      BY <2>1
    <3> QED
      BY <2>3, <3>1 DEF Latest
  <2>6. hub.registry[ScopeOf[a]][PeerOf[a]] = s
    BY <2>2, <2>5 DEF HubInv, Consistent, EnteredBut
  <2>7. hub.view[s] = Listed(hub, ScopeOf[a])
    BY <2>1, <2>2, <2>4, <2>5 DEF HubInv, Consistent, CurrentBut
  <2>8. a \in hub.view[s]
    <3>1. s \in Members(hub, ScopeOf[a])
      BY <2>2, <2>6, AdAssumption DEF Members
    <3> QED
      BY <2>2, <2>5, <2>7, <3>1 DEF Listed
  <2>9. client[c].peers = Others(hub.view[s], a)
    BY <2>1, <2>8 DEF ClientInv, Arrived
  <2> QED
    BY <2>5, <2>6, <2>7, <2>9 DEF Others
<1> QED
  BY <1>1, <1>2, ClientsAlways, PTL DEF ListsCurrent

=============================================================================
