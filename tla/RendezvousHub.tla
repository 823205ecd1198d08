---------------------------- MODULE RendezvousHub ----------------------------
(***************************************************************************)
(* createWebSocketRendezvousHub of @openge/forge-peer-network-websocket:   *)
(* sessions register one advertisement each, and every session of a scope  *)
(* is sent the advertisements of that scope whenever they change.          *)
(*                                                                         *)
(* The hub runs on one thread: an action is a callback, up to its end or   *)
(* to the one await in it (authorizeRegistration), during which other      *)
(* sessions' messages, closes, the sweep and the shutdown may run.  A      *)
(* session's own messages wait in its receive queue meanwhile.             *)
(***************************************************************************)
EXTENDS Integers, FiniteSets

CONSTANTS
  Sessions,         \* session objects, each opened at most once
  Scopes, Peers,    \* scope and peer identities
  Ads,              \* advertisements a client may register
  ScopeOf, PeerOf,  \* the scope and the peer each advertisement is for
  NoSession, NoAd,
  Options,          \* the options and bounds a hub may be made with
  Window,           \* messageWindowMs, in ticks of the clock
  MaxNow            \* bound: the last value of any clock

ASSUME AdAssumption ==
  /\ ScopeOf \in [Ads -> Scopes] /\ PeerOf \in [Ads -> Peers]
  /\ NoSession \notin Sessions /\ NoAd \notin Ads
ASSUME LimitAssumption ==
  /\ Window \in Nat /\ MaxNow \in Nat
  /\ IsFiniteSet(Scopes) /\ IsFiniteSet(Peers)
(* ttlMs counts ticks.  The last three fields are bounds, not options: the *)
(* sessions that ever open, the last value of the clock, and the sets of   *)
(* sessions whose send may throw at once.                                  *)
ASSUME OptionsAssumption ==
  Options \subseteq [maxScopes : Nat, maxPeersPerScope : Nat \ {0}, ttlMs : Nat,
                     maxMessages : Nat,  \* maxMessagesPerWindow
                     opening : SUBSET Sessions, until : 0..MaxNow,
                     failingSends : SUBSET SUBSET Sessions]

VARIABLES
  hub,           \* the hub's own state, a record (see HubType)
  authorizing,   \* the registration each session waits for, with its time
  timestamp,     \* when each session last registered or sent a heartbeat
  windowStarted, \* start of each session's rate-limit window
  messageCount,  \* messages each session sent in that window
  now,
  options        \* the options this hub was made with

vars ==
  <<hub, authorizing, timestamp, windowStarted, messageCount, now, options>>

(* used: sessions ever opened; sessions: those not closed; scopes and      *)
(* registry: the map of maps; ad: registeredAdvertisement; view: the last  *)
(* list each connection was sent; missed: connections whose last send      *)
(* threw.                                                                  *)
HubType ==
  [closed : BOOLEAN, used : SUBSET Sessions, sessions : SUBSET Sessions,
   scopes : SUBSET Scopes,
   registry : [Scopes -> [Peers -> Sessions \cup {NoSession}]],
   ad : [Sessions -> Ads \cup {NoAd}],
   view : [Sessions -> SUBSET Ads], missed : SUBSET Sessions]

Waiting == [ad : Ads, at : 0..MaxNow]
Idle == [ad |-> NoAd, at |-> 0]

(* The hub and its sessions keep their types; no message above the limit   *)
(* is counted for a session that goes on.                                  *)
TypeOK ==
  /\ hub \in HubType
  /\ authorizing \in [Sessions -> Waiting \cup {Idle}]
  /\ timestamp \in [Sessions -> 0..MaxNow]
  /\ windowStarted \in [Sessions -> 0..MaxNow]
  /\ messageCount \in [Sessions -> 0..options.maxMessages]
  /\ now \in 0..MaxNow
  /\ options \in Options

Init ==
  /\ hub = [closed |-> FALSE, used |-> {}, sessions |-> {}, scopes |-> {},
            registry |-> [sc \in Scopes |-> [p \in Peers |-> NoSession]],
            ad |-> [s \in Sessions |-> NoAd],
            view |-> [s \in Sessions |-> {}], missed |-> {}]
  /\ authorizing = [s \in Sessions |-> Idle]
  /\ timestamp = [s \in Sessions |-> 0]
  /\ windowStarted = [s \in Sessions |-> 0]
  /\ messageCount = [s \in Sessions |-> 0]
  /\ now = 0
  /\ options \in Options

------------------------------------------------------------------------------
(* The hub's helpers, as functions of its state h.                         *)

Members(h, sc) == {h.registry[sc][p] : p \in Peers} \ {NoSession}
Listed(h, sc) == {h.ad[s] : s \in Members(h, sc)} \ {NoAd}

(* Every open session of scope sc is sent its list; sends that throw are   *)
(* reported and skipped.                                                   *)
BroadcastScopes(h, changed, failing) ==
  LET reached == {s \in h.sessions : \E sc \in changed : s \in Members(h, sc)}
  IN  [h EXCEPT
         !.view = [s \in Sessions |->
            IF s \in reached \ failing
              THEN UNION {Listed(h, sc) :
                            sc \in {c \in changed : s \in Members(h, c)}}
              ELSE h.view[s]],
         !.missed = (@ \ reached) \cup (reached \cap failing)]

(* The entry of a peer that still belongs to a session of S.               *)
Owned(h, S, sc, p) ==
  \E s \in S : /\ h.ad[s] # NoAd /\ ScopeOf[h.ad[s]] = sc /\ PeerOf[h.ad[s]] = p
               /\ h.registry[sc][p] = s

Without(h, S) ==
  [h EXCEPT
     !.ad = [s \in Sessions |-> IF s \in S THEN NoAd ELSE h.ad[s]],
     !.registry = [sc \in Scopes |-> [p \in Peers |->
        IF Owned(h, S, sc, p) THEN NoSession ELSE h.registry[sc][p]]]]

Changed(h, S) == {sc \in Scopes : \E p \in Peers : Owned(h, S, sc, p)}

(* A scope goes with its last entry.                                       *)
Emptied(h, changed) == {sc \in changed : Members(h, sc) = {}}

(* Mutant: nobody is told of a removal.                                    *)
RemoveRegistrationsSilently(h, S, failing) ==
  [Without(h, S) EXCEPT !.scopes = @ \ Emptied(Without(h, S), Changed(h, S))]

(* removeRegistration for every session of S; what is left of a changed    *)
(* scope is sent its new list.                                             *)
RemoveRegistrations(h, S, failing) ==
  LET removed == Without(h, S)
      emptied == Emptied(removed, Changed(h, S))
  IN  BroadcastScopes([removed EXCEPT !.scopes = @ \ emptied],
                      Changed(h, S) \ emptied, failing)

CloseSessions(h, S, failing) ==
  LET open == S \cap h.sessions
  IN  RemoveRegistrations([h EXCEPT !.sessions = @ \ open], open, failing)

(* There is no room for peer p in scope sc.                                *)
Full(h, sc, p) ==
  \/ sc \notin h.scopes /\ Cardinality(h.scopes) >= options.maxScopes
  \/ /\ h.registry[sc][p] = NoSession
     /\ Cardinality(Members(h, sc)) >= options.maxPeersPerScope

(* The registration itself, after a successful authorization: the session  *)
(* that was registered for the same peer is closed.                        *)
Register(h, s, a, failing) ==
  LET left == RemoveRegistrations(h, {s}, failing)
      sc == ScopeOf[a]
      existing == left.registry[sc][PeerOf[a]]
      entered == [left EXCEPT !.scopes = @ \cup {sc}, !.ad[s] = a,
                              !.registry[sc][PeerOf[a]] = s]
  IN  IF Full(left, sc, PeerOf[a])
        THEN CloseSessions(left, {s}, failing)
        ELSE BroadcastScopes(
               CloseSessions(entered, {existing} \ {NoSession, s}, failing),
               {sc}, failing)

------------------------------------------------------------------------------
(* The callbacks.                                                          *)

OpenSession(s) ==
  /\ s \in options.opening \ hub.used
  /\ hub' = [hub EXCEPT !.used = @ \cup {s},
                        !.sessions = IF hub.closed THEN @ ELSE @ \cup {s}]
  /\ timestamp' = [timestamp EXCEPT ![s] = now]
  /\ windowStarted' = [windowStarted EXCEPT ![s] = now]
  /\ UNCHANGED <<authorizing, messageCount, now, options>>

CloseSession(s) ==
  /\ s \in hub.sessions
  /\ \E failing \in options.failingSends :
       hub' = CloseSessions(hub, {s}, failing)
  /\ UNCHANGED <<authorizing, timestamp, windowStarted, messageCount, now,
                 options>>

Expired(s) == now - timestamp[s] > options.ttlMs

(* Mutant: a message does not wait for the one before it.                  *)
ReceivableAtOnce(s) == s \in hub.sessions

(* processMessage up to the message's type: an expired session is closed   *)
(* first, then the message is counted against its window.                  *)
Receivable(s) == s \in hub.sessions /\ authorizing[s] = Idle

ReceiveExpired(s) ==
  /\ Receivable(s) /\ Expired(s)
  /\ \E failing \in options.failingSends :
       hub' = CloseSessions(hub, {s}, failing)
  /\ UNCHANGED <<authorizing, timestamp, windowStarted, messageCount, now,
                 options>>

CountAfter(s) == 1 + IF now - windowStarted[s] > Window THEN 0
                     ELSE messageCount[s]
CountMessage(s) ==
  /\ Receivable(s) /\ ~Expired(s)
  /\ messageCount' = [messageCount EXCEPT ![s] = CountAfter(s)]
  /\ windowStarted' = [windowStarted EXCEPT
                        ![s] = IF now - @ > Window THEN now ELSE @]

(* rate-limit; a message over the limit of bytes, one that does not parse, *)
(* and a heartbeat of an unregistered session are rejected alike.  The     *)
(* count of a session that is closed is never read again, and left alone.  *)
ReceiveRejected(s) ==
  /\ Receivable(s) /\ ~Expired(s)
  /\ \E failing \in options.failingSends :
       hub' = CloseSessions(hub, {s}, failing)
  /\ UNCHANGED <<authorizing, timestamp, windowStarted, messageCount, now,
                 options>>

ReceivePing(s) ==
  /\ CountMessage(s) /\ CountAfter(s) <= options.maxMessages
  /\ hub.ad[s] # NoAd
  /\ timestamp' = [timestamp EXCEPT ![s] = now]
  /\ UNCHANGED <<hub, authorizing, now, options>>

ReceiveRegister(s) ==
  /\ CountMessage(s) /\ CountAfter(s) <= options.maxMessages
  /\ \E a \in Ads :
       authorizing' = [authorizing EXCEPT ![s] = [ad |-> a, at |-> now]]
  /\ UNCHANGED <<hub, timestamp, now, options>>

(* The awaited authorization settles; the hub and the session are looked   *)
(* at again, because either may have been closed meanwhile.                *)
Settle(s) ==
  /\ authorizing[s] # Idle
  /\ authorizing' = [authorizing EXCEPT ![s] = Idle]
  /\ UNCHANGED <<windowStarted, messageCount, now, options>>

(* Mutant: the session is not looked at again after the await.             *)
AuthorizedUnchecked(s) ==
  /\ Settle(s)
  /\ \E failing \in options.failingSends :
       hub' = Register(hub, s, authorizing[s].ad, failing)
  /\ timestamp' = [timestamp EXCEPT ![s] = authorizing[s].at]

Authorized(s) ==
  /\ Settle(s)
  /\ IF hub.closed \/ s \notin hub.sessions
       THEN UNCHANGED <<hub, timestamp>>
       ELSE \E failing \in options.failingSends :
              LET h == Register(hub, s, authorizing[s].ad, failing)
              IN  /\ hub' = h
                  /\ timestamp' = IF s \in h.sessions
                       THEN [timestamp EXCEPT ![s] = authorizing[s].at]
                       ELSE timestamp

(* Unauthorized, or authorizeRegistration rejected.                        *)
NotAuthorized(s) ==
  /\ Settle(s)
  /\ \E failing \in options.failingSends :
       hub' = CloseSessions(hub, {s}, failing)
  /\ UNCHANGED timestamp

(* Mutant: the sweep walks the registry, not the sessions.                 *)
OverdueRegistered == {s \in hub.sessions : Expired(s) /\ hub.ad[s] # NoAd}

(* The sessions that the sweep closes.                                     *)
Overdue == {s \in hub.sessions : Expired(s)}
CanSweep == ~hub.closed /\ Overdue # {}

Sweep ==
  /\ CanSweep
  /\ \E failing \in options.failingSends :
       hub' = CloseSessions(hub, Overdue, failing)
  /\ UNCHANGED <<authorizing, timestamp, windowStarted, messageCount, now,
                 options>>

CloseHub ==
  /\ ~hub.closed
  /\ \E failing \in options.failingSends :
       hub' = [CloseSessions([hub EXCEPT !.closed = TRUE], Sessions, failing)
                 EXCEPT !.scopes = {}]
  /\ UNCHANGED <<authorizing, timestamp, windowStarted, messageCount, now,
                 options>>

Tick ==
  /\ now < options.until
  /\ now' = now + 1
  /\ UNCHANGED <<hub, authorizing, timestamp, windowStarted, messageCount,
                 options>>

Next ==
  \/ \E s \in Sessions :
       \/ OpenSession(s) \/ CloseSession(s)
       \/ ReceiveExpired(s) \/ ReceiveRejected(s)
       \/ ReceivePing(s) \/ ReceiveRegister(s)
       \/ Authorized(s) \/ NotAuthorized(s)
  \/ Sweep \/ CloseHub \/ Tick

Spec == Init /\ [][Next]_vars

------------------------------------------------------------------------------
(* The registry lists exactly the open sessions that are registered, each  *)
(* under its own scope and peer: no entry survives its session, and no     *)
(* registered session is missing, whatever closed or replaced it while its *)
(* authorization was awaited (rendezvous-hub.ts removeRegistration,        *)
(* processMessage). The scope map holds no empty scope, so that maxScopes  *)
(* counts live ones only, and neither limit is ever exceeded.              *)
RegistryConsistent ==
  /\ \A sc \in Scopes, p \in Peers :
       hub.registry[sc][p] # NoSession =>
         LET s == hub.registry[sc][p]
         IN  /\ s \in hub.sessions /\ hub.ad[s] # NoAd
             /\ ScopeOf[hub.ad[s]] = sc /\ PeerOf[hub.ad[s]] = p
  /\ \A s \in Sessions : hub.ad[s] # NoAd =>
       hub.registry[ScopeOf[hub.ad[s]]][PeerOf[hub.ad[s]]] = s
  /\ hub.scopes = {sc \in Scopes : Members(hub, sc) # {}}
  /\ Cardinality(hub.scopes) <= options.maxScopes
  /\ \A sc \in Scopes :
       Cardinality(Members(hub, sc)) <= options.maxPeersPerScope

(* Every registered session has been sent the current list of its scope,   *)
(* unless the last send to it failed: no change goes without a broadcast.  *)
ViewsCurrent ==
  \A s \in hub.sessions \ hub.missed : hub.ad[s] # NoAd =>
    hub.view[s] = Listed(hub, ScopeOf[hub.ad[s]])

(* A registration whose authorization was slow does not take back a later  *)
(* heartbeat: a session's timestamp never decreases.                       *)
TimestampNeverDecreases ==
  [][\A s \in Sessions : timestamp'[s] >= timestamp[s]]_vars

(* No session stays open past its time, registered or not, and whatever    *)
(* authorizations under way since before then renew: again and again there *)
(* is a moment when none is (sweepTimer).                                  *)
ExpiredAreClosed == []<>(\A s \in hub.sessions : ~Expired(s))

==============================================================================
