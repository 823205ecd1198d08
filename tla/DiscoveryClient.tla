--------------------------- MODULE DiscoveryClient ---------------------------
(***************************************************************************)
(* createWebSocketPeerDiscovery composed with the hub it registers at: a   *)
(* client keeps one socket, registers its latest advertisement on it, sends *)
(* heartbeats, hands what it is told to its listeners, and opens another    *)
(* socket when that one closes.  createWebSocketRendezvousServer ties the   *)
(* sockets to the hub's sessions.  The network is external: it keeps the    *)
(* order of what it delivers, and may drop a connection at any time, with   *)
(* one end or both finding out.                                             *)
(***************************************************************************)
EXTENDS RendezvousHub, Sequences

CONSTANTS
  Clients,
  ClientsOf,   \* the clients of each hub; {} for a hub that anybody calls
  SocketsOf,   \* bound: the sockets each client may open, in their order
  Reserve,     \* bound: how many of them are kept for after the last fault
  Published    \* the advertisements each client publishes, in their order

ASSUME ClientAssumption ==
  /\ ClientsOf \in [Options -> SUBSET Clients]
  /\ SocketsOf \in [Clients -> Seq(Sessions)] /\ Reserve \in [Clients -> Nat]
  /\ Published \in [Clients -> Seq(Ads) \ {<<>>}]
(* Every socket is a new object, and a client speaks for one peer.          *)
ASSUME SocketAssumption ==
  /\ \A o \in Options : \A c, d \in ClientsOf[o] :
       \A i \in DOMAIN SocketsOf[c], j \in DOMAIN SocketsOf[d] :
         SocketsOf[c][i] = SocketsOf[d][j] => c = d /\ i = j
  /\ \A c \in Clients : \A i, j \in DOMAIN Published[c] :
       PeerOf[Published[c][i]] = PeerOf[Published[c][j]]

VARIABLES
  client,   \* each client's own variables
  socket    \* each socket with what is under way on it

systemVars == <<vars, client, socket>>

Users == ClientsOf[options]

(* opened and published count the sockets opened and the advertisements     *)
(* published; reconnecting: reconnectTimer is set; pinged: when the         *)
(* heartbeat's interval last fired; peers: what listeners were last told.   *)
ClientType ==
  [opened : Nat, published : Nat, reconnecting : BOOLEAN, closed : BOOLEAN,
   pinged : 0..MaxNow, peers : SUBSET Ads]

(* up: messages to the hub, a heartbeat being NoAd; down: lists sent by it. *)
SocketType ==
  [state : {"unused", "connecting", "open", "closed"},
   up : Seq(Ads \cup {NoAd}), down : Seq(SUBSET Ads)]

(* Clients and sockets keep their types, and so does the hub.               *)
SystemTypeOK ==
  /\ TypeOK
  /\ client \in [Clients -> ClientType]
  /\ socket \in [Sessions -> SocketType]

(* The call of openSocket at the end of the constructor is the first        *)
(* "reconnect".                                                             *)
SystemInit ==
  /\ Init
  /\ client = [c \in Clients |->
       [opened |-> 0, published |-> 1, reconnecting |-> TRUE, closed |-> FALSE,
        pinged |-> 0, peers |-> {}]]
  /\ socket = [s \in Sessions |->
                 [state |-> "unused", up |-> <<>>, down |-> <<>>]]

------------------------------------------------------------------------------
Advertisement(c) == Published[c][client[c].published]
Socket(c) == IF client[c].opened = 0 THEN NoSession
             ELSE SocketsOf[c][client[c].opened]
State(c) == IF Socket(c) = NoSession THEN "unused" ELSE socket[Socket(c)].state

(* The hub has closed the session: its side of the connection is closing,   *)
(* and what still arrives for it is ignored.                                *)
Ended(s) == s \in hub.used \ hub.sessions

Sent(s, message) ==
  [socket EXCEPT ![s].up = IF Ended(s) THEN @ ELSE Append(@, message)]

SocketsLeft(c) == Len(SocketsOf[c]) - client[c].opened

OpenSocket(c) ==
  /\ client[c].reconnecting /\ ~client[c].closed /\ SocketsLeft(c) > 0
  /\ client' = [client EXCEPT ![c].opened = @ + 1, ![c].reconnecting = FALSE]
  /\ socket' = [socket EXCEPT
                  ![SocketsOf[c][client[c].opened + 1]].state = "connecting"]
  /\ UNCHANGED vars

(* sendRegistration on the newly opened socket; the heartbeat starts.       *)
Opened(c) ==
  /\ State(c) = "connecting" /\ Socket(c) \in hub.used
  /\ socket' = [Sent(Socket(c), Advertisement(c))
                  EXCEPT ![Socket(c)].state = "open"]
  /\ client' = [client EXCEPT ![c].pinged = now]
  /\ UNCHANGED vars

Publish(c) ==
  /\ ~client[c].closed /\ client[c].published < Len(Published[c])
  /\ client' = [client EXCEPT ![c].published = @ + 1]
  /\ socket' = IF State(c) = "open"
                 THEN Sent(Socket(c), Published[c][client[c].published + 1])
                 ELSE socket
  /\ UNCHANGED vars

(* The interval is shorter than ttlMs: it fires once in each tick.          *)
Heartbeat(c) ==
  /\ State(c) = "open" /\ client[c].pinged < now
  /\ client' = [client EXCEPT ![c].pinged = now]
  /\ socket' = Sent(Socket(c), NoAd)
  /\ UNCHANGED vars

(* onmessage: the client's own peer is left out of what listeners are told. *)
Deliver(c) ==
  /\ State(c) = "open" /\ socket[Socket(c)].down # <<>>
  /\ client' = [client EXCEPT
       ![c].peers = {a \in Head(socket[Socket(c)].down) :
                       PeerOf[a] # PeerOf[Advertisement(c)]}]
  /\ socket' = [socket EXCEPT ![Socket(c)].down = Tail(@)]
  /\ UNCHANGED vars

Dropped(s) == [socket EXCEPT ![s] = [state |-> "closed", up |-> @.up,
                                     down |-> <<>>]]

(* Mutant: only a connection that had opened is tried again.                *)
OnCloseOpened(c) ==
  /\ client' = [client EXCEPT ![c].reconnecting = State(c) = "open"]
  /\ socket' = Dropped(Socket(c))
  /\ UNCHANGED vars

OnClose(c) ==
  /\ client' = [client EXCEPT ![c].reconnecting = TRUE]
  /\ socket' = Dropped(Socket(c))
  /\ UNCHANGED vars

(* The end of a session that the hub closed reaches the client after the    *)
(* lists sent before.                                                       *)
HungUp(c) ==
  /\ State(c) = "open" /\ Ended(Socket(c)) /\ socket[Socket(c)].down = <<>>
  /\ OnClose(c)

(* The connection fails or is lost; the hub may never be told.              *)
Lost(c) ==
  /\ State(c) \in {"connecting", "open"} /\ SocketsLeft(c) >= Reserve[c]
  /\ OnClose(c)

Close(c) ==
  /\ ~client[c].closed
  /\ client' = [client EXCEPT ![c].closed = TRUE, ![c].reconnecting = FALSE]
  /\ socket' = IF State(c) \in {"connecting", "open"} THEN Dropped(Socket(c))
               ELSE socket
  /\ UNCHANGED vars

------------------------------------------------------------------------------
(* The hub's side.  A list that a step of the hub sends is under way to the *)
(* client; of several sent in one step only the last matters.               *)
Carried(from) ==
  /\ socket' = [s \in Sessions |->
       [from[s] EXCEPT
          !.up = IF Ended(s)' THEN <<>> ELSE @,
          !.down = IF hub'.view[s] # hub.view[s] /\ from[s].state # "closed"
                     THEN Append(@, hub'.view[s]) ELSE @]]
  /\ UNCHANGED client

(* server.on('connection'): before the client learns that it is open.       *)
Accept(s) ==
  /\ socket[s].state = "connecting"
  /\ OpenSession(s) /\ Carried(socket)

(* socket.on('close') of the server, once the connection is gone.           *)
Disconnected(s) ==
  /\ socket[s].state = "closed"
  /\ CloseSession(s) /\ Carried(socket)

(* socket.on('message'): the session's receive queue takes the next one.    *)
Received(s) ==
  /\ socket[s].up # <<>>
  /\ LET message == Head(socket[s].up)
     IN  \/ ReceiveExpired(s)
         \/ /\ CountAfter(s) > options.maxMessages
            /\ ReceiveRejected(s)
         \/ /\ message = NoAd /\ hub.ad[s] = NoAd
            /\ ReceiveRejected(s)
         \/ message = NoAd /\ ReceivePing(s)
         \/ /\ message # NoAd
            /\ ReceiveRegister(s) /\ authorizing'[s].ad = message
  /\ Carried([socket EXCEPT ![s].up = Tail(@)])

Settled(s) == Authorized(s) /\ Carried(socket)
Swept == Sweep /\ Carried(socket)

(* The server stops and another takes its place: hub.close, terminate.  No  *)
(* message of an old connection can come late after that.                   *)
Restart ==
  /\ \A c \in Users : SocketsLeft(c) >= Reserve[c] - 1
  /\ hub.sessions # {}
  /\ hub' = [hub EXCEPT
       !.sessions = {}, !.scopes = {},
       !.registry = [sc \in Scopes |-> [p \in Peers |-> NoSession]],
       !.ad = [s \in Sessions |-> NoAd]]
  /\ authorizing' = [s \in Sessions |-> Idle]
  /\ Carried(socket)
  /\ UNCHANGED <<timestamp, windowStarted, messageCount, now, options>>

Ticked == Tick /\ UNCHANGED <<client, socket>>

(* What a client's socket and timers go on doing, and what is up to others. *)
ClientProgress(c) == OpenSocket(c) \/ Opened(c) \/ Deliver(c) \/ HungUp(c)
ClientChoice(c) == Publish(c) \/ Heartbeat(c) \/ Lost(c) \/ Close(c)

ServerProgress ==
  /\ UNCHANGED client
  /\ \E s \in Sessions : Accept(s) \/ Received(s) \/ Settled(s)

(* A hub with clients, or one that anybody calls in any way.                *)
SystemNext ==
  \/ \E c \in Users : ClientProgress(c) \/ ClientChoice(c)
  \/ /\ Users # {}
     /\ \/ ServerProgress \/ \E s \in Sessions : Disconnected(s)
        \/ Swept \/ Restart \/ Ticked
  \/ Users = {} /\ Next /\ UNCHANGED <<client, socket>>

CanServe ==
  \E s \in Sessions :
    \/ socket[s].state = "connecting" /\ s \notin hub.used
    \/ socket[s].up # <<>> /\ Receivable(s)
    \/ authorizing[s] # Idle

(* The sweep is called again and again, the server accepts, reads and       *)
(* authorizes, the network delivers and a client's reconnect timer fires.   *)
(* Nothing has to publish, send a heartbeat, close, or tell the server that *)
(* a client is gone.  The first two are weak fairness with the condition    *)
(* that enables the step written out.                                       *)
SystemSpec ==
  /\ SystemInit /\ [][SystemNext]_systemVars
  /\ []<>~CanSweep \/ []<><<Sweep>>_systemVars
  /\ []<>~(Users # {} /\ CanServe) \/ []<><<ServerProgress>>_systemVars
  /\ \A c \in Clients : WF_systemVars(c \in Users /\ ClientProgress(c))

------------------------------------------------------------------------------
(* When nothing is under way between a connected client and the hub, and    *)
(* the last send to it did not throw, the hub lists the client's latest     *)
(* advertisement, and the client's listeners know exactly the others of its *)
(* scope: no order of publishing, moving, reconnecting and broadcasting     *)
(* leaves either behind (client.ts sendRegistration and onmessage,          *)
(* rendezvous-hub.ts processMessage).                                       *)
Quiet(c) ==
  LET s == Socket(c)
  IN  /\ State(c) = "open" /\ ~Ended(s) /\ s \notin hub.missed
      /\ socket[s].up = <<>> /\ socket[s].down = <<>> /\ authorizing[s] = Idle

ClientsAgree ==
  \A c \in Users : Quiet(c) =>
    LET a == Advertisement(c)
    IN  /\ hub.registry[ScopeOf[a]][PeerOf[a]] = Socket(c)
        /\ hub.ad[Socket(c)] = a
        /\ client[c].peers =
             {b \in Listed(hub, ScopeOf[a]) : PeerOf[b] # PeerOf[a]}

(* Everybody has been sent the current list: the sessions of a hub that     *)
(* anybody calls, and the listeners of its clients.                         *)
ListsCurrent == ViewsCurrent /\ ClientsAgree

(* Whatever connections are lost or refused, whoever is replaced, swept or  *)
(* restarted meanwhile: as long as a client is not closed, it ends up       *)
(* listed with its latest advertisement (client.ts onopen, onclose and its  *)
(* two timers).                                                             *)
LatestIsListed ==
  \A c \in Clients :
    <>[](c \in Users /\ ~client[c].closed =>
           LET a == Advertisement(c)
           IN  /\ hub.registry[ScopeOf[a]][PeerOf[a]] = Socket(c)
               /\ Socket(c) # NoSession /\ hub.ad[Socket(c)] = a)

==============================================================================
