-------------------------- MODULE PeerDialScheduler --------------------------
(***************************************************************************)
(* createPeerDialScheduler of @openge/forge-peer-network, over the network *)
(* of @openge/forge-peer-network-libp2p: advertised peers are dialled,     *)
(* with a bounded number of retries, until a connection was set up.        *)
(*                                                                         *)
(* An action is a callback of the one thread up to its next await.  A dial *)
(* state is the object peerStates maps a peer to; a state that was dropped *)
(* from the map may still be dialling, and must then let go of what it     *)
(* gets.  A connection of the libp2p network is no more than the peer's    *)
(* id: closing it hangs up the peer, a connection that the peer opened     *)
(* included, and the network reports a peer as disconnected when the last  *)
(* connection to it is gone.                                               *)
(*                                                                         *)
(* Retry delays are abstracted: an armed timer may fire at any time.       *)
(***************************************************************************)
EXTENDS Naturals, FiniteSets

CONSTANTS
  Peers,      \* advertised peers, the local one excluded
  Dialers,    \* bound: those of the peers that connect to us, too
  Ids,        \* bound: the dial states that may be created,
  StatesOf,   \* and for which peer
  None,
  Attempts    \* how many delays retryDelaysMs lists

ASSUME DialAssumption ==
  /\ Attempts \in Nat /\ None \notin Ids /\ Dialers \subseteq Peers
  /\ StatesOf \in [Peers -> SUBSET Ids]

VARIABLES
  closed,
  current,    \* peerStates: the dial state of each peer, or None
  connected,  \* connectedPeerIds
  peer,       \* peer of each created state, None for those not yet created
  next,       \* nextAttemptIndex of each state
  pc,         \* what each state waits for
  aborted,    \* states whose controller was aborted
  up,         \* peers the network has dialled and has a connection to
  inbound,    \* peers that opened a connection to us
  delivered,  \* of those dialled, the ones the listeners were told of
  unclosable  \* of those dialled, the ones whose hang-up was refused

scheduler == <<closed, current, connected, peer, next, pc, aborted>>
network == <<up, inbound, delivered, unclosable>>
dialVars == <<closed, current, connected, peer, next, pc, aborted,
          up, inbound, delivered, unclosable>>

Waits == {"new", "timer", "dial", "dialled", "setup", "late", "cleanup",
          "cleaned", "done"}

(* The scheduler and the network keep their types: no state makes more     *)
(* attempts than there are delays, and only peers that are up are announced.*)
DialTypeOK ==
  /\ closed \in BOOLEAN
  /\ current \in [Peers -> Ids \cup {None}]
  /\ connected \subseteq Peers
  /\ peer \in [Ids -> Peers \cup {None}]
  /\ next \in [Ids -> 0..Attempts]
  /\ pc \in [Ids -> Waits]
  /\ aborted \subseteq Ids
  /\ up \subseteq Peers /\ inbound \subseteq Dialers /\ delivered \subseteq up
  /\ unclosable \subseteq up

DialInit ==
  /\ closed = FALSE
  /\ current = [p \in Peers |-> None]
  /\ connected = {}
  /\ peer = [i \in Ids |-> None]
  /\ next = [i \in Ids |-> 0]
  /\ pc = [i \in Ids |-> "new"]
  /\ aborted = {}
  /\ up = {} /\ inbound = {} /\ delivered = {} /\ unclosable = {}

IsCurrent(i) == current[peer[i]] = i
Overtaken(i) == closed \/ ~IsCurrent(i)

------------------------------------------------------------------------------
(* Mutant: an exhausted state keeps its place.                             *)
ScheduleOrStay(i) ==
  LET again == ~Overtaken(i) /\ next[i] < Attempts
  IN  /\ next' = [next EXCEPT ![i] = IF again THEN @ + 1 ELSE @]
      /\ pc' = [pc EXCEPT ![i] = IF again THEN "timer" ELSE "done"]
      /\ UNCHANGED current

(* scheduleNext: another timer, or the peer may be considered afresh; for  *)
(* a stale state, nothing.                                                 *)
ScheduleNext(i) ==
  LET again == ~Overtaken(i) /\ next[i] < Attempts
  IN  /\ next' = [next EXCEPT ![i] = IF again THEN @ + 1 ELSE @]
      /\ pc' = [pc EXCEPT ![i] = IF again THEN "timer" ELSE "done"]
      /\ current' = [current EXCEPT ![peer[i]] =
                       IF ~again /\ @ = i THEN None ELSE @]

(* A peer's states are interchangeable: any new one will do.               *)
NewState(p) == CHOOSE i \in StatesOf[p] : pc[i] = "new"

(* An advertisement of a peer that is neither connected nor being dialled. *)
Consider(p, i) ==
  /\ ~closed /\ p \notin connected /\ current[p] = None
  /\ i \in StatesOf[p] /\ pc[i] = "new" /\ i = NewState(p)
  /\ peer' = [peer EXCEPT ![i] = p]
  /\ IF Attempts > 0
       THEN /\ current' = [current EXCEPT ![p] = i]
            /\ next' = [next EXCEPT ![i] = 1]
            /\ pc' = [pc EXCEPT ![i] = "timer"]
       ELSE /\ pc' = [pc EXCEPT ![i] = "done"]
            /\ UNCHANGED <<current, next>>
  /\ UNCHANGED <<closed, connected, aborted, network>>

(* The timer fires; a dropped state's timer was cleared.                   *)
Connect(i) ==
  /\ pc[i] = "timer"
  /\ pc' = [pc EXCEPT ![i] = "dial"]
  /\ UNCHANGED <<closed, current, connected, peer, next, aborted, network>>

(* network.connect rejects; an aborted dial ends without an event.         *)
DialFails(i) ==
  /\ pc[i] = "dial"
  /\ IF closed \/ i \in aborted
       THEN pc' = [pc EXCEPT ![i] = "done"] /\ UNCHANGED <<current, next>>
       ELSE ScheduleNext(i)
  /\ UNCHANGED <<closed, connected, peer, aborted, network>>

(* The connection stands, though connect() has not resumed; an abort that  *)
(* comes too late does not prevent it. One that the peer opened is taken   *)
(* when it was there before the dial.                                      *)
Dialled(i) ==
  /\ pc[i] = "dial"
  /\ up' \in {up \cup {peer[i]}} \cup (IF peer[i] \in inbound THEN {up} ELSE {})
  /\ pc' = [pc EXCEPT ![i] = "dialled"]
  /\ UNCHANGED <<closed, current, connected, peer, next, aborted, inbound,
                 delivered, unclosable>>

(* Mutant: a connection that comes too late is forgotten.                  *)
DropLate(i) ==
  /\ pc[i] = "dialled"
  /\ pc' = [pc EXCEPT ![i] = IF Overtaken(i) THEN "done" ELSE "setup"]
  /\ UNCHANGED <<closed, current, connected, peer, next, aborted, network>>

(* connect() resumes with the connection: a stale state closes it, a       *)
(* current one hands it to onConnected.                                    *)
Established(i) ==
  /\ pc[i] = "dialled"
  /\ pc' = [pc EXCEPT ![i] = IF Overtaken(i) THEN "late" ELSE "setup"]
  /\ UNCHANGED <<closed, current, connected, peer, next, aborted, network>>

(* Mutant: the state is not looked at again after the set-up.              *)
SetUpUnchecked(i) ==
  /\ pc[i] = "setup"
  /\ connected' = connected \cup {peer[i]}
  /\ current' = [current EXCEPT ![peer[i]] = None]
  /\ pc' = [pc EXCEPT ![i] = "done"]
  /\ delivered' = delivered \cup ({peer[i]} \cap up)
  /\ UNCHANGED <<closed, peer, next, aborted, up, inbound, unclosable>>

(* onConnected resolves: the peer is connected, unless the state was       *)
(* dropped meanwhile.                                                      *)
SetUp(i) ==
  /\ pc[i] = "setup"
  /\ IF Overtaken(i)
       THEN /\ pc' = [pc EXCEPT ![i] = "late"]
            /\ UNCHANGED <<current, connected, delivered>>
       ELSE /\ connected' = connected \cup {peer[i]}
            /\ current' = [current EXCEPT ![peer[i]] = None]
            /\ pc' = [pc EXCEPT ![i] = "done"]
            /\ delivered' = delivered \cup ({peer[i]} \cap up)
  /\ UNCHANGED <<closed, peer, next, aborted, up, inbound, unclosable>>

(* onConnected rejects: the connection is closed before anything else.     *)
SetUpFails(i) ==
  /\ pc[i] = "setup"
  /\ pc' = [pc EXCEPT ![i] = "cleanup"]
  /\ UNCHANGED <<closed, current, connected, peer, next, aborted, network>>

------------------------------------------------------------------------------
(* The scheduler's listener for peer-disconnected: the peer's state is     *)
(* dropped, its timer cleared and its dial aborted. A state that waited    *)
(* goes on where waits says.                                               *)
Disconnected(p, waits) ==
  LET i == current[p]
  IN  /\ connected' = connected \ {p}
      /\ current' = [current EXCEPT ![p] = None]
      /\ IF i # None /\ pc[i] = "timer"
           THEN pc' = [waits EXCEPT ![i] = "done"] /\ UNCHANGED aborted
           ELSE pc' = waits /\ aborted' = aborted \cup ({i} \ {None})

(* Connections to p go, its dialled one or that and its own. After the     *)
(* last the network tells the scheduler, which stopped listening when it   *)
(* was closed.                                                             *)
Down(p, dialled, opened, waits) ==
  /\ up' = up \ dialled
  /\ inbound' = inbound \ opened
  /\ delivered' = delivered \ dialled
  /\ unclosable' = unclosable \ dialled
  /\ IF ~closed /\ p \in up \cup inbound /\ p \notin up' \cup inbound'
       THEN Disconnected(p, waits)
       ELSE pc' = waits /\ UNCHANGED <<connected, current, aborted>>
  /\ UNCHANGED <<closed, peer, next>>

RemoteConnects(p) ==
  /\ p \notin inbound
  /\ inbound' = inbound \cup {p}
  /\ UNCHANGED <<scheduler, up, delivered, unclosable>>

RemoteDisconnects(p) ==
  \/ p \in up /\ Down(p, {p}, {}, pc)
  \/ p \in inbound /\ Down(p, {}, {p}, pc)

Closing(i) == pc[i] \in {"late", "cleanup"}

(* Nothing is left to do for a stale state; a failed set-up is still to be *)
(* reported.                                                               *)
AfterClosing(i) ==
  [pc EXCEPT ![i] = IF @ = "late" THEN "done" ELSE "cleaned"]

(* connection.close() of closeAfterFailedSetup: libp2p hangs up the peer,  *)
(* if it is still connected.                                               *)
HangUp(i) ==
  /\ Closing(i)
  /\ Down(peer[i], {peer[i]}, {peer[i]}, AfterClosing(i))

(* Its rejection is caught and reported with the set-up failure.           *)
HangUpFails(i) ==
  /\ Closing(i) /\ peer[i] \in up \cup inbound
  /\ unclosable' = unclosable \cup ({peer[i]} \cap up)
  /\ pc' = AfterClosing(i)
  /\ UNCHANGED <<closed, current, connected, peer, next, aborted, up, inbound,
                 delivered>>

(* closeAfterFailedSetup resumes: a failed set-up of a state that is still *)
(* current is reported and retried.                                        *)
HungUp(i) ==
  /\ pc[i] = "cleaned"
  /\ ScheduleNext(i)
  /\ UNCHANGED <<closed, connected, peer, aborted, network>>

(* close(): timers are cleared, dials aborted, every state dropped.        *)
Close ==
  /\ ~closed
  /\ closed' = TRUE
  /\ current' = [p \in Peers |-> None]
  /\ pc' = [i \in Ids |-> IF pc[i] = "timer" THEN "done" ELSE pc[i]]
  /\ aborted' = aborted \cup ({current[p] : p \in Peers} \ {None})
  /\ UNCHANGED <<connected, peer, next, network>>

Run(i) ==
  \/ Connect(i) \/ DialFails(i) \/ Dialled(i) \/ Established(i)
  \/ SetUp(i) \/ SetUpFails(i) \/ HangUp(i) \/ HangUpFails(i) \/ HungUp(i)

DialNext ==
  \/ \E p \in Peers, i \in Ids : Consider(p, i)
  \/ \E i \in Ids : Run(i)
  \/ \E p \in Dialers : RemoteConnects(p)
  \/ \E p \in Peers : RemoteDisconnects(p)
  \/ Close

DialSpec == DialInit /\ [][DialNext]_dialVars

(* Timers fire; network.connect, onConnected and connection.close settle,  *)
(* the first and the last by libp2p's own time limits, the second by the   *)
(* consumer's word.                                                        *)
DialFairness == \A i \in Ids : WF_dialVars(Run(i))
FairDialSpec == DialSpec /\ DialFairness

------------------------------------------------------------------------------
Running(i) == pc[i] \in {"dial", "dialled", "setup", "cleanup"}
Holding(i) == pc[i] \in {"dialled", "setup", "late", "cleanup"}

(* A peer the scheduler takes for connected is connected: the disconnect   *)
(* that comes while a dial or a set-up is awaited is not missed.           *)
ConnectedIsUp == ~closed => connected \subseteq up \cup inbound

(* A connection the scheduler dialled is in somebody's hands: announced,   *)
(* about to be set up or closed by a run, or refused to close.             *)
NoneForgotten ==
  \A p \in up : \/ p \in delivered \cup unclosable
                \/ \E i \in Ids : peer[i] = p /\ Holding(i)

(* A dial that is no longer its peer's was aborted.                        *)
StaleAborted == \A i \in Ids : Running(i) /\ i \notin aborted => IsCurrent(i)

(* No connection and no dial is left to itself.                            *)
EveryConnectionOwned == NoneForgotten /\ StaleAborted

(* Every dial comes to an end, so that its peer can be considered again.   *)
DialsEnd == \A p \in Peers : (current[p] # None) ~> (current[p] = None)
==============================================================================
