--------------------------------- MODULE Relay ---------------------------------
(***************************************************************************)
(* The relay process (src/relay/server.ts): it verifies the discovery       *)
(* events nodes publish, lets in those of nodes with a live JOIN, stores    *)
(* them, and sends them to the WebSocket subscriptions they match.          *)
(*                                                                          *)
(* ingest() awaits verifyEvent, so several events are under verification at *)
(* once and may finish in any order; everything else runs to completion.    *)
(* Events are well-formed and signed by the node they name.                 *)
(***************************************************************************)
EXTENDS EventStore

CONSTANTS
  Conn, Ip, SubId,   \* WebSockets, remote addresses, subscription ids
  Filters,           \* the filters clients subscribe with
  Ttl,               \* type -> seconds an event of the type lives
  Skew,              \* node -> seconds its clock is ahead of the relay's
  MaxConnections, MaxPerIp, MaxSubs,   \* the caps of the code
  Kinds,             \* bound: what nodes publish, as [type, net, node, target]
  MaxDelay,          \* bound: seconds an event waits before the relay receives it
  MaxReceived,       \* bound: distinct events received
  MaxTime            \* bound: seconds

ASSUME RelayAssumption ==
  /\ IsFiniteSet(Conn) /\ Ip # {}
  /\ Ttl \in [DOMAIN Ttl -> Nat]
  /\ Skew \in [Node -> Nat]
  /\ Kinds \subseteq [type : DOMAIN Ttl, net : Net, node : Node, target : Node]
  /\ MaxDelay \in Nat /\ MaxConnections \in Nat

VARIABLES
  now,         \* the relay's clock
  store,       \* the EventStore
  verifying,   \* events whose verification is under way
  conn,        \* WebSocket -> whether open, answering pings, its address, its subscriptions
  perIp,       \* connsPerIp
  sent,        \* WebSocket -> subscription -> events sent since it was requested
  received     \* history: events received

vars == <<now, store, verifying, conn, perIp, sent, received>>

Type == DOMAIN Ttl

Event == [type : Type, net : Net, node : Node, target : Node,
          created : Nat, expires : Nat]

Closed == [open |-> FALSE, alive |-> FALSE, gone |-> FALSE, ip |-> CHOOSE i \in Ip : TRUE,
           subs |-> [i \in {} |-> {}]]

OpenConns == {c \in Conn : conn[c].open}

Subs(c) == DOMAIN conn[c].subs

Nothing == [c \in Conn |-> [i \in SubId |-> {}]]

Init ==
  /\ now = 0
  /\ store = EmptyStore
  /\ verifying = {}
  /\ conn = [c \in Conn |-> Closed]
  /\ perIp = [i \in Ip |-> 0]
  /\ sent = Nothing
  /\ received = {}

-----------------------------------------------------------------------------
(* Events                                                                    *)

Tick ==
  /\ now < MaxTime
  /\ now' = now + 1
  /\ UNCHANGED <<store, verifying, conn, perIp, sent, received>>

(* A node publishes in the order of its clock over one socket; besides, it      *)
(* announces its latest JOIN again.                                           *)
InOrder(e) ==
  \/ \A d \in received : d.node = e.node => d.created <= e.created
  \/ /\ e.type = "JOIN" /\ e \in received
     /\ \A d \in received : d.node = e.node /\ d.net = e.net /\ d.type = "JOIN" => d.created <= e.created

(* An EVENT frame or a POST /event: verification starts. It refuses an event     *)
(* that has expired on arrival (or lies more than 300 s ahead).                *)
Receive(e) ==
  /\ e.expires > now
  /\ InOrder(e)
  /\ e \in received \/ Cardinality(received) < MaxReceived
  /\ received' = received \cup {e}
  /\ verifying' = verifying \cup {e}
  /\ UNCHANGED <<now, store, conn, perIp, sent>>

(* What nodes may have published by now.                                       *)
Published ==
  {[type |-> k.type, net |-> k.net, node |-> k.node, target |-> k.target,
    created |-> now + Skew[k.node] - d, expires |-> now + Skew[k.node] - d + Ttl[k.type]] :
      k \in Kinds, d \in {x \in 0..MaxDelay : x <= now}}

\* Mutant: no fan-out, and no gate.
VerifyDone_NoFanOut(e) ==
  /\ e \in verifying
  /\ verifying' = verifying \ {e}
  /\ \E r \in Add(store, e, now) : store' = r.store
  /\ UNCHANGED <<now, conn, perIp, sent, received>>

(* The membership gate, the store and the fan-out of ingest().                   *)
VerifyDone(e) ==
  /\ e \in verifying
  /\ verifying' = verifying \ {e}
  /\ IF e.type # "JOIN" /\ ~HasLiveJoin(store, e.net, e.node, now)
     THEN UNCHANGED <<store, sent>>
     ELSE \E r \in Add(store, e, now) :
            /\ store' = r.store
            /\ sent' = [c \in Conn |-> [i \in SubId |->
                 IF r.added /\ i \in Subs(c) /\ Matches(e, conn[c].subs[i], now)
                 THEN sent[c][i] \cup {e} ELSE sent[c][i]]]
  /\ UNCHANGED <<now, conn, perIp, received>>

(* The 15 s timer of the store.                                                *)
SweepStore ==
  /\ store' = Sweep(store, now)
  /\ UNCHANGED <<now, verifying, conn, perIp, sent, received>>

-----------------------------------------------------------------------------
(* WebSockets                                                                *)

(* Refused at the cap of the process or of the address.                        *)
Open(c, ip) ==
  /\ ~conn[c].open
  /\ Cardinality(OpenConns) < MaxConnections
  /\ perIp[ip] < MaxPerIp
  /\ perIp' = [perIp EXCEPT ![ip] = @ + 1]
  /\ conn' = [conn EXCEPT ![c] = [Closed EXCEPT !.open = TRUE, !.alive = TRUE, !.ip = ip]]
  /\ UNCHANGED <<now, store, verifying, sent, received>>

(* A REQ replaces the subscription of the same id, and is answered with what is   *)
(* stored; it is refused when that would make more than MaxSubs.               *)
Request(c, i, f) ==
  /\ conn[c].open /\ ~conn[c].gone
  /\ i \in Subs(c) \/ Cardinality(Subs(c)) < MaxSubs
  /\ conn' = [conn EXCEPT ![c].subs = [j \in DOMAIN @ \cup {i} |-> IF j = i THEN f ELSE @[j]]]
  /\ sent' = [sent EXCEPT ![c][i] = Query(store, f, now)]
  /\ UNCHANGED <<now, store, verifying, perIp, received>>

(* A CLOSE frame.                                                              *)
Unsubscribe(c, i) ==
  /\ conn[c].open /\ ~conn[c].gone
  /\ i \in Subs(c)
  /\ conn' = [conn EXCEPT ![c].subs = [j \in DOMAIN @ \ {i} |-> @[j]]]
  /\ sent' = [sent EXCEPT ![c][i] = {}]
  /\ UNCHANGED <<now, store, verifying, perIp, received>>

\* Mutant: the close handler forgets the count of the address.
CloseHandler_Kept(closing) ==
  /\ perIp' = perIp
  /\ sent' = [c \in Conn |-> IF c \in closing THEN Nothing[c] ELSE sent[c]]

(* What the close handler does for each of the sockets.                        *)
CloseHandler(closing) ==
  /\ perIp' = [ip \in Ip |-> perIp[ip] - Cardinality({c \in closing : conn[c].ip = ip})]
  /\ sent' = [c \in Conn |-> IF c \in closing THEN Nothing[c] ELSE sent[c]]

(* The client closes its socket.                                               *)
Close(c) ==
  /\ conn[c].open /\ ~conn[c].gone
  /\ CloseHandler({c})
  /\ conn' = [conn EXCEPT ![c] = Closed]
  /\ UNCHANGED <<now, store, verifying, received>>

(* The client is cut off: nothing tells the relay.                              *)
Vanish(c) ==
  /\ conn[c].open /\ ~conn[c].gone
  /\ conn' = [conn EXCEPT ![c].gone = TRUE]
  /\ UNCHANGED <<now, store, verifying, perIp, sent, received>>

Pong(c) ==
  /\ conn[c].open /\ ~conn[c].gone
  /\ ~conn[c].alive
  /\ conn' = [conn EXCEPT ![c].alive = TRUE]
  /\ UNCHANGED <<now, store, verifying, perIp, sent, received>>

\* Mutant: a socket that does not answer is pinged for ever.
Reap_PingOnly ==
  /\ conn' = [c \in Conn |-> IF c \in OpenConns THEN [conn[c] EXCEPT !.alive = FALSE] ELSE conn[c]]
  /\ UNCHANGED <<now, store, verifying, perIp, sent, received>>

(* The 30 s timer terminates the sockets that have not answered its last ping,    *)
(* those of clients that are there but slow included, and pings the others.     *)
Reap ==
  LET dead == {c \in OpenConns : ~conn[c].alive} IN
  /\ CloseHandler(dead)
  /\ conn' = [c \in Conn |-> IF c \in dead THEN Closed
                             ELSE IF c \in OpenConns THEN [conn[c] EXCEPT !.alive = FALSE]
                             ELSE conn[c]]
  /\ UNCHANGED <<now, store, verifying, received>>

-----------------------------------------------------------------------------
EventStep ==
  \/ Tick \/ SweepStore
  \/ \E e \in Published \cup received : Receive(e)
  \/ \E e \in verifying : VerifyDone(e)

ClientStep(c) ==
  \/ \E ip \in Ip : Open(c, ip)
  \/ \E i \in SubId : Unsubscribe(c, i) \/ \E f \in Filters : Request(c, i, f)
  \/ Close(c) \/ Vanish(c) \/ Pong(c)

Next ==
  \/ EventStep \/ Reap
  \/ \E c \in Conn : ClientStep(c)

Spec == Init /\ [][Next]_vars

(* The timer of the reaper runs.                                               *)
FairSpec == Spec /\ WF_vars(Reap)

-----------------------------------------------------------------------------
(* Properties                                                                *)

(* Every variable keeps the shape the code gives it.                           *)
TypeOK ==
  /\ now \in Nat
  /\ store \in [nets : SUBSET Net, events : SUBSET Event,
                joins : [Net -> [Node -> Nat]], activity : [Net -> Nat]]
  /\ verifying \subseteq Event
  /\ conn \in [Conn -> [open : BOOLEAN, alive : BOOLEAN, gone : BOOLEAN, ip : Ip,
                        subs : UNION {[S -> Filters] : S \in SUBSET SubId}]]
  /\ perIp \in [Ip -> Nat]
  /\ sent \in [Conn -> [SubId -> SUBSET Event]]
  /\ received \subseteq Event

(* A subscriber has been sent everything stored that it may see, whether it was   *)
(* stored before its REQ, between two of its REQs or later, under eviction and  *)
(* re-announcement: a peer is never hidden from someone the relay serves.      *)
SubscribersUpToDate ==
  \A c \in Conn : \A i \in Subs(c) : Query(store, conn[c].subs[i], now) \subseteq sent[c][i]

(* README.md:160: a SIGNAL goes to its target only, live or from the store.       *)
SignalsGoToTarget ==
  \A c \in Conn : \A i \in Subs(c) : \A e \in sent[c][i] :
    e.type = "SIGNAL" => e.target = conn[c].subs[i].target

(* However events interleave, the store stays within its caps, has a bucket for    *)
(* every event, and holds one event per node and superseding type.             *)
StoreBounded ==
  /\ Cardinality(store.nets) <= MaxNetworks
  /\ \A w \in Net :
       LET bucket == Bucket(store, w) IN
       /\ Cardinality(bucket) <= MaxEvents
       /\ bucket # {} => w \in store.nets
       /\ \A n \in Node :
            /\ Cardinality({e \in Of(bucket, n) : e.type \in Multi}) <= MaxSignals
            /\ \A d, e \in Of(bucket, n) : d.type = e.type /\ d.type \notin Multi => d = e

(* server.ts:134: the gate is open to a node for at most JOIN_TTL after its JOIN    *)
(* came, whatever expiry it declares: a clock that runs ahead gains nothing.   *)
GateIsClamped ==
  \A w \in Net : \A n \in Node : store.joins[w][n] <= now + JoinTtl

(* An event that leaves the store has expired, was replaced by its own node, or    *)
(* belonged to the network idle the longest or to a node that had the most.     *)
Leaves(e) ==
  \/ e.expires <= now
  \/ \E d \in store'.events \ store.events :
       d.node = e.node /\ d.net = e.net /\ d.type = e.type /\ d.type \notin Multi
  \/ /\ e.net \notin store'.nets
     /\ \A w \in store.nets : store.activity[e.net] <= store.activity[w]
  \/ \A n \in Node : Cardinality(Of(Bucket(store, e.net), n))
                       <= Cardinality(Of(Bucket(store, e.net), e.node))

(* server.ts:238: nothing leaves the store otherwise: a busy node cannot push out  *)
(* the events of a quiet one.                                                  *)
EvictionIsFair == [][\A e \in store.events \ store'.events : Leaves(e)]_vars

(* The count per address is the number of its open sockets, through refusals,      *)
(* closes and reaping: were it to drift, an address would be locked out.       *)
CountersExact ==
  /\ \A ip \in Ip : perIp[ip] = Cardinality({c \in OpenConns : conn[c].ip = ip})
  /\ Cardinality(OpenConns) <= MaxConnections

(* A socket whose client vanished does not hold its slot for ever.               *)
GoneAreReaped == \A c \in Conn : conn[c].gone ~> ~conn[c].gone
=============================================================================
