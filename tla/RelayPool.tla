----------------------------- MODULE RelayPool -----------------------------
(***************************************************************************)
(* One browser and its relays: class RelayPool of client/relayclient.ts,   *)
(* the announcements of client/conversation.ts that keep a JOIN alive at   *)
(* every relay, and the adoption of relays that peers advertise.           *)
(*                                                                         *)
(* Time is kept as what is left of it: of the cached JOIN, of its copies   *)
(* in queues, at relays, and of the interval of the announce timer.  0     *)
(* means expired or absent.  What takes milliseconds (mining a JOIN, a     *)
(* frame on a socket) ends before the clock moves; a connection may take   *)
(* any time.                                                               *)
(***************************************************************************)
EXTENDS Integers, Sequences, FiniteSets, SequencesExt

CONSTANTS Url,        \* relays
          Own,        \* those the conversation is started with
          Others,     \* events of other nodes, held by every relay
          JoinTtl,    \* JOIN_TTL
          Period,     \* interval of the announce timer
          RenewAt,    \* a JOIN with that much left is renewed: JOIN_TTL / 3
          MaxTotal,   \* MAX_TOTAL_RELAYS
          MaxQueued,  \* MAX_QUEUED
          MaxFaults   \* bound: faults in a behaviour

ASSUME PoolAssumption ==
  /\ Own \subseteq Url
  /\ Period \in Nat \ {0}
  /\ RenewAt \in Nat /\ JoinTtl \in Nat /\ RenewAt < JoinTtl
  /\ MaxTotal \in Nat /\ MaxQueued \in Nat \ {0} /\ MaxFaults \in Nat

VARIABLES
  relays,     \* URLs in conns
  sock,       \* sock[u]: the socket, or what the reconnect timer waits for
  queue,      \* queue[u]: copies of JOINs waiting, by what is left of them
  wire,       \* wire[u]: JOINs sent and not yet ingested by u
  index,      \* index[u]: what is left of our JOIN in the join index of u
  cached,     \* what is left of cachedJoin
  mining,     \* some announce() awaits createJoin
  timer,      \* until the announce timer fires
  heard,      \* heard[u]: what u sent on the present socket
  verifying,  \* verifying[u][e]: deliveries of e by u in the await of verifyEvent
  seen,       \* ids in `seen`
  processed,  \* processed[e]: calls of onEvent for e
  hints,      \* relays that peers advertise
  dead,       \* relays that are gone for good
  faults      \* faults so far

net == <<heard, verifying, seen, processed>>
clocks == <<cached, mining, timer>>
world == <<hints, dead, faults>>
vars == <<relays, sock, queue, wire, index, clocks, net, world>>

(* connectedCount.                                                         *)
Up == {u \in relays : sock[u] = "open"}

Init ==
  /\ relays = Own
  /\ sock = [u \in Url |-> IF u \in Own THEN "dialling" ELSE "none"]
  /\ queue = [u \in Url |-> <<>>]
  /\ wire = [u \in Url |-> {}]
  /\ index = [u \in Url |-> 0]
  /\ cached = 0 /\ mining = FALSE /\ timer = Period
  /\ heard = [u \in Url |-> {}]
  /\ verifying = [u \in Url |-> [e \in Others |-> 0]] /\ seen = {}
  /\ processed = [e \in Others |-> 0]
  /\ hints = {} /\ dead = {} /\ faults = 0

-----------------------------------------------------------------------------
(* Publishing                                                              *)

\* Mutant: the queue is not bounded.
Enqueue_NoShift(q, left) == Append(q, left)

(* push, and shift when there are too many.                                *)
Enqueue(q, left) ==
  IF Len(q) < MaxQueued THEN Append(q, left) ELSE Append(Tail(q), left)

(* publish of a JOIN to every relay, when the sockets in open are open and *)
(* the queues are q and the wires w.                                       *)
Publish(left, open, q, w) ==
  /\ queue' = [u \in Url |-> IF u \in relays \ open THEN Enqueue(q[u], left) ELSE q[u]]
  /\ wire' = [u \in Url |-> IF u \in relays \cap open THEN w[u] \cup {left} ELSE w[u]]

(* announce up to the await: the cached JOIN, or a fresh one to be mined.  *)
(* Two that mine at once publish alike.                                    *)
Announce(open, q, w) ==
  IF cached <= RenewAt
  THEN mining' = TRUE /\ queue' = q /\ wire' = w
  ELSE Publish(cached, open, q, w) /\ UNCHANGED mining

\* Mutant: a JOIN that has not expired is not renewed.
AnnounceTimer_NotRenewed ==
  /\ timer = 0
  /\ timer' = Period
  /\ IF cached = 0
     THEN mining' = TRUE /\ UNCHANGED <<queue, wire>>
     ELSE Publish(cached, Up, queue, wire) /\ UNCHANGED mining
  /\ UNCHANGED <<relays, sock, index, cached, net, world>>

(* announce after the await.                                               *)
Mined ==
  /\ mining
  /\ mining' = FALSE
  /\ cached' = JoinTtl
  /\ Publish(JoinTtl, Up, queue, wire)
  /\ UNCHANGED <<relays, sock, index, timer, net, world>>

AnnounceTimer ==
  /\ timer = 0
  /\ timer' = Period
  /\ Announce(Up, queue, wire)
  /\ UNCHANGED <<relays, sock, index, cached, net, world>>

-----------------------------------------------------------------------------
(* Sockets                                                                 *)

\* Mutant: what was queued stays queued.
Opened_NoFlush(u) ==
  /\ sock[u] = "dialling" /\ u \notin dead
  /\ sock' = [sock EXCEPT ![u] = "open"]
  /\ heard' = [heard EXCEPT ![u] = {}]
  /\ Announce(Up \cup {u}, queue, wire)
  /\ UNCHANGED <<relays, index, cached, timer, verifying, seen, processed, world>>

\* Mutant: a new connection brings no announcement.
Opened_NotAnnounced(u) ==
  /\ sock[u] = "dialling" /\ u \notin dead
  /\ sock' = [sock EXCEPT ![u] = "open"]
  /\ heard' = [heard EXCEPT ![u] = {}]
  /\ queue' = [queue EXCEPT ![u] = <<>>]
  /\ wire' = [wire EXCEPT ![u] = {left \in ToSet(queue[u]) : left > 0}]
  /\ UNCHANGED <<relays, index, clocks, verifying, seen, processed, world>>

(* onopen: the announcement of onStatus comes first, then what was queued  *)
(* and has not expired.                                                    *)
Opened(u) ==
  /\ sock[u] = "dialling" /\ u \notin dead
  /\ sock' = [sock EXCEPT ![u] = "open"]
  /\ heard' = [heard EXCEPT ![u] = {}]
  /\ LET flushed == {left \in ToSet(queue[u]) : left > 0}
     IN Announce(Up \cup {u}, [queue EXCEPT ![u] = <<>>], [wire EXCEPT ![u] = flushed])
  /\ UNCHANGED <<relays, index, cached, timer, verifying, seen, processed, world>>

(* A dial that fails: onerror, onclose, scheduleReconnect.                 *)
Refused(u) ==
  /\ sock[u] = "dialling" /\ u \in dead
  /\ sock' = [sock EXCEPT ![u] = "waiting"]
  /\ UNCHANGED <<relays, queue, wire, index, clocks, net, world>>

Redial(u) ==
  /\ sock[u] = "waiting"
  /\ sock' = [sock EXCEPT ![u] = "dialling"]
  /\ UNCHANGED <<relays, queue, wire, index, clocks, net, world>>

(* The relay ingests a JOIN.                                               *)
Ingest(u, left) ==
  /\ left \in wire[u]
  /\ wire' = [wire EXCEPT ![u] = @ \ {left}]
  /\ index' = [index EXCEPT ![u] = IF left > @ THEN left ELSE @]
  /\ UNCHANGED <<relays, sock, queue, clocks, net, world>>

(* An EVENT frame: a duplicate is a sighting, anything else is verified,    *)
(* each delivery by itself.  A relay sends an event once on a socket.       *)
Receive(u, e) ==
  /\ sock[u] = "open" /\ e \notin heard[u]
  /\ heard' = [heard EXCEPT ![u] = @ \cup {e}]
  /\ verifying' = IF e \in seen THEN verifying ELSE [verifying EXCEPT ![u][e] = @ + 1]
  /\ UNCHANGED <<relays, sock, queue, wire, index, clocks, seen, processed, world>>

\* Mutant: `seen` is not looked at again after the await.
VerifyDone_NoRecheck(u, e) ==
  /\ verifying[u][e] > 0
  /\ verifying' = [verifying EXCEPT ![u][e] = @ - 1]
  /\ seen' = seen \cup {e}
  /\ processed' = [processed EXCEPT ![e] = @ + 1]
  /\ UNCHANGED <<relays, sock, queue, wire, index, clocks, heard, world>>

(* After the await, whatever became of the socket.                         *)
VerifyDone(u, e) ==
  /\ verifying[u][e] > 0
  /\ verifying' = [verifying EXCEPT ![u][e] = @ - 1]
  /\ seen' = seen \cup {e}
  /\ processed' = [processed EXCEPT ![e] = IF e \in seen THEN @ ELSE @ + 1]
  /\ UNCHANGED <<relays, sock, queue, wire, index, clocks, heard, world>>

-----------------------------------------------------------------------------
(* Relays of peers                                                         *)

(* selectRelayHints with a quorum of one: as many as there is room for;    *)
(* which ones is settled by how many peers advertise them.                 *)
Adoptable(h) ==
  {A \in SUBSET (h \ relays) :
     LET room == IF Cardinality(relays) < MaxTotal
                 THEN MaxTotal - Cardinality(relays) ELSE 0
     IN Cardinality(A) = IF Cardinality(h \ relays) < room
                         THEN Cardinality(h \ relays) ELSE room}

\* Mutant: a relay that was advertised before is not adopted.
PeerTable_NewOnly(u) ==
  /\ u \notin dead /\ u \notin hints
  /\ hints' = hints \cup {u}
  /\ \E A \in Adoptable({u}) :
       LET new == IF Up = {} THEN A ELSE {}
       IN /\ relays' = relays \cup new
          /\ sock' = [v \in Url |-> IF v \in new THEN "dialling" ELSE sock[v]]
  /\ UNCHANGED <<queue, wire, index, clocks, net, dead, faults>>

(* A PEER_TABLE of a peer that is connected to u: noteRelayHints, and      *)
(* maybeAdoptRelays when no relay is up.                                   *)
PeerTable(u) ==
  /\ u \notin dead
  /\ u \notin hints \/ Up = {}
  /\ hints' = hints \cup {u}
  /\ \E A \in Adoptable(hints') :
       LET new == IF Up = {} THEN A ELSE {}
       IN /\ relays' = relays \cup new
          /\ sock' = [v \in Url |-> IF v \in new THEN "dialling" ELSE sock[v]]
  /\ UNCHANGED <<queue, wire, index, clocks, net, dead, faults>>

-----------------------------------------------------------------------------
(* Time and faults                                                         *)

Less(t) == IF t > 0 THEN t - 1 ELSE 0

Tick ==
  /\ timer > 0 /\ ~mining
  /\ \A u \in Url : wire[u] = {}
  /\ timer' = timer - 1
  /\ cached' = Less(cached)
  /\ index' = [u \in Url |-> Less(index[u])]
  /\ queue' = [u \in Url |-> [i \in DOMAIN queue[u] |-> Less(queue[u][i])]]
  /\ UNCHANGED <<relays, sock, wire, mining, net, world>>

(* A connection dies with what is on it; its relay may have restarted with *)
(* an empty memory, or be gone.                                            *)
Closed(u, forgets, gone) ==
  /\ faults < MaxFaults
  /\ faults' = faults + 1
  /\ u \notin dead
  /\ sock[u] = "open" \/ gone
  /\ sock' = [sock EXCEPT ![u] = IF @ = "open" THEN "waiting" ELSE @]
  /\ wire' = [wire EXCEPT ![u] = {}]
  /\ index' = [index EXCEPT ![u] = IF forgets THEN 0 ELSE @]
  /\ dead' = IF gone THEN dead \cup {u} ELSE dead
  /\ UNCHANGED <<relays, queue, clocks, net, hints>>

Next ==
  \/ Mined \/ AnnounceTimer \/ Tick
  \/ \E u \in Url :
       \/ Opened(u) \/ Refused(u) \/ Redial(u) \/ PeerTable(u)
       \/ \E left \in wire[u] : Ingest(u, left)
       \/ \E e \in Others : Receive(u, e) \/ VerifyDone(u, e)
       \/ \E forgets \in BOOLEAN, gone \in BOOLEAN : Closed(u, forgets, gone)

(* Time passes, timers fire and awaits end; a dial is answered; a peer     *)
(* connected to a live relay sends its table when asked (conv 293-295).    *)
Fairness ==
  /\ WF_vars(Tick) /\ WF_vars(Mined) /\ WF_vars(AnnounceTimer)
  /\ \A u \in Url :
       /\ WF_vars(Opened(u)) /\ WF_vars(Refused(u)) /\ WF_vars(Redial(u))
       /\ WF_vars(\E left \in wire[u] : Ingest(u, left))
       /\ WF_vars(PeerTable(u))

Spec == Init /\ [][Next]_vars /\ Fairness
-----------------------------------------------------------------------------
(* Properties                                                              *)

(* Shapes and ranges.  A relay outside the pool has no socket, and no more *)
(* JOINs wait for one than MaxQueued.                                      *)
TypeOK ==
  /\ Own \subseteq relays /\ relays \subseteq Url
  /\ sock \in [Url -> {"none", "waiting", "dialling", "open"}]
  /\ \A u \in Url : sock[u] = "none" <=> u \notin relays
  /\ \A u \in Url : /\ queue[u] \in Seq(0..JoinTtl) /\ Len(queue[u]) <= MaxQueued
                    /\ wire[u] \subseteq 1..JoinTtl
  /\ index \in [Url -> 0..JoinTtl]
  /\ cached \in 0..JoinTtl /\ mining \in BOOLEAN /\ timer \in 0..Period
  /\ heard \in [Url -> SUBSET Others]
  /\ verifying \in [Url -> [Others -> Nat]] /\ seen \subseteq Others
  /\ processed \in [Others -> Nat]
  /\ hints \subseteq Url /\ dead \subseteq Url /\ faults \in 0..MaxFaults

(* An event that several relays deliver, at once, again after a reconnect, *)
(* or over a socket that has closed by the time it is verified, is handed  *)
(* to the conversation once (pool 181-200).                                *)
ProcessedOnce == \A e \in Others : processed[e] <= 1

(* Nothing waits for a socket that is open: what was published while it    *)
(* was down left with onopen, and a socket that closes has dropped what it *)
(* carried before anything is queued again (pool 148-158, 217-223).        *)
QueuedWhileDown == \A u \in Up : queue[u] = <<>>

\* Nothing is being mined, and u has taken what was sent to it.
Settled(u) == ~mining /\ wire[u] = {}

(* A relay that is connected knows a JOIN as long-lived as the cached one,  *)
(* whatever it forgot while it was away, whatever was published meanwhile   *)
(* and whichever older JOIN was flushed behind the announcement             *)
(* (conv 317-331, pool 148-158).                                           *)
JoinKnown == \A u \in Up : Settled(u) => index[u] >= cached

(* The phases of the announce timer, of JOIN_TTL and of announcements in    *)
(* between: a connected relay is without a live JOIN of ours in the last    *)
(* Period - RenewAt of an interval at most, since each firing of the timer  *)
(* leaves a JOIN with more than RenewAt to go (conv 320, 274).              *)
LapseBounded ==
  \A u \in Up : Settled(u) /\ index[u] = 0 => timer + RenewAt < Period

(* A node whose relays are gone gets back to one that its peers use        *)
(* (conv 709-729).                                                         *)
ComesBack == []<>(Up # {} \/ dead = Url)
=============================================================================
