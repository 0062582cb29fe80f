--------------------------- MODULE RelayPool_proofs ---------------------------
(***************************************************************************)
(* Theorems about the pool of relays, for any relays, events, lifetimes,      *)
(* intervals and caps.                                                       *)
(*                                                                          *)
(* PoolOK is the inductive invariant: the shapes, that a count is 1 exactly    *)
(* for the ids in `seen`, that no queue of an open socket holds anything, that  *)
(* a connected relay knows a JOIN like the cached one or has it on the wire     *)
(* (Told), and what is left of the cached JOIN at each phase of the announce    *)
(* timer (Phased). The last two say nothing while a JOIN is being mined: it is   *)
(* published when that ends.                                                  *)
(***************************************************************************)
EXTENDS RelayPool, TLAPS

Shapes ==
  /\ Own \subseteq relays /\ relays \subseteq Url
  /\ sock \in [Url -> {"none", "waiting", "dialling", "open"}]
  /\ \A u \in Url : sock[u] = "none" <=> u \notin relays
  /\ index \in [Url -> 0..JoinTtl]
  /\ cached \in 0..JoinTtl /\ mining \in BOOLEAN /\ timer \in 0..Period
  /\ heard \in [Url -> SUBSET Others]
  /\ verifying \in [Url -> [Others -> Nat]] /\ seen \subseteq Others
  /\ hints \subseteq Url /\ dead \subseteq Url /\ faults \in 0..MaxFaults

Queue == {q \in Seq(0..JoinTtl) : Len(q) <= MaxQueued}

Traffic == queue \in [Url -> Queue] /\ wire \in [Url -> SUBSET (1..JoinTtl)]

SeenIsCounted == processed = [e \in Others |-> IF e \in seen THEN 1 ELSE 0]

Told ==
  ~mining => \A u \in Up : index[u] >= cached \/ \E left \in wire[u] : left >= cached

Phased == ~mining => cached + Period > RenewAt + timer \/ (cached = 0 /\ Up = {})

Base == Shapes /\ Traffic /\ SeenIsCounted /\ QueuedWhileDown

PoolOK == Base /\ Told /\ Phased

-----------------------------------------------------------------------------
LEMMA LifetimeNotZero ==
  JoinTtl \in Nat /\ JoinTtl \in 1..JoinTtl /\ JoinTtl \in 0..JoinTtl /\ 0 \in 0..JoinTtl
BY PoolAssumption

LEMMA Elements ==
  ASSUME NEW S, NEW q \in Seq(S)
  PROVE  Len(q) \in Nat /\ DOMAIN q = 1..Len(q) /\ \A i \in 1..Len(q) : q[i] \in S
OBVIOUS

LEMMA MappedSeq ==
  ASSUME NEW S, NEW q \in Seq(S), NEW r, DOMAIN r = DOMAIN q, r = [i \in DOMAIN r |-> r[i]],
         \A i \in 1..Len(q) : r[i] \in S
  PROVE  r \in Seq(S) /\ Len(r) = Len(q)
OBVIOUS

LEMMA EnqueueBounded ==
  ASSUME NEW q \in Queue, NEW left \in 0..JoinTtl
  PROVE  Enqueue(q, left) \in Queue
<1>1. q \in Seq(0..JoinTtl) /\ Len(q) \in Nat /\ Len(q) <= MaxQueued
  BY DEF Queue
<1>2. CASE Len(q) < MaxQueued
  <2>1. Append(q, left) \in Seq(0..JoinTtl) /\ Len(Append(q, left)) = Len(q) + 1
    BY <1>1
  <2> QED
    BY <1>1, <1>2, <2>1, PoolAssumption DEF Enqueue, Queue
<1>3. CASE ~(Len(q) < MaxQueued)
  <2>1. q # <<>>
    BY <1>1, <1>3, PoolAssumption
  <2>2. Tail(q) \in Seq(0..JoinTtl) /\ Len(Tail(q)) = Len(q) - 1
    BY <1>1, <2>1
  <2>3. /\ Append(Tail(q), left) \in Seq(0..JoinTtl)
        /\ Len(Append(Tail(q), left)) = Len(Tail(q)) + 1
    BY <2>2
  <2> QED
    BY <1>1, <1>3, <2>2, <2>3 DEF Enqueue, Queue
<1> QED
  BY <1>2, <1>3

(* What is published waits only for relays that are not open.                  *)
LEMMA PublishSound ==
  ASSUME NEW left \in 1..JoinTtl, NEW open, NEW q \in [Url -> Queue],
         NEW w \in [Url -> SUBSET (1..JoinTtl)], Publish(left, open, q, w)
  PROVE  /\ Traffic'
         /\ \A u \in Url : u \in open => queue'[u] = q[u]
<1>1. left \in 0..JoinTtl
  BY PoolAssumption
<1>2. \A u \in Url : Enqueue(q[u], left) \in Queue
  BY <1>1, EnqueueBounded
<1>3. \A u \in Url : w[u] \subseteq 1..JoinTtl /\ q[u] \in Queue
  OBVIOUS
<1> QED
  BY <1>2, <1>3 DEF Publish, Traffic

LEMMA AnnounceSound ==
  ASSUME Shapes, NEW open, NEW q \in [Url -> Queue],
         NEW w \in [Url -> SUBSET (1..JoinTtl)], Announce(open, q, w)
  PROVE  /\ Traffic' /\ mining' \in BOOLEAN
         /\ \A u \in Url : u \in open => queue'[u] = q[u]
<1>1. CASE cached <= RenewAt
  BY <1>1 DEF Announce, Traffic
<1>2. CASE ~(cached <= RenewAt)
  <2>1. cached \in 1..JoinTtl
    BY <1>2, PoolAssumption DEF Shapes
  <2>2. Publish(cached, open, q, w) /\ UNCHANGED mining
    BY <1>2 DEF Announce
  <2> QED
    BY <2>1, <2>2, PublishSound DEF Shapes
<1> QED
  BY <1>1, <1>2

-----------------------------------------------------------------------------
LEMMA InitSound == Init => Base
<1> SUFFICES ASSUME Init PROVE Base
  OBVIOUS
<1>1. /\ Own \subseteq relays /\ relays \subseteq Url
      /\ sock \in [Url -> {"none", "waiting", "dialling", "open"}]
      /\ \A u \in Url : sock[u] = "none" <=> u \notin relays
  BY PoolAssumption DEF Init
<1>2. Shapes
  <2>1. cached \in 0..JoinTtl /\ mining \in BOOLEAN /\ index \in [Url -> 0..JoinTtl]
    BY LifetimeNotZero DEF Init
  <2>2. timer \in 0..Period /\ faults \in 0..MaxFaults
    BY PoolAssumption DEF Init
  <2>3. /\ heard \in [Url -> SUBSET Others]
        /\ verifying \in [Url -> [Others -> Nat]] /\ seen \subseteq Others
        /\ hints \subseteq Url /\ dead \subseteq Url
    BY DEF Init
  <2> QED
    BY <1>1, <2>1, <2>2, <2>3 DEF Shapes
<1>3. <<>> \in Queue
  BY PoolAssumption DEF Queue
<1>4. Traffic
  BY <1>3 DEF Init, Traffic
<1>5. SeenIsCounted
  BY DEF Init, SeenIsCounted
<1>6. QueuedWhileDown
  BY PoolAssumption DEF Init, QueuedWhileDown, Up
<1> QED
  BY <1>2, <1>4, <1>5, <1>6 DEF Base

LEMMA MinedSound == ASSUME Base, Mined PROVE Base'
<1>1. Traffic' /\ \A u \in Url : u \in Up => queue'[u] = queue[u]
  <2>1. Publish(JoinTtl, Up, queue, wire)
    BY DEF Mined
  <2> QED
    BY <2>1, LifetimeNotZero, PublishSound DEF Base, Traffic
<1>2. Shapes'
  BY LifetimeNotZero DEF Mined, Base, Shapes, net, world
<1>3. Up' = Up /\ Up \subseteq Url
  BY DEF Mined, Up, Base, Shapes
<1> QED
  BY <1>1, <1>2, <1>3 DEF Mined, Base, SeenIsCounted, QueuedWhileDown, net

LEMMA AnnounceTimerSound == ASSUME Base, AnnounceTimer PROVE Base'
<1>1. Traffic' /\ mining' \in BOOLEAN /\ \A u \in Url : u \in Up => queue'[u] = queue[u]
  BY AnnounceSound DEF AnnounceTimer, Base, Traffic
<1>2. Shapes'
  BY <1>1, PoolAssumption DEF AnnounceTimer, Base, Shapes, net, world
<1>3. Up' = Up /\ Up \subseteq Url
  BY DEF AnnounceTimer, Up, Base, Shapes
<1> QED
  BY <1>1, <1>2, <1>3 DEF AnnounceTimer, Base, SeenIsCounted, QueuedWhileDown, net

LEMMA OpenedSound == ASSUME Base, NEW u \in Url, Opened(u) PROVE Base'
<1> DEFINE flushed == {left \in ToSet(queue[u]) : left > 0}
           q == [queue EXCEPT ![u] = <<>>]
           w == [wire EXCEPT ![u] = flushed]
<1>1. q \in [Url -> Queue]
  <2>1. <<>> \in Queue
    BY PoolAssumption DEF Queue
  <2> QED
    BY <2>1 DEF Base, Traffic
<1>2. w \in [Url -> SUBSET (1..JoinTtl)]
  <2>1. queue[u] \in Seq(0..JoinTtl)
    BY DEF Base, Traffic, Queue
  <2>2. flushed \subseteq 1..JoinTtl
    <3>1. \A i \in DOMAIN queue[u] : queue[u][i] \in 0..JoinTtl
      <4> HIDE DEF flushed
      <4> QED
        BY <2>1, Elements
    <3>2. ToSet(queue[u]) \subseteq 0..JoinTtl
      BY <3>1 DEF ToSet
    <3> QED
      BY <3>2, LifetimeNotZero
  <2> HIDE DEF flushed
  <2> QED
    BY <2>2 DEF Base, Traffic
<1>3. Announce(Up \cup {u}, q, w)
  BY DEF Opened
<1>4. Traffic' /\ mining' \in BOOLEAN /\ \A v \in Url : v \in Up \cup {u} => queue'[v] = q[v]
  <2> HIDE DEF q, w
  <2> QED
    BY <1>1, <1>2, <1>3, AnnounceSound DEF Base
<1>5. Shapes'
  BY <1>4 DEF Opened, Base, Shapes, world
<1>6. Up' = Up \cup {u}
  BY DEF Opened, Base, Shapes, Up
<1>7. QueuedWhileDown'
  <2>1. \A v \in Up \cup {u} : v \in Url /\ q[v] = <<>>
    BY DEF Base, Traffic, QueuedWhileDown, Up, Shapes
  <2> HIDE DEF q
  <2> QED
    BY <1>4, <1>6, <2>1 DEF QueuedWhileDown
<1> QED
  BY <1>4, <1>5, <1>7 DEF Opened, Base, SeenIsCounted

LEMMA SocketSound ==
  ASSUME Base, NEW u \in Url, Refused(u) \/ Redial(u) PROVE Base'
<1>1. Shapes'
  BY DEF Refused, Redial, Base, Shapes, clocks, net, world
<1>2. Up' = Up
  BY DEF Refused, Redial, Up, Base, Shapes
<1> QED
  BY <1>1, <1>2 DEF Refused, Redial, Base, Traffic, SeenIsCounted, QueuedWhileDown, net

LEMMA IngestSound ==
  ASSUME Base, NEW u \in Url, NEW left \in wire[u], Ingest(u, left) PROVE Base'
<1>1. left \in 0..JoinTtl
  BY PoolAssumption DEF Base, Traffic
<1>2. Shapes'
  BY <1>1 DEF Ingest, Base, Shapes, clocks, net, world
<1>3. Traffic'
  BY DEF Ingest, Base, Traffic
<1> QED
  BY <1>2, <1>3 DEF Ingest, Base, SeenIsCounted, QueuedWhileDown, Up, net

LEMMA ReceiveSound ==
  ASSUME Base, NEW u \in Url, NEW e \in Others, Receive(u, e) PROVE Base'
<1>1. Shapes'
  BY DEF Receive, Base, Shapes, clocks, world
<1> QED
  BY <1>1 DEF Receive, Base, Traffic, SeenIsCounted, QueuedWhileDown, Up

(* The second look at `seen` is what keeps a count at 1.                        *)
LEMMA VerifyDoneSound ==
  ASSUME Base, NEW u \in Url, NEW e \in Others, VerifyDone(u, e) PROVE Base'
<1>1. Shapes'
  BY DEF VerifyDone, Base, Shapes, clocks, world
<1>2. SeenIsCounted'
  BY DEF VerifyDone, Base, SeenIsCounted
<1> QED
  BY <1>1, <1>2 DEF VerifyDone, Base, Traffic, QueuedWhileDown, Up

LEMMA PeerTableSound == ASSUME Base, NEW u \in Url, PeerTable(u) PROVE Base'
<1>1. PICK A \in Adoptable(hints') :
        LET new == IF Up = {} THEN A ELSE {}
        IN /\ relays' = relays \cup new
           /\ sock' = [v \in Url |-> IF v \in new THEN "dialling" ELSE sock[v]]
  BY DEF PeerTable
<1> DEFINE new == IF Up = {} THEN A ELSE {}
<1>2. new \subseteq Url \ relays
  BY DEF Adoptable, PeerTable, Base, Shapes
<1>3. relays' = relays \cup new /\ sock' = [v \in Url |-> IF v \in new THEN "dialling" ELSE sock[v]]
  BY <1>1
<1> HIDE DEF new
<1>4. Shapes'
  BY <1>2, <1>3 DEF PeerTable, Base, Shapes, clocks, net
<1>5. Up' \subseteq Up
  BY <1>2, <1>3 DEF Up, Base, Shapes
<1> QED
  BY <1>4, <1>5 DEF PeerTable, Base, Traffic, SeenIsCounted, QueuedWhileDown, net

LEMMA TickSound == ASSUME Base, Tick PROVE Base'
<1>1. \A t \in 0..JoinTtl : Less(t) \in 0..JoinTtl
  BY PoolAssumption DEF Less
<1>2. Shapes'
  <2>1. cached' \in 0..JoinTtl /\ index' \in [Url -> 0..JoinTtl]
    BY <1>1 DEF Tick, Base, Shapes
  <2>2. timer' \in 0..Period
    BY PoolAssumption DEF Tick, Base, Shapes
  <2> QED
    BY <2>1, <2>2 DEF Tick, Base, Shapes, net, world
<1> DEFINE q(u) == [i \in DOMAIN queue[u] |-> Less(queue[u][i])]
<1>3. ASSUME NEW u \in Url
      PROVE  q(u) \in Queue /\ (queue[u] = <<>> => q(u) = <<>>)
  <2>1. queue[u] \in Seq(0..JoinTtl) /\ Len(queue[u]) \in Nat /\ Len(queue[u]) <= MaxQueued
    BY DEF Base, Traffic, Queue
  <2>2. \A i \in 1..Len(queue[u]) : q(u)[i] \in 0..JoinTtl
    <3> DEFINE S == 0..JoinTtl
    <3>1. DOMAIN queue[u] = 1..Len(queue[u]) /\ \A i \in 1..Len(queue[u]) : queue[u][i] \in S
      BY <2>1, Elements
    <3>2. \A t \in S : Less(t) \in S
      BY <1>1
    <3> HIDE DEF S
    <3>3. \A i \in 1..Len(queue[u]) : q(u)[i] \in S
      BY <3>1, <3>2
    <3> QED
      BY <3>3 DEF S
  <2>3. q(u) \in Seq(0..JoinTtl) /\ Len(q(u)) = Len(queue[u])
    <3> DEFINE r == q(u)
    <3>1. DOMAIN r = DOMAIN queue[u] /\ r = [i \in DOMAIN r |-> r[i]]
      OBVIOUS
    <3>2. \A i \in 1..Len(queue[u]) : r[i] \in 0..JoinTtl
      BY <2>2
    <3> HIDE DEF r
    <3>3. r \in Seq(0..JoinTtl) /\ Len(r) = Len(queue[u])
      BY <2>1, <3>1, <3>2, MappedSeq
    <3> QED
      BY <3>3 DEF r
  <2>4. q(u) \in Queue
    BY <2>1, <2>3 DEF Queue
  <2>5. ASSUME queue[u] = <<>> PROVE q(u) = <<>>
    BY <2>3, <2>5
  <2> QED
    BY <2>4, <2>5
<1>4. queue' = [u \in Url |-> q(u)]
  BY DEF Tick
<1> HIDE DEF q
<1>5. Traffic'
  BY <1>3, <1>4 DEF Tick, Base, Traffic
<1>6. QueuedWhileDown'
  BY <1>3, <1>4 DEF Tick, Base, QueuedWhileDown, Up, Shapes
<1> QED
  BY <1>2, <1>5, <1>6 DEF Tick, Base, SeenIsCounted, net

LEMMA ClosedSound ==
  ASSUME Base, NEW u \in Url, NEW forgets \in BOOLEAN, NEW gone \in BOOLEAN,
         Closed(u, forgets, gone)
  PROVE  Base'
<1>1. faults' \in 0..MaxFaults
  BY PoolAssumption DEF Closed, Base, Shapes
<1>2. index' \in [Url -> 0..JoinTtl]
  BY PoolAssumption DEF Closed, Base, Shapes
<1>3. sock' \in [Url -> {"none", "waiting", "dialling", "open"}]
      /\ \A v \in Url : sock'[v] = "none" <=> v \notin relays
  BY DEF Closed, Base, Shapes
<1>4. dead' \subseteq Url
  BY DEF Closed, Base, Shapes
<1>5. Shapes'
  BY <1>1, <1>2, <1>3, <1>4 DEF Closed, Base, Shapes, clocks, net
<1>6. Up' \subseteq Up
  BY DEF Closed, Base, Shapes, Up
<1> QED
  BY <1>5, <1>6 DEF Closed, Base, Traffic, SeenIsCounted, QueuedWhileDown, net

-----------------------------------------------------------------------------
(* What a relay knows of our JOIN.                                           *)

LEMMA Numbers ==
  ASSUME Base
  PROVE  /\ cached \in Nat /\ timer \in Nat /\ timer <= Period
         /\ Period \in Nat /\ RenewAt \in Nat /\ JoinTtl \in Nat /\ RenewAt < JoinTtl
         /\ \A u \in Url : index[u] \in Nat /\ \A left \in wire[u] : left \in Nat
         /\ Up \subseteq Url
<1>1. Period \in Nat /\ RenewAt \in Nat /\ JoinTtl \in Nat /\ RenewAt < JoinTtl
  BY PoolAssumption
<1>2. cached \in Nat /\ timer \in Nat /\ timer <= Period
  BY <1>1 DEF Base, Shapes
<1>3. \A u \in Url : index[u] \in 0..JoinTtl /\ wire[u] \subseteq 1..JoinTtl
  BY DEF Base, Shapes, Traffic
<1>4. Up \subseteq Url
  BY DEF Base, Shapes, Up
<1> QED
  BY <1>1, <1>2, <1>3, <1>4

(* A publication puts the JOIN on the wire of every relay that is open.         *)
LEMMA PublishTells ==
  ASSUME NEW left, NEW open, NEW q, NEW w, Publish(left, open, q, w),
         NEW u \in Url, u \in relays, u \in open
  PROVE  left \in wire'[u]
BY DEF Publish

LEMMA AnnounceTells ==
  ASSUME NEW open, NEW q, NEW w, Announce(open, q, w), ~mining',
         NEW u \in Url, u \in relays, u \in open
  PROVE  cached \in wire'[u]
<1>1. ~(cached <= RenewAt)
  BY DEF Announce
<1>2. Publish(cached, open, q, w)
  BY <1>1 DEF Announce
<1> QED
  BY <1>2, PublishTells

LEMMA MinedTells == ASSUME PoolOK, Mined PROVE Told' /\ Phased'
<1>1. cached' = JoinTtl /\ index' = index /\ timer' = timer /\ Up' = Up
  BY DEF Mined, Up
<1>2. \A u \in Up : u \in Url /\ JoinTtl \in wire'[u]
  BY PublishTells, Numbers DEF Mined, PoolOK, Up
<1>3. JoinTtl + Period > RenewAt + timer /\ JoinTtl >= JoinTtl
  BY Numbers DEF PoolOK
<1> QED
  BY <1>1, <1>2, <1>3 DEF Told, Phased

LEMMA AnnounceTimerTells == ASSUME PoolOK, AnnounceTimer PROVE Told' /\ Phased'
<1>1. cached' = cached /\ timer' = Period /\ Up' = Up
  BY DEF AnnounceTimer, Up
<1>2. SUFFICES ASSUME ~mining' PROVE Told' /\ Phased'
  BY DEF Told, Phased
<1>3. \A u \in Up : u \in Url /\ cached \in wire'[u]
  BY <1>2, AnnounceTells, Numbers DEF AnnounceTimer, PoolOK, Up
<1>4. ~(cached <= RenewAt)
  BY <1>2 DEF AnnounceTimer, Announce
<1>5. cached + Period > RenewAt + Period /\ cached >= cached
  BY <1>4, Numbers DEF PoolOK
<1> QED
  BY <1>1, <1>3, <1>5 DEF Told, Phased

LEMMA OpenedTells == ASSUME PoolOK, NEW u \in Url, Opened(u) PROVE Told' /\ Phased'
<1>1. cached' = cached /\ timer' = timer /\ Up' = Up \cup {u} /\ u \in relays
  BY DEF Opened, PoolOK, Base, Shapes, Up
<1>2. SUFFICES ASSUME ~mining' PROVE Told' /\ Phased'
  BY DEF Told, Phased
<1>3. \A v \in Up' : cached \in wire'[v]
  BY <1>1, <1>2, AnnounceTells, Numbers DEF Opened, PoolOK, Up
<1>4. ~(cached <= RenewAt) /\ ~mining
  BY <1>2 DEF Opened, Announce
<1>5. cached >= cached /\ cached # 0
  BY <1>4, Numbers DEF PoolOK
<1> QED
  BY <1>1, <1>3, <1>4, <1>5 DEF Told, Phased, PoolOK

LEMMA IngestTells ==
  ASSUME PoolOK, NEW u \in Url, NEW left \in wire[u], Ingest(u, left) PROVE Told' /\ Phased'
<1>1. /\ cached' = cached /\ timer' = timer /\ mining' = mining /\ Up' = Up
      /\ index' = [index EXCEPT ![u] = IF left > @ THEN left ELSE @]
      /\ wire' = [wire EXCEPT ![u] = @ \ {left}]
  BY DEF Ingest, clocks, Up
<1>2. SUFFICES ASSUME ~mining, NEW v \in Up
               PROVE  index'[v] >= cached \/ \E l \in wire'[v] : l >= cached
  BY <1>1 DEF PoolOK, Told, Phased
<1>3. index[v] >= cached \/ \E l \in wire[v] : l >= cached
  BY <1>2 DEF PoolOK, Told
<1>4. v \in Url /\ index[v] \in Nat /\ left \in Nat /\ cached \in Nat
  BY Numbers DEF PoolOK
<1>5. CASE v # u
  <2>1. index'[v] = index[v] /\ wire'[v] = wire[v]
    BY <1>1, <1>4, <1>5 DEF PoolOK, Base, Shapes, Traffic
  <2> QED
    BY <1>3, <2>1
<1>6. CASE v = u
  <2>1. index'[v] = (IF left > index[v] THEN left ELSE index[v]) /\ wire'[v] = wire[v] \ {left}
    BY <1>1, <1>4, <1>6 DEF PoolOK, Base, Shapes, Traffic
  <2> QED
    BY <1>3, <1>4, <2>1
<1> QED
  BY <1>5, <1>6

LEMMA TickTells == ASSUME PoolOK, Tick PROVE Told' /\ Phased'
<1>1. /\ cached' = Less(cached) /\ timer' = timer - 1 /\ mining' = mining /\ Up' = Up
      /\ index' = [u \in Url |-> Less(index[u])] /\ wire' = wire /\ ~mining
      /\ \A u \in Url : wire[u] = {}
  BY DEF Tick, Up
<1>2. \A a, b \in Nat : a >= b => Less(a) >= Less(b)
  BY DEF Less
<1>3. \A u \in Up : u \in Url /\ index[u] \in Nat /\ cached \in Nat /\ index[u] >= cached
  BY <1>1, Numbers DEF PoolOK, Told
<1>4. Told'
  <2>1. \A u \in Up : index'[u] >= cached'
    BY <1>1, <1>2, <1>3
  <2> QED
    BY <1>1, <2>1 DEF Told
<1>5. Phased'
  <2>1. cached + Period > RenewAt + timer \/ (cached = 0 /\ Up = {})
    BY <1>1 DEF PoolOK, Phased
  <2>2. CASE cached + Period > RenewAt + timer
    <3>1. Less(cached) + Period > RenewAt + (timer - 1)
      BY <2>2, Numbers DEF PoolOK, Less
    <3> QED
      BY <1>1, <3>1 DEF Phased
  <2>3. CASE cached = 0 /\ Up = {}
    BY <1>1, <2>3 DEF Phased, Less
  <2> QED
    BY <2>1, <2>2, <2>3
<1> QED
  BY <1>4, <1>5

LEMMA ClosedTells ==
  ASSUME PoolOK, NEW u \in Url, NEW forgets \in BOOLEAN, NEW gone \in BOOLEAN,
         Closed(u, forgets, gone)
  PROVE  Told' /\ Phased'
<1>1. cached' = cached /\ timer' = timer /\ mining' = mining
  BY DEF Closed, clocks
<1>2. Up' \subseteq Up /\ u \notin Up'
  BY DEF Closed, PoolOK, Base, Shapes, Up
<1>3. \A v \in Up' : index'[v] = index[v] /\ wire'[v] = wire[v]
  BY <1>2, Numbers DEF Closed, PoolOK, Base, Shapes, Traffic
<1> QED
  BY <1>1, <1>2, <1>3 DEF PoolOK, Told, Phased

(* The other actions touch neither a JOIN nor an open socket.                  *)
LEMMA OthersTell ==
  ASSUME PoolOK, UNCHANGED <<wire, index, clocks>>, Up' \subseteq Up
  PROVE  Told' /\ Phased'
BY DEF PoolOK, Told, Phased, clocks

LEMMA QuietSteps ==
  ASSUME PoolOK,
         NEW u \in Url,
         \/ Refused(u) \/ Redial(u) \/ PeerTable(u)
         \/ \E e \in Others : Receive(u, e) \/ VerifyDone(u, e)
  PROVE  Told' /\ Phased'
<1>1. UNCHANGED <<wire, index, clocks>>
  BY DEF Refused, Redial, PeerTable, Receive, VerifyDone
<1>2. Up' \subseteq Up
  <2>1. CASE PeerTable(u)
    <3>1. PICK A \in Adoptable(hints') :
            LET new == IF Up = {} THEN A ELSE {}
            IN /\ relays' = relays \cup new
               /\ sock' = [v \in Url |-> IF v \in new THEN "dialling" ELSE sock[v]]
      BY <2>1 DEF PeerTable
    <3> DEFINE new == IF Up = {} THEN A ELSE {}
    <3>2. new \subseteq Url
      BY <2>1 DEF Adoptable, PeerTable, PoolOK, Base, Shapes
    <3>3. relays' = relays \cup new /\ sock' = [v \in Url |-> IF v \in new THEN "dialling" ELSE sock[v]]
      BY <3>1
    <3> HIDE DEF new
    <3> QED
      BY <3>2, <3>3 DEF Up, PoolOK, Base, Shapes
  <2>2. CASE Refused(u) \/ Redial(u)
    <3>1. PICK s \in {"waiting", "dialling"} : sock' = [sock EXCEPT ![u] = s] /\ relays' = relays
      BY <2>2 DEF Refused, Redial
    <3> QED
      BY <3>1 DEF Up, PoolOK, Base, Shapes
  <2>3. CASE \E e \in Others : Receive(u, e) \/ VerifyDone(u, e)
    BY <2>3 DEF Receive, VerifyDone, Up
  <2> QED
    BY <2>1, <2>2, <2>3
<1> QED
  BY <1>1, <1>2, OthersTell

LEMMA StepSound == PoolOK /\ [Next]_vars => PoolOK'
<1> SUFFICES ASSUME PoolOK, [Next]_vars PROVE PoolOK'
  OBVIOUS
<1>1. Base
  BY DEF PoolOK
<1>2. CASE Next
  <2>1. Base'
    BY <1>1, <1>2, MinedSound, AnnounceTimerSound, OpenedSound, SocketSound, IngestSound,
       ReceiveSound, VerifyDoneSound, PeerTableSound, TickSound, ClosedSound DEF Next
  <2>2. Told' /\ Phased'
    BY <1>2, MinedTells, AnnounceTimerTells, OpenedTells, IngestTells, QuietSteps, TickTells,
       ClosedTells DEF Next
  <2> QED
    BY <2>1, <2>2 DEF PoolOK
<1>3. CASE UNCHANGED vars
  <2>1. Base'
    BY <1>1, <1>3 DEF vars, clocks, net, world, Base, Shapes, Traffic, SeenIsCounted,
       QueuedWhileDown, Up
  <2>2. UNCHANGED <<wire, index, clocks>> /\ Up' \subseteq Up
    BY <1>3 DEF vars, clocks, Up
  <2> QED
    BY <2>1, <2>2, OthersTell DEF PoolOK
<1> QED
  BY <1>2, <1>3

(* No relay is open at the start.                                            *)
LEMMA InitTells == Init => PoolOK
<1> SUFFICES ASSUME Init PROVE PoolOK
  OBVIOUS
<1>1. Up = {} /\ cached = 0
  BY PoolAssumption DEF Init, Up
<1> QED
  BY <1>1, InitSound DEF PoolOK, Told, Phased

LEMMA PoolAlways == Spec => []PoolOK
BY InitTells, StepSound, PTL DEF Spec

-----------------------------------------------------------------------------
(* TypeOK: whatever relays are adopted, close, forget or go away, a relay has a  *)
(* socket exactly if it is in the pool, and a queue is never longer than its     *)
(* cap (relayclient.ts:217-223).                                             *)
THEOREM TypeCorrect == Spec => []TypeOK
<1>1. PoolOK => TypeOK
  BY DEF PoolOK, Base, Shapes, Traffic, Queue, SeenIsCounted, TypeOK
<1> QED
  BY <1>1, PoolAlways, PTL

(* ProcessedOnce: an event is handed to the conversation once, however many      *)
(* deliveries of it are verified at a time (relayclient.ts:181-200).           *)
THEOREM ProcessedAtMostOnce == Spec => []ProcessedOnce
<1>1. PoolOK => ProcessedOnce
  BY DEF PoolOK, Base, SeenIsCounted, ProcessedOnce
<1> QED
  BY <1>1, PoolAlways, PTL

(* QueuedWhileDown: nothing is left waiting for a socket that is open           *)
(* (relayclient.ts:148-158, 217-223).                                        *)
THEOREM NothingWaitsForOpen == Spec => []QueuedWhileDown
<1>1. PoolOK => QueuedWhileDown
  BY DEF PoolOK, Base
<1> QED
  BY <1>1, PoolAlways, PTL

(* JoinKnown: a connected relay that has taken what was sent to it knows a JOIN   *)
(* as long-lived as the cached one (conversation.ts:317-331).                   *)
THEOREM AnnouncedEverywhere == Spec => []JoinKnown
<1>1. PoolOK => JoinKnown
  <2> SUFFICES ASSUME PoolOK, NEW u \in Up, Settled(u) PROVE index[u] >= cached
    BY DEF JoinKnown
  <2> QED
    BY DEF PoolOK, Told, Settled
<1> QED
  BY <1>1, PoolAlways, PTL

(* LapseBounded: it is without a live JOIN in the last Period - RenewAt of an      *)
(* announce interval at most (conversation.ts:274, 320).                        *)
THEOREM LapseIsBounded == Spec => []LapseBounded
<1>1. PoolOK => LapseBounded
  <2> SUFFICES ASSUME PoolOK, NEW u \in Up, Settled(u), index[u] = 0
               PROVE  timer + RenewAt < Period
    BY DEF LapseBounded
  <2>1. index[u] >= cached /\ ~mining
    BY DEF PoolOK, Told, Settled
  <2>2. cached = 0
    BY <2>1, Numbers DEF PoolOK
  <2>3. cached + Period > RenewAt + timer
    BY <2>1 DEF PoolOK, Phased
  <2> QED
    BY <2>2, <2>3, Numbers DEF PoolOK
<1> QED
  BY <1>1, PoolAlways, PTL
=============================================================================
