----------------------------- MODULE Relay_proofs -----------------------------
(* Theorems about the relay, for any set of nodes, networks, sockets and       *)
(* filters, any lifetimes, any caps and any number of events.                  *)
EXTENDS Relay, FiniteSetTheorems, TLAPS

StoreShape ==
  [nets : SUBSET Net, events : SUBSET Event,
   joins : [Net -> [Node -> Nat]], activity : [Net -> Nat]]

-----------------------------------------------------------------------------
(* What the operations of the store preserve                                 *)

LEMMA LeastIsSubset == ASSUME NEW S, NEW f(_) PROVE Least(S, f) \subseteq S
BY DEF Least

(* Making a bucket drops events at most.                                        *)
LEMMA WithBucketShape ==
  ASSUME NEW s \in StoreShape, NEW w \in Net, NEW t \in WithBucket(s, w)
  PROVE  /\ t \in StoreShape
         /\ t.events \subseteq s.events
         /\ \A v \in Net : \A n \in Node : t.joins[v][n] \in {0, s.joins[v][n]}
<1>1. CASE t = [s EXCEPT !.nets = @ \cup {w}]
  BY <1>1 DEF StoreShape
<1>2. CASE t # [s EXCEPT !.nets = @ \cup {w}]
  <2>1. PICK cold \in s.nets :
          t = [nets |-> (s.nets \ {cold}) \cup {w},
               events |-> s.events \ Bucket(s, cold),
               joins |-> [s.joins EXCEPT ![cold] = [n \in Node |-> 0]],
               activity |-> [s.activity EXCEPT ![cold] = 0]]
    BY <1>2 DEF WithBucket, Least
  <2>2. cold \in Net
    BY DEF StoreShape
  <2>3. [s.joins EXCEPT ![cold] = [n \in Node |-> 0]] \in [Net -> [Node -> Nat]]
    BY DEF StoreShape
  <2>4. \A v \in Net : \A n \in Node :
          [s.joins EXCEPT ![cold] = [m \in Node |-> 0]][v][n] \in {0, s.joins[v][n]}
    BY DEF StoreShape
  <2> QED
    BY <2>1, <2>2, <2>3, <2>4 DEF StoreShape
<1> QED
  BY <1>1, <1>2

(* A JOIN moves the expiry of its node alone up, and never past JoinTtl from now. *)
LEMMA IndexJoinShape ==
  ASSUME NEW joins \in [Node -> Nat], NEW e \in Event, NEW time \in Nat,
         NEW j \in IndexJoin(joins, e, time)
  PROVE  /\ j \in [Node -> Nat]
         /\ \A n \in Node : j[n] <= joins[n] \/ j[n] <= time + JoinTtl
<1> USE CapsAssumption
<1> DEFINE upto == IF e.expires < time + JoinTtl THEN e.expires ELSE time + JoinTtl
           with == [joins EXCEPT ![e.node] = IF @ > upto THEN @ ELSE upto]
<1>1. upto \in Nat /\ upto <= time + JoinTtl
  BY DEF Event
<1>2. with \in [Node -> Nat] /\ \A n \in Node : with[n] <= joins[n] \/ with[n] <= time + JoinTtl
  BY <1>1 DEF Event
<1> HIDE DEF with
<1>3. j = with \/ \E n \in Node : j = [with EXCEPT ![n] = 0]
  BY DEF IndexJoin, Least, with
<1> QED
  BY <1>2, <1>3

(* What Outcomes keeps, and what it may add.                                    *)
LEMMA OutcomesShape ==
  ASSUME NEW s \in StoreShape, NEW e \in Event, NEW r \in Outcomes(s, e)
  PROVE  /\ r.store \in StoreShape
         /\ r.store.joins = s.joins
         /\ r.added \in BOOLEAN
         /\ r.store.events \subseteq s.events \cup IF r.added THEN {e} ELSE {}
<1> DEFINE old == {d \in Bucket(s, e.net) : d.node = e.node /\ d.type = e.type /\ e.type \notin Multi}
           kept == Bucket(s, e.net) \ old
<1>1. \/ r = [store |-> s, added |-> FALSE]
      \/ r = [store |-> [s EXCEPT !.events = @ \ old], added |-> FALSE]
      \/ \E victims : r = [store |-> [s EXCEPT !.events = ((@ \ old) \ victims) \cup {e}], added |-> TRUE]
  BY DEF Outcomes
<1> HIDE DEF old
<1>2. CASE r = [store |-> s, added |-> FALSE]
  BY <1>2
<1>3. CASE r = [store |-> [s EXCEPT !.events = @ \ old], added |-> FALSE]
  BY <1>3 DEF StoreShape
<1>4. ASSUME NEW victims,
             r = [store |-> [s EXCEPT !.events = ((@ \ old) \ victims) \cup {e}], added |-> TRUE]
      PROVE  /\ r.store \in StoreShape
             /\ r.store.joins = s.joins
             /\ r.added \in BOOLEAN
             /\ r.store.events \subseteq s.events \cup IF r.added THEN {e} ELSE {}
  <2> DEFINE left == ((s.events \ old) \ victims) \cup {e}
  <2>1. r.store = [s EXCEPT !.events = left] /\ r.added = TRUE
    BY <1>4
  <2>2. left \in SUBSET Event /\ left \subseteq s.events \cup {e}
    BY DEF StoreShape
  <2> HIDE DEF left
  <2> QED
    BY <2>1, <2>2 DEF StoreShape
<1> QED
  BY <1>1, <1>2, <1>3, <1>4

(* What entering the index leaves as it was.                                    *)
LEMMA IndexedShape ==
  ASSUME NEW s \in StoreShape, NEW e \in Event, NEW time \in Nat, NEW t \in Indexed(s, e, time)
  PROVE  /\ t \in StoreShape
         /\ t.events = s.events
         /\ \A v \in Net : \A n \in Node :
              t.joins[v][n] <= s.joins[v][n] \/ t.joins[v][n] <= time + JoinTtl
<1>0. e.net \in Net
  BY DEF Event
<1>1. CASE t = s
  BY <1>1 DEF StoreShape
<1>2. ASSUME NEW j \in IndexJoin(s.joins[e.net], e, time), t = [s EXCEPT !.joins[e.net] = j]
      PROVE  /\ t \in StoreShape
             /\ t.events = s.events
             /\ \A v \in Net : \A n \in Node :
                  t.joins[v][n] <= s.joins[v][n] \/ t.joins[v][n] <= time + JoinTtl
  <2>1. s.joins[e.net] \in [Node -> Nat]
    BY <1>0 DEF StoreShape
  <2>2. /\ j \in [Node -> Nat]
        /\ \A n \in Node : j[n] <= s.joins[e.net][n] \/ j[n] <= time + JoinTtl
    BY <2>1, IndexJoinShape
  <2>3. t.joins = [s.joins EXCEPT ![e.net] = j] /\ t.events = s.events
    BY <1>2 DEF StoreShape
  <2>4. t \in StoreShape
    BY <1>0, <1>2, <2>2 DEF StoreShape
  <2>5. ASSUME NEW v \in Net, NEW n \in Node
        PROVE  t.joins[v][n] <= s.joins[v][n] \/ t.joins[v][n] <= time + JoinTtl
    BY <1>0, <2>2, <2>3 DEF StoreShape
  <2> QED
    BY <2>3, <2>4, <2>5
<1> QED
  BY <1>1, <1>2 DEF Indexed

(* add() as a whole.                                                           *)
LEMMA AddShape ==
  ASSUME NEW s \in StoreShape, NEW e \in Event, NEW time \in Nat, NEW r \in Add(s, e, time)
  PROVE  /\ r.store \in StoreShape
         /\ r.added \in BOOLEAN
         /\ r.store.events \subseteq s.events \cup IF r.added THEN {e} ELSE {}
         /\ \A v \in Net : \A n \in Node :
              r.store.joins[v][n] <= s.joins[v][n] \/ r.store.joins[v][n] <= time + JoinTtl
<1>0. e.net \in Net
  BY DEF Event
<1>1. PICK b \in WithBucket(s, e.net) :
        \E t \in Indexed([b EXCEPT !.activity[e.net] = time], e, time) : r \in Outcomes(t, e)
  <2> DEFINE Ready(b) == Indexed([b EXCEPT !.activity[e.net] = time], e, time)
             All(b) == UNION {Outcomes(t, e) : t \in Ready(b)}
  <2>1. r \in UNION {All(b) : b \in WithBucket(s, e.net)}
    BY DEF Add
  <2> HIDE DEF All
  <2>2. PICK b \in WithBucket(s, e.net) : r \in All(b)
    BY <2>1
  <2> HIDE DEF Ready
  <2>3. \E t \in Ready(b) : r \in Outcomes(t, e)
    BY <2>2 DEF All
  <2> QED
    BY <2>3 DEF Ready
<1> DEFINE touched == [b EXCEPT !.activity[e.net] = time]
<1>2. PICK t \in Indexed(touched, e, time) : r \in Outcomes(t, e)
  BY <1>1
<1>3. /\ b \in StoreShape
      /\ b.events \subseteq s.events
      /\ \A v \in Net : \A n \in Node : b.joins[v][n] \in {0, s.joins[v][n]}
  BY <1>0, WithBucketShape
<1>4. /\ touched \in StoreShape
      /\ touched.events = b.events
      /\ touched.joins = b.joins
  BY <1>0, <1>3 DEF StoreShape
<1> HIDE DEF touched
<1>5. /\ t \in StoreShape
      /\ t.events = b.events
      /\ \A v \in Net : \A n \in Node :
           t.joins[v][n] <= b.joins[v][n] \/ t.joins[v][n] <= time + JoinTtl
  BY <1>4, IndexedShape
<1>6. /\ r.store \in StoreShape
      /\ r.store.joins = t.joins
      /\ r.added \in BOOLEAN
      /\ r.store.events \subseteq t.events \cup IF r.added THEN {e} ELSE {}
  BY <1>2, <1>5, OutcomesShape
<1>7. ASSUME NEW v \in Net, NEW n \in Node
      PROVE  t.joins[v][n] <= s.joins[v][n] \/ t.joins[v][n] <= time + JoinTtl
  <2>1. s.joins[v][n] \in Nat /\ t.joins[v][n] \in Nat /\ b.joins[v][n] \in {0, s.joins[v][n]}
    BY <1>3, <1>5 DEF StoreShape
  <2>2. t.joins[v][n] <= b.joins[v][n] \/ t.joins[v][n] <= time + JoinTtl
    BY <1>5
  <2> QED
    BY <2>1, <2>2, CapsAssumption
<1> QED
  BY <1>3, <1>5, <1>6, <1>7

(* A sweep only takes away.                                                    *)
LEMMA SweepShape ==
  ASSUME NEW s \in StoreShape, NEW time \in Nat
  PROVE  /\ Sweep(s, time) \in StoreShape
         /\ Sweep(s, time).events \subseteq s.events
         /\ \A v \in Net : \A n \in Node : Sweep(s, time).joins[v][n] \in {0, s.joins[v][n]}
<1> DEFINE joins == [v \in Net |-> [n \in Node |-> IF s.joins[v][n] > time THEN s.joins[v][n] ELSE 0]]
<1>1. joins \in [Net -> [Node -> Nat]] /\ \A v \in Net : \A n \in Node : joins[v][n] \in {0, s.joins[v][n]}
  BY DEF StoreShape
<1> HIDE DEF joins
<1>2. Sweep(s, time).joins = joins
  BY DEF Sweep, joins
<1> QED
  BY <1>1, <1>2 DEF Sweep, StoreShape

-----------------------------------------------------------------------------
(* Types and counts                                                          *)

SubMap == UNION {[S -> Filters] : S \in SUBSET SubId}

ConnShape == [open : BOOLEAN, alive : BOOLEAN, gone : BOOLEAN, ip : Ip, subs : SubMap]

LEMMA ClosedShape == Closed \in ConnShape /\ Closed.open = FALSE /\ DOMAIN Closed.subs = {}
<1>1. [i \in {} |-> {}] \in [{} -> Filters]
  OBVIOUS
<1>2. [i \in {} |-> {}] \in SubMap
  BY <1>1 DEF SubMap
<1>3. (CHOOSE i \in Ip : TRUE) \in Ip
  BY RelayAssumption
<1> QED
  BY <1>2, <1>3 DEF Closed, ConnShape

LEMMA SubMapShape ==
  ASSUME NEW m \in SubMap
  PROVE  /\ DOMAIN m \subseteq SubId
         /\ \A i \in DOMAIN m : m[i] \in Filters
BY DEF SubMap

LEMMA PublishedShape == ASSUME now \in Nat PROVE Published \subseteq Event
<1> SUFFICES ASSUME NEW k \in Kinds, NEW d \in 0..MaxDelay, d <= now
    PROVE  [type |-> k.type, net |-> k.net, node |-> k.node, target |-> k.target,
            created |-> now + Skew[k.node] - d, expires |-> now + Skew[k.node] - d + Ttl[k.type]]
             \in Event
  BY DEF Published
<1>1. k.type \in Type /\ k.net \in Net /\ k.node \in Node /\ k.target \in Node
  BY RelayAssumption DEF Type
<1>2. Skew[k.node] \in Nat /\ Ttl[k.type] \in Nat
  BY <1>1, RelayAssumption DEF Type
<1> QED
  BY <1>1, <1>2, RelayAssumption DEF Event

(* The sockets open from an address.                                           *)
From(ip) == {c \in OpenConns : conn[c].ip = ip}

LEMMA FromIsFinite == ASSUME NEW ip PROVE IsFiniteSet(From(ip)) /\ IsFiniteSet(OpenConns)
<1>1. From(ip) \subseteq Conn /\ OpenConns \subseteq Conn
  BY DEF From, OpenConns
<1> QED
  BY <1>1, FS_Subset, RelayAssumption

Counted == TypeOK /\ CountersExact

(* Actions that keep sockets open, and their addresses, keep the counts.        *)
LEMMA CountsStay ==
  ASSUME CountersExact, perIp' = perIp,
         \A c \in Conn : conn'[c].open = conn[c].open /\ conn'[c].ip = conn[c].ip
  PROVE  CountersExact'
<1>1. OpenConns' = OpenConns
  BY DEF OpenConns
<1>2. \A ip : {c \in OpenConns' : conn'[c].ip = ip} = {c \in OpenConns : conn[c].ip = ip}
  BY <1>1 DEF OpenConns
<1> QED
  BY <1>1, <1>2 DEF CountersExact

(* Closing some sockets takes exactly them off the counts of their addresses.    *)
LEMMA ClosingCounts ==
  ASSUME Counted, NEW closing \in SUBSET OpenConns, CloseHandler(closing),
         \A c \in closing : conn'[c].open = FALSE,
         \A c \in Conn \ closing : conn'[c].open = conn[c].open /\ conn'[c].ip = conn[c].ip
  PROVE  CountersExact' /\ perIp' \in [Ip -> Nat]
<1> USE DEF From
<1>1. ASSUME NEW ip \in Ip
      PROVE  /\ perIp'[ip] = Cardinality({c \in OpenConns : conn[c].ip = ip}')
             /\ perIp'[ip] \in Nat
  <2> DEFINE gone == {c \in closing : conn[c].ip = ip}
             left == {c \in OpenConns : conn[c].ip = ip}'
  <2>1. gone \subseteq From(ip) /\ From(ip) \cap gone = gone
    OBVIOUS
  <2>2. left = From(ip) \ gone
    BY DEF OpenConns
  <2>3. perIp[ip] = Cardinality(From(ip))
    BY DEF Counted, CountersExact
  <2>4. perIp'[ip] = perIp[ip] - Cardinality(gone)
    BY DEF CloseHandler
  <2>5. IsFiniteSet(From(ip)) /\ IsFiniteSet(gone) /\ IsFiniteSet(left)
    BY <2>1, <2>2, FromIsFinite, FS_Subset
  <2> HIDE DEF gone, left, From
  <2>6. Cardinality(left) = Cardinality(From(ip)) - Cardinality(gone)
    <3>1. Cardinality(From(ip) \ gone) = Cardinality(From(ip)) - Cardinality(From(ip) \cap gone)
      BY <2>5, FS_Difference
    <3> QED
      BY <2>1, <2>2, <3>1
  <2> USE DEF left, From
  <2>7. Cardinality(left) \in Nat
    BY <2>5, FS_CardinalityType
  <2> QED
    BY <2>3, <2>4, <2>6, <2>7
<1>2. perIp' \in [Ip -> Nat]
  BY <1>1 DEF CloseHandler
<1>3. OpenConns' \subseteq OpenConns
  BY DEF OpenConns
<1>4. /\ IsFiniteSet(OpenConns)
      /\ Cardinality(OpenConns) \in Nat
      /\ Cardinality(OpenConns') \in Nat
      /\ Cardinality(OpenConns') <= Cardinality(OpenConns)
  BY <1>3, FromIsFinite, FS_Subset, FS_CardinalityType
<1>5. Cardinality(OpenConns') <= MaxConnections
  BY <1>4, RelayAssumption DEF Counted, CountersExact
<1> QED
  BY <1>1, <1>2, <1>5 DEF CountersExact

(* A socket that opens adds one to the count of its address.                    *)
LEMMA OpeningCounts ==
  ASSUME Counted, NEW c \in Conn, NEW ip \in Ip, Open(c, ip)
  PROVE  CountersExact' /\ perIp' \in [Ip -> Nat] /\ conn' \in [Conn -> ConnShape]
<1> DEFINE fresh == [Closed EXCEPT !.open = TRUE, !.alive = TRUE, !.ip = ip]
<1>1. fresh \in ConnShape /\ fresh.open = TRUE /\ fresh.ip = ip
  BY ClosedShape DEF ConnShape
<1> HIDE DEF fresh
<1>2. conn \in [Conn -> ConnShape] /\ conn' = [conn EXCEPT ![c] = fresh] /\ c \notin OpenConns
  BY DEF Counted, TypeOK, ConnShape, SubMap, Open, OpenConns, fresh
<1>3. OpenConns' = OpenConns \cup {c}
  BY <1>1, <1>2 DEF OpenConns
<1>4. ASSUME NEW x \in Ip
      PROVE  perIp'[x] = Cardinality({k \in OpenConns : conn[k].ip = x}') /\ perIp'[x] \in Nat
  <2>1. {k \in OpenConns : conn[k].ip = x}' = IF x = ip THEN From(x) \cup {c} ELSE From(x)
    BY <1>1, <1>2, <1>3 DEF From, OpenConns
  <2>2. c \notin From(x)
    BY <1>2 DEF From
  <2>3. Cardinality(From(x) \cup {c}) = Cardinality(From(x)) + 1
    BY <2>2, FromIsFinite, FS_AddElement
  <2>4. perIp[x] = Cardinality(From(x)) /\ perIp[x] \in Nat
    BY DEF Counted, CountersExact, TypeOK, From
  <2>5. perIp'[x] = IF x = ip THEN perIp[x] + 1 ELSE perIp[x]
    BY DEF Open, Counted, TypeOK
  <2>6. CASE x = ip
    <3>1. {k \in OpenConns : conn[k].ip = x}' = From(x) \cup {c}
      BY <2>1, <2>6
    <3>2. Cardinality({k \in OpenConns : conn[k].ip = x}') = perIp[x] + 1
      BY <2>3, <2>4, <3>1
    <3> QED
      BY <2>4, <2>5, <2>6, <3>2
  <2>7. CASE x # ip
    BY <2>1, <2>4, <2>5, <2>7
  <2> QED
    BY <2>6, <2>7
<1>5. perIp' \in [Ip -> Nat]
  BY <1>4 DEF Open, Counted, TypeOK
<1>6. Cardinality(OpenConns') <= MaxConnections
  <2>1. Cardinality(OpenConns') = Cardinality(OpenConns) + 1
    BY <1>2, <1>3, FromIsFinite, FS_AddElement
  <2>2. Cardinality(OpenConns) \in Nat /\ Cardinality(OpenConns) < MaxConnections
    BY FromIsFinite, FS_CardinalityType DEF Open
  <2> QED
    BY <2>1, <2>2, RelayAssumption
<1> QED
  BY <1>1, <1>2, <1>4, <1>5, <1>6 DEF CountersExact

LEMMA InitCounted == Init => Counted
<1> SUFFICES ASSUME Init PROVE Counted
  OBVIOUS
<1> USE DEF Init
<1>1. conn \in [Conn -> ConnShape] /\ OpenConns = {}
  BY ClosedShape DEF OpenConns
<1>2. TypeOK
  <2>1. store \in StoreShape
    BY DEF EmptyStore, StoreShape
  <2>2. perIp \in [Ip -> Nat] /\ sent \in [Conn -> [SubId -> SUBSET Event]]
    BY DEF Nothing
  <2> QED
    BY <1>1, <2>1, <2>2 DEF TypeOK, StoreShape, ConnShape, SubMap
<1>3. CountersExact
  <2>1. \A ip \in Ip : {c \in OpenConns : conn[c].ip = ip} = {}
    BY <1>1
  <2>2. Cardinality({}) = 0
    BY FS_EmptySet
  <2> QED
    BY <1>1, <2>1, <2>2, RelayAssumption DEF CountersExact
<1> QED
  BY <1>2, <1>3 DEF Counted

(* Every action keeps the types and the counts.                                  *)
LEMMA StepCounted == Counted /\ [Next]_vars => Counted'
<1> SUFFICES ASSUME Counted, [Next]_vars PROVE Counted'
  OBVIOUS
<1>0. /\ now \in Nat /\ store \in StoreShape /\ verifying \subseteq Event /\ received \subseteq Event
      /\ conn \in [Conn -> ConnShape] /\ perIp \in [Ip -> Nat]
      /\ sent \in [Conn -> [SubId -> SUBSET Event]] /\ CountersExact
  BY DEF Counted, TypeOK, StoreShape, ConnShape, SubMap
<1> DEFINE Typed ==
      /\ now \in Nat /\ store \in StoreShape /\ verifying \subseteq Event /\ received \subseteq Event
      /\ conn \in [Conn -> ConnShape] /\ perIp \in [Ip -> Nat]
      /\ sent \in [Conn -> [SubId -> SUBSET Event]]
<1> SUFFICES Typed' /\ CountersExact'
  BY DEF Counted, TypeOK, StoreShape, ConnShape, SubMap
<1>1. CASE Tick
  BY <1>0, <1>1, CountsStay DEF Tick
<1>2. ASSUME NEW e \in Published \cup received, Receive(e) PROVE Typed' /\ CountersExact'
  BY <1>0, <1>2, PublishedShape, CountsStay DEF Receive
<1>3. ASSUME NEW e \in verifying, VerifyDone(e) PROVE Typed' /\ CountersExact'
  <2>1. store' \in StoreShape
    BY <1>0, <1>3, AddShape DEF VerifyDone
  <2>2. sent' \in [Conn -> [SubId -> SUBSET Event]]
    BY <1>0, <1>3 DEF VerifyDone
  <2> QED
    BY <1>0, <1>3, <2>1, <2>2, CountsStay DEF VerifyDone
<1>4. CASE SweepStore
  BY <1>0, <1>4, SweepShape, CountsStay DEF SweepStore
<1>5. CASE Reap
  <2> DEFINE dead == {c \in OpenConns : ~conn[c].alive}
  <2>1. /\ dead \in SUBSET OpenConns
        /\ CloseHandler(dead)
        /\ \A c \in dead : conn'[c].open = FALSE
        /\ \A c \in Conn \ dead : conn'[c].open = conn[c].open /\ conn'[c].ip = conn[c].ip
    BY <1>0, <1>5, ClosedShape DEF Reap, OpenConns, ConnShape
  <2>2. CountersExact' /\ perIp' \in [Ip -> Nat]
    BY <2>1, ClosingCounts
  <2>3. conn' \in [Conn -> ConnShape]
    BY <1>0, <1>5, ClosedShape DEF Reap, ConnShape
  <2>4. sent' \in [Conn -> [SubId -> SUBSET Event]]
    BY <1>0, <2>1 DEF CloseHandler, Nothing
  <2> QED
    BY <1>0, <1>5, <2>2, <2>3, <2>4 DEF Reap
<1>6. ASSUME NEW c \in Conn, ClientStep(c) PROVE Typed' /\ CountersExact'
  <2>1. ASSUME NEW ip \in Ip, Open(c, ip) PROVE Typed' /\ CountersExact'
    BY <1>0, <2>1, OpeningCounts DEF Open
  <2>2. ASSUME NEW i \in SubId, Unsubscribe(c, i) PROVE Typed' /\ CountersExact'
    <3> DEFINE subs == [j \in DOMAIN conn[c].subs \ {i} |-> conn[c].subs[j]]
    <3>1. subs \in SubMap
      <4>1. DOMAIN subs \in SUBSET SubId /\ \A j \in DOMAIN subs : subs[j] \in Filters
        BY <1>0, SubMapShape DEF ConnShape
      <4>2. subs \in [DOMAIN subs -> Filters]
        BY <4>1
      <4> HIDE DEF subs
      <4> QED
        BY <4>1, <4>2 DEF SubMap
    <3> HIDE DEF subs
    <3>2. conn' = [conn EXCEPT ![c].subs = subs]
      BY <2>2 DEF Unsubscribe, subs
    <3>3. /\ conn' \in [Conn -> ConnShape]
          /\ \A k \in Conn : conn'[k].open = conn[k].open /\ conn'[k].ip = conn[k].ip
      BY <1>0, <3>1, <3>2 DEF ConnShape
    <3>4. sent' \in [Conn -> [SubId -> SUBSET Event]]
      BY <1>0, <2>2 DEF Unsubscribe
    <3> QED
      BY <1>0, <2>2, <3>3, <3>4, CountsStay DEF Unsubscribe
  <2>3. ASSUME NEW i \in SubId, NEW f \in Filters, Request(c, i, f) PROVE Typed' /\ CountersExact'
    <3> DEFINE subs == [j \in DOMAIN conn[c].subs \cup {i} |-> IF j = i THEN f ELSE conn[c].subs[j]]
    <3>1. subs \in SubMap
      <4>1. DOMAIN subs \in SUBSET SubId /\ \A j \in DOMAIN subs : subs[j] \in Filters
        BY <1>0, SubMapShape DEF ConnShape
      <4>2. subs \in [DOMAIN subs -> Filters]
        BY <4>1
      <4> HIDE DEF subs
      <4> QED
        BY <4>1, <4>2 DEF SubMap
    <3> HIDE DEF subs
    <3>2. conn' = [conn EXCEPT ![c].subs = subs]
      BY <2>3 DEF Request, subs
    <3>3. /\ conn' \in [Conn -> ConnShape]
          /\ \A k \in Conn : conn'[k].open = conn[k].open /\ conn'[k].ip = conn[k].ip
      BY <1>0, <3>1, <3>2 DEF ConnShape
    <3>4. sent' \in [Conn -> [SubId -> SUBSET Event]]
      BY <1>0, <2>3 DEF Request, Query, StoreShape
    <3> QED
      BY <1>0, <2>3, <3>3, <3>4, CountsStay DEF Request
  <2>4. CASE Close(c)
    <3>1. /\ {c} \in SUBSET OpenConns
          /\ CloseHandler({c})
          /\ \A k \in {c} : conn'[k].open = FALSE
          /\ \A k \in Conn \ {c} : conn'[k].open = conn[k].open /\ conn'[k].ip = conn[k].ip
      BY <1>0, <2>4, ClosedShape DEF Close, OpenConns
    <3>2. CountersExact' /\ perIp' \in [Ip -> Nat]
      BY <3>1, ClosingCounts
    <3>3. conn' \in [Conn -> ConnShape]
      BY <1>0, <2>4, ClosedShape DEF Close
    <3>4. sent' \in [Conn -> [SubId -> SUBSET Event]]
      BY <1>0, <3>1 DEF CloseHandler, Nothing
    <3> QED
      BY <1>0, <2>4, <3>2, <3>3, <3>4 DEF Close
  <2>5. CASE Vanish(c)
    <3>1. /\ conn' \in [Conn -> ConnShape]
          /\ \A k \in Conn : conn'[k].open = conn[k].open /\ conn'[k].ip = conn[k].ip
      BY <1>0, <2>5 DEF Vanish, ConnShape
    <3> QED
      BY <1>0, <2>5, <3>1, CountsStay DEF Vanish
  <2>6. CASE Pong(c)
    <3>1. /\ conn' \in [Conn -> ConnShape]
          /\ \A k \in Conn : conn'[k].open = conn[k].open /\ conn'[k].ip = conn[k].ip
      BY <1>0, <2>6 DEF Pong, ConnShape
    <3> QED
      BY <1>0, <2>6, <3>1, CountsStay DEF Pong
  <2> QED
    BY <1>6, <2>1, <2>2, <2>3, <2>4, <2>5, <2>6 DEF ClientStep
<1>7. CASE UNCHANGED vars
  BY <1>0, <1>7, CountsStay DEF vars
<1> QED
  BY <1>1, <1>2, <1>3, <1>4, <1>5, <1>6, <1>7 DEF Next, EventStep

(* Every variable of the relay keeps its type: no count of an address falls       *)
(* below zero, no event is malformed, whatever sockets do.                     *)
THEOREM TypeCorrect == Spec => []TypeOK
<1>1. Counted => TypeOK
  BY DEF Counted
<1> QED
  BY <1>1, InitCounted, StepCounted, PTL DEF Spec

(* The counts of connections are exact, through any refusals, closes and reaping. *)
THEOREM CountersStayExact == Spec => []CountersExact
<1>1. Counted => CountersExact
  BY DEF Counted
<1> QED
  BY <1>1, InitCounted, StepCounted, PTL DEF Spec

-----------------------------------------------------------------------------
(* The gate and the subscriptions                                             *)

Served == Counted /\ GateIsClamped /\ SignalsGoToTarget /\ SubscribersUpToDate

(* The gate moves up only in an add(), which clamps it.                         *)
LEMMA GateStep == Counted /\ GateIsClamped /\ [Next]_vars => GateIsClamped'
<1> SUFFICES ASSUME Counted, GateIsClamped, [Next]_vars PROVE GateIsClamped'
  OBVIOUS
<1>0. /\ now \in Nat /\ store \in StoreShape /\ verifying \subseteq Event
      /\ now' \in Nat /\ store' \in StoreShape /\ JoinTtl \in Nat
  BY StepCounted, CapsAssumption DEF Counted, TypeOK, StoreShape
<1>a. SUFFICES ASSUME NEW w \in Net, NEW n \in Node
      PROVE  store'.joins[w][n] <= now' + JoinTtl
  BY DEF GateIsClamped
<1>b. /\ store.joins[w][n] \in Nat /\ store'.joins[w][n] \in Nat
      /\ store.joins[w][n] <= now + JoinTtl
  BY <1>0 DEF StoreShape, GateIsClamped
<1>1. CASE Tick
  BY <1>0, <1>b, <1>1 DEF Tick
<1>2. ASSUME NEW e \in verifying, VerifyDone(e) PROVE store'.joins[w][n] <= now' + JoinTtl
  <2>1. CASE store' = store
    BY <1>b, <1>2, <2>1 DEF VerifyDone
  <2>2. ASSUME NEW r \in Add(store, e, now), store' = r.store
        PROVE  store'.joins[w][n] <= now' + JoinTtl
    <3>1. r.store.joins[w][n] <= store.joins[w][n] \/ r.store.joins[w][n] <= now + JoinTtl
      BY <1>0, AddShape
    <3> QED
      BY <1>0, <1>b, <1>2, <2>2, <3>1 DEF VerifyDone
  <2> QED
    BY <1>2, <2>1, <2>2 DEF VerifyDone
<1>3. CASE SweepStore
  <2>1. store'.joins[w][n] \in {0, store.joins[w][n]}
    BY <1>0, <1>3, SweepShape DEF SweepStore
  <2> QED
    BY <1>0, <1>b, <1>3, <2>1 DEF SweepStore
<1>4. CASE store' = store /\ now' = now
  BY <1>b, <1>4
<1>5. \/ Tick \/ SweepStore
      \/ \E e \in verifying : VerifyDone(e)
      \/ store' = store /\ now' = now
  BY DEF Next, EventStep, ClientStep, Receive, Reap, Open, Unsubscribe, Request, Close, Vanish, Pong, vars
<1> QED
  BY <1>1, <1>2, <1>3, <1>4, <1>5

(* What has been sent on a subscription is what it may see, and all of it.       *)
LEMMA SubscriptionStep == Served /\ [Next]_vars => SignalsGoToTarget' /\ SubscribersUpToDate'
<1> SUFFICES ASSUME Served, [Next]_vars PROVE SignalsGoToTarget' /\ SubscribersUpToDate'
  OBVIOUS
<1>0. /\ now \in Nat /\ store \in StoreShape /\ verifying \subseteq Event
      /\ conn \in [Conn -> ConnShape] /\ sent \in [Conn -> [SubId -> SUBSET Event]]
  BY DEF Served, Counted, TypeOK, StoreShape, ConnShape, SubMap
<1>a. ASSUME NEW c \in Conn PROVE Subs(c) \subseteq SubId
  BY <1>0, SubMapShape DEF Subs, ConnShape
<1> DEFINE Good(c, i) ==
      /\ \A e \in sent[c][i] : e.type = "SIGNAL" => e.target = conn[c].subs[i].target
      /\ Query(store, conn[c].subs[i], now) \subseteq sent[c][i]
<1>b. ASSUME NEW c \in Conn, NEW i \in Subs(c) PROVE Good(c, i)
  BY DEF Served, SignalsGoToTarget, SubscribersUpToDate
<1>c. SUFFICES ASSUME NEW c \in Conn, NEW i \in DOMAIN conn'[c].subs
      PROVE  Good(c, i)'
  BY DEF SignalsGoToTarget, SubscribersUpToDate, Subs
(* Steps that leave the socket and what it was sent alone.                       *)
<1>1. ASSUME conn'[c].subs = conn[c].subs, sent'[c][i] = sent[c][i],
             store'.events \subseteq store.events, now' \in Nat, now <= now'
      PROVE  Good(c, i)'
  <2>1. i \in Subs(c)
    BY <1>1 DEF Subs
  <2>2. Query(store, conn[c].subs[i], now)' \subseteq Query(store, conn[c].subs[i], now)
    BY <1>0, <1>1 DEF Query, Matches, StoreShape, Event
  <2> QED
    BY <1>1, <1>b, <2>1, <2>2
<1>2. CASE Tick
  BY <1>0, <1>1, <1>2 DEF Tick
<1>3. CASE SweepStore
  BY <1>0, <1>1, <1>3, SweepShape DEF SweepStore
<1>4. ASSUME NEW e \in Published \cup received, Receive(e) PROVE Good(c, i)'
  BY <1>0, <1>1, <1>4 DEF Receive
<1>5. ASSUME NEW e \in verifying, VerifyDone(e) PROVE Good(c, i)'
  <2>1. CASE store' = store /\ sent' = sent
    BY <1>0, <1>1, <1>5, <2>1 DEF VerifyDone
  <2>2. ASSUME NEW r \in Add(store, e, now), store' = r.store,
               sent'[c][i] = IF r.added /\ i \in Subs(c) /\ Matches(e, conn[c].subs[i], now)
                             THEN sent[c][i] \cup {e} ELSE sent[c][i]
        PROVE  Good(c, i)'
    <3>1. r.store.events \subseteq store.events \cup IF r.added THEN {e} ELSE {}
      BY <1>0, AddShape
    <3>2. i \in Subs(c) /\ conn' = conn /\ now' = now
      BY <1>5 DEF VerifyDone, Subs
    <3>3. Query(store, conn[c].subs[i], now)' \subseteq sent'[c][i]
      BY <1>b, <2>2, <3>1, <3>2 DEF Query
    <3>4. \A d \in sent'[c][i] : d.type = "SIGNAL" => d.target = conn[c].subs[i].target
      BY <1>b, <2>2, <3>2 DEF Matches
    <3> QED
      BY <3>2, <3>3, <3>4
  <2>3. i \in SubId
    BY <1>5, <1>a DEF VerifyDone, Subs
  <2> QED
    BY <1>5, <2>1, <2>2, <2>3 DEF VerifyDone
<1>6. ASSUME conn'[c] = Closed PROVE Good(c, i)'
  BY <1>6, ClosedShape
<1>7. CASE Reap
  <2>1. CASE conn'[c].subs = conn[c].subs /\ sent'[c] = sent[c]
    BY <1>0, <1>1, <1>7, <2>1 DEF Reap
  <2> QED
    BY <1>0, <1>6, <1>7, <2>1 DEF Reap, CloseHandler, ConnShape
<1>8. ASSUME NEW k \in Conn, ClientStep(k) PROVE Good(c, i)'
  <2>0. now' = now /\ store' = store
    BY <1>8 DEF ClientStep, Open, Unsubscribe, Request, Close, Vanish, Pong
  <2>1. CASE conn'[c].subs = conn[c].subs /\ sent'[c][i] = sent[c][i]
    BY <1>0, <1>1, <2>0, <2>1
  <2>2. ASSUME NEW ip \in Ip, Open(k, ip) PROVE Good(c, i)'
    BY <1>0, <2>1, <2>2, ClosedShape DEF Open, ConnShape
  <2>3. ASSUME NEW j \in SubId, Unsubscribe(k, j) PROVE Good(c, i)'
    <3>1. CASE k # c
      BY <1>0, <2>1, <2>3, <3>1 DEF Unsubscribe
    <3>2. CASE k = c
      <4>1. conn'[c].subs = [x \in DOMAIN conn[c].subs \ {j} |-> conn[c].subs[x]]
        BY <1>0, <2>3, <3>2 DEF Unsubscribe, ConnShape
      <4>2. i \in Subs(c) /\ i # j /\ conn'[c].subs[i] = conn[c].subs[i] /\ i \in SubId
        BY <1>a, <4>1 DEF Subs
      <4>3. sent'[c][i] = sent[c][i]
        BY <1>0, <2>3, <3>2, <4>2 DEF Unsubscribe
      <4> QED
        BY <1>b, <2>0, <4>2, <4>3
    <3> QED
      BY <3>1, <3>2
  <2>4. ASSUME NEW j \in SubId, NEW f \in Filters, Request(k, j, f) PROVE Good(c, i)'
    <3>1. CASE k # c
      BY <1>0, <2>1, <2>4, <3>1 DEF Request
    <3>2. CASE k = c
      <4>1. conn'[c].subs = [x \in DOMAIN conn[c].subs \cup {j} |-> IF x = j THEN f ELSE conn[c].subs[x]]
        BY <1>0, <2>4, <3>2 DEF Request, ConnShape
      <4>2. CASE i = j
        <5>1. conn'[c].subs[i] = f /\ sent'[c][i] = Query(store, f, now)
          BY <1>0, <2>4, <3>2, <4>1, <4>2 DEF Request
        <5> QED
          BY <2>0, <5>1 DEF Query, Matches
      <4>3. CASE i # j
        <5>1. i \in Subs(c) /\ conn'[c].subs[i] = conn[c].subs[i] /\ i \in SubId
          BY <1>a, <4>1, <4>3 DEF Subs
        <5>2. sent'[c][i] = sent[c][i]
          BY <1>0, <2>4, <3>2, <4>3, <5>1 DEF Request
        <5> QED
          BY <1>b, <2>0, <5>1, <5>2
      <4> QED
        BY <4>2, <4>3
    <3> QED
      BY <3>1, <3>2
  <2>5. CASE Close(k)
    BY <1>0, <1>6, <2>1, <2>5 DEF Close, CloseHandler
  <2>6. CASE Vanish(k) \/ Pong(k)
    BY <1>0, <2>1, <2>6 DEF Vanish, Pong, ConnShape
  <2> QED
    BY <1>8, <2>2, <2>3, <2>4, <2>5, <2>6 DEF ClientStep
<1>9. CASE UNCHANGED vars
  BY <1>0, <1>1, <1>9 DEF vars
<1> QED
  BY <1>2, <1>3, <1>4, <1>5, <1>7, <1>8, <1>9 DEF Next, EventStep

LEMMA InitServed == Init => Served
<1> SUFFICES ASSUME Init PROVE Served
  OBVIOUS
<1>1. \A c \in Conn : Subs(c) = {}
  BY ClosedShape DEF Init, Subs
<1>2. GateIsClamped
  BY CapsAssumption DEF Init, EmptyStore, GateIsClamped
<1> QED
  BY <1>1, <1>2, InitCounted DEF Served, SignalsGoToTarget, SubscribersUpToDate

LEMMA StepServed == Served /\ [Next]_vars => Served'
BY StepCounted, GateStep, SubscriptionStep DEF Served

(* The gate is open to a node for at most JoinTtl after its JOIN, whatever it     *)
(* declares.                                                                  *)
THEOREM GateStaysClamped == Spec => []GateIsClamped
<1>1. Served => GateIsClamped
  BY DEF Served
<1> QED
  BY <1>1, InitServed, StepServed, PTL DEF Spec

(* A SIGNAL reaches its target alone.                                           *)
THEOREM SignalsStayPrivate == Spec => []SignalsGoToTarget
<1>1. Served => SignalsGoToTarget
  BY DEF Served
<1> QED
  BY <1>1, InitServed, StepServed, PTL DEF Spec

(* Every subscriber has been sent all that is stored and that it may see, however  *)
(* verifications, evictions and subscriptions interleave.                      *)
THEOREM SubscribersStayUpToDate == Spec => []SubscribersUpToDate
<1>1. Served => SubscribersUpToDate
  BY DEF Served
<1> QED
  BY <1>1, InitServed, StepServed, PTL DEF Spec

-----------------------------------------------------------------------------
(* The caps of the store                                                      *)

(* What StoreBounded says of one bucket.                                       *)
BucketWithin(B) ==
  /\ IsFiniteSet(B)
  /\ Cardinality(B) <= MaxEvents
  /\ \A n \in Node :
       /\ Cardinality({e \in Of(B, n) : e.type \in Multi}) <= MaxSignals
       /\ \A d, e \in Of(B, n) : d.type = e.type /\ d.type \notin Multi => d = e

NetsWithin(nets) == IsFiniteSet(nets) /\ Cardinality(nets) <= MaxNetworks

Within(s) ==
  /\ NetsWithin(s.nets)
  /\ \A w \in Net : /\ BucketWithin(Bucket(s, w))
                    /\ Bucket(s, w) # {} => w \in s.nets

(* A part of a set is no larger.                                               *)
LEMMA PartIsSmaller ==
  ASSUME NEW S, IsFiniteSet(S), NEW T, T \subseteq S, NEW k \in Nat, Cardinality(S) <= k
  PROVE  IsFiniteSet(T) /\ Cardinality(T) \in Nat /\ Cardinality(T) <= k
<1>1. IsFiniteSet(T) /\ Cardinality(T) <= Cardinality(S)
  BY FS_Subset
<1>2. Cardinality(T) \in Nat /\ Cardinality(S) \in Nat
  BY <1>1, FS_CardinalityType
<1> QED
  BY <1>1, <1>2

LEMMA BucketPart ==
  ASSUME NEW B, BucketWithin(B), NEW C, C \subseteq B
  PROVE  BucketWithin(C)
<1>1. IsFiniteSet(C) /\ Cardinality(C) <= MaxEvents
  BY PartIsSmaller, CapsAssumption DEF BucketWithin
<1>2. ASSUME NEW n \in Node
      PROVE  /\ Cardinality({e \in Of(C, n) : e.type \in Multi}) <= MaxSignals
             /\ \A d, e \in Of(C, n) : d.type = e.type /\ d.type \notin Multi => d = e
  <2>1. Of(C, n) \subseteq Of(B, n) /\ Of(B, n) \subseteq B
    BY DEF Of
  <2>2. IsFiniteSet({e \in Of(B, n) : e.type \in Multi})
    BY <2>1, FS_Subset DEF BucketWithin
  <2>3. {e \in Of(C, n) : e.type \in Multi} \subseteq {e \in Of(B, n) : e.type \in Multi}
    BY <2>1
  <2>4. Cardinality({e \in Of(B, n) : e.type \in Multi}) <= MaxSignals
    BY DEF BucketWithin
  <2>5. Cardinality({e \in Of(C, n) : e.type \in Multi}) <= MaxSignals
    BY <2>2, <2>3, <2>4, PartIsSmaller, CapsAssumption
  <2> QED
    BY <2>1, <2>5 DEF BucketWithin
<1> QED
  BY <1>1, <1>2 DEF BucketWithin

(* The bucket made for a network replaces one, if need be.                      *)
LEMMA WithBucketWithin ==
  ASSUME NEW s \in StoreShape, Within(s), NEW w \in Net, NEW t \in WithBucket(s, w)
  PROVE  /\ Within(t)
         /\ w \in t.nets
         /\ \/ t.nets = s.nets \cup {w} /\ t.events = s.events
            \/ \E cold \in s.nets : /\ cold # w
                                    /\ t.nets = (s.nets \ {cold}) \cup {w}
                                    /\ t.events = s.events \ Bucket(s, cold)
                                    /\ \A x \in s.nets : s.activity[cold] <= s.activity[x]
<1>0. s.nets \subseteq Net /\ IsFiniteSet(s.nets) /\ Cardinality(s.nets) <= MaxNetworks
      /\ Cardinality(s.nets) \in Nat /\ MaxNetworks \in Nat \ {0}
  BY FS_CardinalityType, CapsAssumption DEF StoreShape, Within, NetsWithin
<1>1. ASSUME t.nets = s.nets \cup {w}, t.events = s.events,
             w \in s.nets \/ Cardinality(s.nets) < MaxNetworks
      PROVE  Within(t)
  <2>1. /\ IsFiniteSet(s.nets \cup {w})
        /\ Cardinality(s.nets \cup {w})
             = IF w \in s.nets THEN Cardinality(s.nets) ELSE Cardinality(s.nets) + 1
    BY <1>0, FS_AddElement
  <2>2. NetsWithin(t.nets)
    BY <1>0, <1>1, <2>1 DEF NetsWithin
  <2> QED
    BY <1>1, <2>2 DEF Within, Bucket
<1>2. CASE w \in s.nets \/ Cardinality(s.nets) < MaxNetworks
  <2>1. t.nets = s.nets \cup {w} /\ t.events = s.events
    BY <1>2 DEF WithBucket, StoreShape
  <2> QED
    BY <1>1, <1>2, <2>1
<1>3. CASE ~(w \in s.nets \/ Cardinality(s.nets) < MaxNetworks)
  <2>1. PICK cold \in s.nets :
          /\ \A x \in s.nets : s.activity[cold] <= s.activity[x]
          /\ t = [nets |-> (s.nets \ {cold}) \cup {w},
                  events |-> s.events \ Bucket(s, cold),
                  joins |-> [s.joins EXCEPT ![cold] = [n \in Node |-> 0]],
                  activity |-> [s.activity EXCEPT ![cold] = 0]]
    BY <1>3 DEF WithBucket, Least
  <2>2. cold # w /\ t.nets = (s.nets \ {cold}) \cup {w} /\ t.events = s.events \ Bucket(s, cold)
    BY <1>3, <2>1
  <2>3. NetsWithin(t.nets)
    <3>1. IsFiniteSet(s.nets \ {cold}) /\ Cardinality(s.nets \ {cold}) = Cardinality(s.nets) - 1
      BY <1>0, FS_RemoveElement
    <3>2. w \notin s.nets \ {cold}
      BY <1>3
    <3>3. /\ IsFiniteSet((s.nets \ {cold}) \cup {w})
          /\ Cardinality((s.nets \ {cold}) \cup {w}) = Cardinality(s.nets \ {cold}) + 1
      BY <3>1, <3>2, FS_AddElement
    <3> QED
      BY <1>0, <2>2, <3>1, <3>3 DEF NetsWithin
  <2>4. ASSUME NEW x \in Net
        PROVE  BucketWithin(Bucket(t, x)) /\ (Bucket(t, x) # {} => x \in t.nets)
    <3>1. Bucket(t, x) \subseteq Bucket(s, x) /\ (x = cold => Bucket(t, x) = {})
      BY <2>2 DEF Bucket
    <3>2. BucketWithin(Bucket(t, x))
      BY <3>1, BucketPart DEF Within
    <3> QED
      BY <2>2, <3>1, <3>2 DEF Within
  <2>5. Within(t)
    BY <2>3, <2>4 DEF Within
  <2> QED
    BY <2>1, <2>2, <2>5
<1> QED
  BY <1>2, <1>3

LEMMA IndexedSame ==
  ASSUME NEW s \in StoreShape, NEW e \in Event, NEW time \in Nat, NEW t \in Indexed(s, e, time)
  PROVE  t.nets = s.nets /\ t.events = s.events
BY DEF Indexed, StoreShape

(* What Outcomes takes out of the bucket for being superseded, and what is left.  *)
Old(s, e) == {d \in Bucket(s, e.net) : d.node = e.node /\ d.type = e.type /\ e.type \notin Multi}

Kept(s, e) == Bucket(s, e.net) \ Old(s, e)

Signals(B, n) == {d \in Of(B, n) : d.type \in Multi}

(* The node has no room left for an event of that type.                         *)
NodeIsFull(s, e) ==
  IF e.type \in Multi
  THEN Cardinality(Signals(Kept(s, e), e.node)) >= MaxSignals
  ELSE Cardinality(Of(Kept(s, e), e.node) \ Signals(Kept(s, e), e.node)) >= MaxPerNode

Victims(s, e) ==
  IF Cardinality(Kept(s, e)) >= MaxEvents THEN {{v} : v \in EvictOldest(Kept(s, e))} ELSE {{}}

LEMMA OutcomeCases ==
  ASSUME NEW s \in StoreShape, NEW e \in Event, NEW r \in Outcomes(s, e)
  PROVE  \/ r.store = s
         \/ /\ e \notin s.events /\ NodeIsFull(s, e)
            /\ r.store = [s EXCEPT !.events = s.events \ Old(s, e)]
         \/ /\ e \notin s.events /\ ~NodeIsFull(s, e)
            /\ \E victims \in Victims(s, e) :
                 r.store = [s EXCEPT !.events = ((s.events \ Old(s, e)) \ victims) \cup {e}]
<1>1. CASE e \in s.events
  BY <1>1 DEF Outcomes
<1>2. CASE e \notin s.events /\ NodeIsFull(s, e)
  <2>1. r = [store |-> [s EXCEPT !.events = @ \ Old(s, e)], added |-> FALSE]
    BY <1>2 DEF Outcomes, NodeIsFull, Old, Kept, Signals
  <2> QED
    BY <1>2, <2>1 DEF StoreShape
<1>3. CASE e \notin s.events /\ ~NodeIsFull(s, e)
  <2>1. r \in {[store |-> [s EXCEPT !.events = ((@ \ Old(s, e)) \ victims) \cup {e}], added |-> TRUE] :
                 victims \in Victims(s, e)}
    BY <1>3 DEF Outcomes, NodeIsFull, Old, Kept, Signals, Victims
  <2>2. PICK victims \in Victims(s, e) :
          r = [store |-> [s EXCEPT !.events = ((@ \ Old(s, e)) \ victims) \cup {e}], added |-> TRUE]
    BY <2>1
  <2>3. r.store = [s EXCEPT !.events = ((s.events \ Old(s, e)) \ victims) \cup {e}]
    BY <2>2 DEF StoreShape
  <2> QED
    BY <1>3, <2>3
<1> QED
  BY <1>1, <1>2, <1>3

(* The bucket of a network after e has come in.                                 *)
LEMMA BucketGains ==
  ASSUME NEW s \in StoreShape, Within(s), NEW e \in Event, ~NodeIsFull(s, e),
         NEW victims \in Victims(s, e)
  PROVE  BucketWithin((Kept(s, e) \ victims) \cup {e})
<1> DEFINE K == Kept(s, e)
           B == (K \ victims) \cup {e}
<1>0. K \subseteq Bucket(s, e.net) /\ BucketWithin(K) /\ e.net \in Net /\ e.node \in Node
  BY BucketPart DEF Kept, Within, Event
<1>1. IsFiniteSet(K) /\ Cardinality(K) \in Nat /\ Cardinality(K) <= MaxEvents /\ MaxEvents \in Nat
  BY <1>0, FS_CardinalityType, CapsAssumption DEF BucketWithin
<1>2. IsFiniteSet(K \ victims) /\ Cardinality(K \ victims) + 1 <= MaxEvents
      /\ Cardinality(K \ victims) \in Nat
  <2>1. CASE Cardinality(K) >= MaxEvents
    <3>1. PICK v \in EvictOldest(K) : victims = {v}
      BY <2>1 DEF Victims
    <3>2. v \in K
      BY <3>1 DEF EvictOldest, Least, Of
    <3>3. IsFiniteSet(K \ {v}) /\ Cardinality(K \ {v}) = Cardinality(K) - 1
      BY <1>1, <3>2, FS_RemoveElement
    <3>4. Cardinality(K \ {v}) \in Nat
      BY <3>3, FS_CardinalityType
    <3> QED
      BY <1>1, <3>1, <3>3, <3>4
  <2>2. CASE ~(Cardinality(K) >= MaxEvents)
    <3>1. victims = {} /\ K \ victims = K
      BY <2>2 DEF Victims
    <3> QED
      BY <1>1, <2>2, <3>1
  <2> QED
    BY <2>1, <2>2
<1> HIDE DEF K
<1>3. IsFiniteSet(B) /\ Cardinality(B) <= MaxEvents
  <2>1. /\ IsFiniteSet((K \ victims) \cup {e})
        /\ \/ Cardinality((K \ victims) \cup {e}) = Cardinality(K \ victims)
           \/ Cardinality((K \ victims) \cup {e}) = Cardinality(K \ victims) + 1
    BY <1>2, FS_AddElement
  <2> QED
    BY <1>1, <1>2, <2>1
<1>4. ASSUME NEW n \in Node PROVE Cardinality(Signals(B, n)) <= MaxSignals
  <2>1. IsFiniteSet(Signals(K, n)) /\ Cardinality(Signals(K, n)) \in Nat
        /\ Cardinality(Signals(K, n)) <= MaxSignals /\ MaxSignals \in Nat
    <3>1. Signals(K, n) \subseteq K
      BY DEF Signals, Of
    <3> QED
      BY <1>0, <1>1, <3>1, FS_Subset, FS_CardinalityType, CapsAssumption DEF BucketWithin, Signals
  <2>2. CASE n = e.node /\ e.type \in Multi
    <3>1. Cardinality(Signals(K, n)) + 1 <= MaxSignals
      BY <2>1, <2>2 DEF NodeIsFull, K
    <3>2. Signals(B, n) \subseteq Signals(K, n) \cup {e}
      BY DEF Signals, Of
    <3>3. /\ IsFiniteSet(Signals(K, n) \cup {e})
          /\ \/ Cardinality(Signals(K, n) \cup {e}) = Cardinality(Signals(K, n))
             \/ Cardinality(Signals(K, n) \cup {e}) = Cardinality(Signals(K, n)) + 1
      BY <2>1, FS_AddElement
    <3>4. Cardinality(Signals(K, n) \cup {e}) <= MaxSignals
      BY <2>1, <3>1, <3>3
    <3> QED
      BY <2>1, <3>2, <3>3, <3>4, PartIsSmaller
  <2>3. CASE ~(n = e.node /\ e.type \in Multi)
    <3>1. Signals(B, n) \subseteq Signals(K, n)
      BY <2>3 DEF Signals, Of
    <3> QED
      BY <2>1, <3>1, PartIsSmaller
  <2> QED
    BY <2>2, <2>3
<1>5. ASSUME NEW n \in Node, NEW d \in Of(B, n), NEW f \in Of(B, n), d.type = f.type, d.type \notin Multi
      PROVE  d = f
  <2>1. \A g \in K : ~(g.node = e.node /\ g.type = e.type /\ e.type \notin Multi)
    BY DEF K, Kept, Old
  <2>2. \A x, y \in Of(K, n) : x.type = y.type /\ x.type \notin Multi => x = y
    BY <1>0 DEF BucketWithin
  <2> QED
    BY <1>5, <2>1, <2>2 DEF Of
<1> HIDE DEF B
<1>6. BucketWithin(B)
  BY <1>3, <1>4, <1>5 DEF BucketWithin, Signals
<1> QED
  BY <1>6 DEF B, K

LEMMA OutcomesWithin ==
  ASSUME NEW s \in StoreShape, Within(s), NEW e \in Event, e.net \in s.nets, NEW r \in Outcomes(s, e)
  PROVE  Within(r.store) /\ r.store.nets = s.nets
<1>1. ASSUME NEW S \in SUBSET s.events, r.store = [s EXCEPT !.events = S]
      PROVE  Within(r.store) /\ r.store.nets = s.nets
  <2>1. r.store.nets = s.nets /\ \A w \in Net : Bucket(r.store, w) \subseteq Bucket(s, w)
    BY <1>1 DEF Bucket, StoreShape
  <2> QED
    BY <2>1, BucketPart DEF Within
<1>2. CASE r.store = s
  BY <1>2
<1>3. CASE r.store = [s EXCEPT !.events = s.events \ Old(s, e)]
  BY <1>1, <1>3
<1>4. ASSUME ~NodeIsFull(s, e), NEW victims \in Victims(s, e),
             r.store = [s EXCEPT !.events = ((s.events \ Old(s, e)) \ victims) \cup {e}]
      PROVE  Within(r.store) /\ r.store.nets = s.nets
  <2>1. r.store.nets = s.nets /\ r.store.events = ((s.events \ Old(s, e)) \ victims) \cup {e}
    BY <1>4 DEF StoreShape
  <2>2. ASSUME NEW w \in Net
        PROVE  BucketWithin(Bucket(r.store, w)) /\ (Bucket(r.store, w) # {} => w \in s.nets)
    <3>1. CASE w = e.net
      <4>1. Bucket(r.store, w) = (Kept(s, e) \ victims) \cup {e}
        BY <2>1, <3>1 DEF Bucket, Kept, Old
      <4> QED
        BY <1>4, <3>1, <4>1, BucketGains
    <3>2. CASE w # e.net
      <4>1. Bucket(r.store, w) \subseteq Bucket(s, w)
        BY <2>1, <3>2 DEF Bucket
      <4> QED
        BY <4>1, BucketPart DEF Within
    <3> QED
      BY <3>1, <3>2
  <2> QED
    BY <2>1, <2>2 DEF Within
<1> QED
  BY <1>2, <1>3, <1>4, OutcomeCases

(* add() as its three steps.                                                   *)
LEMMA AddSteps ==
  ASSUME NEW s \in StoreShape, Within(s), NEW e \in Event, NEW time \in Nat, NEW r \in Add(s, e, time)
  PROVE  \E b \in WithBucket(s, e.net) : \E t \in StoreShape :
           t.nets = b.nets /\ t.events = b.events /\ Within(t) /\ r \in Outcomes(t, e)
<1>0. e.net \in Net
  BY DEF Event
<1> DEFINE Ready(b) == Indexed([b EXCEPT !.activity[e.net] = time], e, time)
           All(b) == UNION {Outcomes(t, e) : t \in Ready(b)}
<1>1. r \in UNION {All(b) : b \in WithBucket(s, e.net)}
  BY DEF Add
<1> HIDE DEF All
<1>2. PICK b \in WithBucket(s, e.net) : r \in All(b)
  BY <1>1
<1> HIDE DEF Ready
<1>3. PICK t \in Ready(b) : r \in Outcomes(t, e)
  BY <1>2 DEF All
<1> DEFINE touched == [b EXCEPT !.activity[e.net] = time]
<1>4. b \in StoreShape /\ Within(b)
  BY <1>0, WithBucketShape, WithBucketWithin
<1>5. touched \in StoreShape /\ touched.events = b.events /\ touched.nets = b.nets
  BY <1>0, <1>4 DEF StoreShape
<1>6. t \in Indexed(touched, e, time)
  BY <1>3 DEF Ready
<1> HIDE DEF touched
<1>7. t \in StoreShape /\ t.events = b.events /\ t.nets = b.nets
  BY <1>5, <1>6, IndexedShape, IndexedSame
<1>8. Within(t)
  BY <1>4, <1>7 DEF Within, Bucket
<1> QED
  BY <1>3, <1>7, <1>8

LEMMA AddWithin ==
  ASSUME NEW s \in StoreShape, Within(s), NEW e \in Event, NEW time \in Nat, NEW r \in Add(s, e, time)
  PROVE  Within(r.store)
<1>1. PICK b \in WithBucket(s, e.net) : \E t \in StoreShape :
        t.nets = b.nets /\ t.events = b.events /\ Within(t) /\ r \in Outcomes(t, e)
  BY AddSteps
<1>2. PICK t \in StoreShape : t.nets = b.nets /\ t.events = b.events /\ Within(t) /\ r \in Outcomes(t, e)
  BY <1>1
<1>3. e.net \in b.nets
  BY WithBucketWithin DEF Event
<1> QED
  BY <1>2, <1>3, OutcomesWithin

LEMMA SweepWithin ==
  ASSUME NEW s \in StoreShape, Within(s), NEW time \in Nat
  PROVE  Within(Sweep(s, time))
<1> DEFINE t == Sweep(s, time)
           live == {e \in s.events : e.expires > time}
<1>1. t.events = live /\ t.nets = {w \in s.nets : \E e \in live : e.net = w}
  BY DEF Sweep
<1> HIDE DEF t
<1>2. NetsWithin(t.nets)
  <2>1. t.nets \subseteq s.nets
    BY <1>1
  <2> QED
    BY <2>1, PartIsSmaller, CapsAssumption DEF Within, NetsWithin
<1>3. ASSUME NEW w \in Net PROVE BucketWithin(Bucket(t, w)) /\ (Bucket(t, w) # {} => w \in t.nets)
  <2>1. Bucket(t, w) \subseteq Bucket(s, w)
    BY <1>1 DEF Bucket
  <2>2. Bucket(t, w) # {} => w \in t.nets
    <3> SUFFICES ASSUME NEW e \in Bucket(t, w) PROVE w \in t.nets
      OBVIOUS
    <3>1. e \in live /\ e.net = w /\ e \in Bucket(s, w)
      BY <1>1, <2>1 DEF Bucket
    <3> QED
      BY <1>1, <3>1 DEF Within
  <2> QED
    BY <2>1, <2>2, BucketPart DEF Within
<1> QED
  BY <1>2, <1>3 DEF Within, t

LEMMA InitWithin == Init => Within(store)
<1> SUFFICES ASSUME Init PROVE Within(store)
  OBVIOUS
<1>1. store.nets = {} /\ store.events = {}
  BY DEF Init, EmptyStore
<1>2. BucketWithin({})
  <2>1. \A n : Of({}, n) = {} /\ {e \in {} : e.type \in Multi} = {}
    BY DEF Of
  <2>2. IsFiniteSet({}) /\ Cardinality({}) = 0
    BY FS_EmptySet
  <2> QED
    BY <2>1, <2>2, CapsAssumption DEF BucketWithin
<1>3. \A w : Bucket(store, w) = {}
  BY <1>1 DEF Bucket
<1>4. NetsWithin({})
  BY FS_EmptySet, CapsAssumption DEF NetsWithin
<1> QED
  BY <1>1, <1>2, <1>3, <1>4 DEF Within

(* Only add() and sweep() touch the store.                                      *)
LEMMA StoreSteps ==
  ASSUME [Next]_vars
  PROVE  \/ store' = store
         \/ \E e \in verifying : VerifyDone(e)
         \/ SweepStore
BY DEF Next, EventStep, ClientStep, Tick, Receive, Reap, Open, Unsubscribe, Request, Close, Vanish, Pong, vars

LEMMA StepWithin == Counted /\ Within(store) /\ [Next]_vars => Within(store')
<1> SUFFICES ASSUME Counted, Within(store), [Next]_vars PROVE Within(store')
  OBVIOUS
<1>0. now \in Nat /\ store \in StoreShape /\ verifying \subseteq Event
  BY DEF Counted, TypeOK, StoreShape
<1>1. CASE store' = store
  BY <1>1
<1>2. ASSUME NEW e \in verifying, VerifyDone(e) PROVE Within(store')
  <2>1. store' = store \/ \E r \in Add(store, e, now) : store' = r.store
    BY <1>2 DEF VerifyDone
  <2> QED
    BY <1>0, <2>1, AddWithin
<1>3. CASE SweepStore
  BY <1>0, <1>3, SweepWithin DEF SweepStore
<1> QED
  BY <1>1, <1>2, <1>3, StoreSteps

(* The store never exceeds a cap, always has a bucket for what it holds, and     *)
(* holds one event per node and superseding type, however events interleave.   *)
THEOREM StoreStaysBounded == Spec => []StoreBounded
<1>1. Within(store) => StoreBounded
  BY DEF Within, NetsWithin, BucketWithin, StoreBounded
<1>2. Counted /\ Within(store) /\ [Next]_vars => Within(store)'
  BY StepWithin
<1> QED
  BY <1>1, <1>2, InitCounted, StepCounted, InitWithin, PTL DEF Spec

-----------------------------------------------------------------------------
(* Who has to go                                                              *)

(* The cap of a node leaves room for an event of each superseding type, so that   *)
(* a new one that replaces an old one is never refused after the old one went. *)
RoomForTypes == IsFiniteSet(Type) /\ Cardinality(Type \ Multi) <= MaxPerNode

LEMMA ReplacementHasRoom ==
  ASSUME RoomForTypes, NEW s \in StoreShape, Within(s), NEW e \in Event, Old(s, e) # {}
  PROVE  ~NodeIsFull(s, e)
<1> DEFINE M == Of(Kept(s, e), e.node) \ Signals(Kept(s, e), e.node)
           others == (Type \ Multi) \ {e.type}
           f == [d \in M |-> d.type]
<1>1. e.type \in Type \ Multi /\ e.node \in Node /\ e.net \in Net
  BY DEF Old, Event
<1>2. \A d \in M : /\ d \in Bucket(s, e.net) /\ d.node = e.node
                   /\ d.type \in others
  BY DEF Kept, Old, Signals, Of, Bucket, StoreShape, Event
<1>3. ASSUME NEW c \in M, NEW d \in M, c.type = d.type PROVE c = d
  <2>1. c \in Of(Bucket(s, e.net), e.node) /\ d \in Of(Bucket(s, e.net), e.node) /\ c.type \notin Multi
    BY <1>2 DEF Of
  <2>2. BucketWithin(Bucket(s, e.net))
    BY <1>1 DEF Within
  <2> QED
    BY <1>1, <1>3, <2>1, <2>2 DEF BucketWithin
<1> HIDE DEF M
<1>4. f \in Injection(M, others)
  BY <1>2, <1>3 DEF Injection, IsInjective
<1>5. /\ IsFiniteSet(Type \ Multi) /\ Cardinality(Type \ Multi) \in Nat
      /\ IsFiniteSet(others) /\ Cardinality(others) = Cardinality(Type \ Multi) - 1
      /\ Cardinality(others) \in Nat
  <2>1. IsFiniteSet(Type \ Multi)
    BY FS_Difference DEF RoomForTypes
  <2>2. IsFiniteSet(others) /\ Cardinality(others) = Cardinality(Type \ Multi) - 1
    BY <1>1, <2>1, FS_RemoveElement
  <2> QED
    BY <2>1, <2>2, FS_CardinalityType
<1>6. Cardinality(M) <= Cardinality(others) /\ IsFiniteSet(M)
  BY <1>4, <1>5, FS_Injection
<1>7. Cardinality(M) \in Nat
  BY <1>6, FS_CardinalityType
<1>8. Cardinality(M) < MaxPerNode
  BY <1>5, <1>6, <1>7, CapsAssumption DEF RoomForTypes
<1> QED
  BY <1>1, <1>7, <1>8, CapsAssumption DEF NodeIsFull, M

(* At capacity nothing was superseded, and the victim is of a node with the most. *)
LEMMA VictimIsOfHeaviest ==
  ASSUME NEW s \in StoreShape, Within(s), NEW e \in Event,
         NEW victims \in Victims(s, e), NEW v \in victims
  PROVE  /\ v \in Bucket(s, e.net)
         /\ \A n \in Node : Cardinality(Of(Bucket(s, e.net), n)) <= Cardinality(Of(Bucket(s, e.net), v.node))
<1> DEFINE B == Bucket(s, e.net)
<1>0. IsFiniteSet(B) /\ Cardinality(B) \in Nat /\ Cardinality(B) <= MaxEvents /\ MaxEvents \in Nat
  BY FS_CardinalityType, CapsAssumption DEF Within, BucketWithin, Event
<1>1. Cardinality(Kept(s, e)) >= MaxEvents /\ v \in EvictOldest(Kept(s, e))
  BY DEF Victims
<1>2. Kept(s, e) = B
  <2>1. Kept(s, e) \subseteq B
    BY DEF Kept
  <2>2. IsFiniteSet(Kept(s, e)) /\ Cardinality(Kept(s, e)) <= Cardinality(B)
    BY <1>0, <2>1, FS_Subset
  <2>3. Cardinality(Kept(s, e)) \in Nat
    BY <2>2, FS_CardinalityType
  <2>4. Cardinality(Kept(s, e)) = Cardinality(B)
    BY <1>0, <1>1, <2>2, <2>3
  <2> QED
    BY <1>0, <2>1, <2>4, FS_Subset
<1> HIDE DEF B
<1>3. PICK n \in {d.node : d \in B} :
        /\ v \in Of(B, n)
        /\ \A k \in {d.node : d \in B} : -Cardinality(Of(B, n)) <= -Cardinality(Of(B, k))
  BY <1>1, <1>2 DEF EvictOldest, Least
<1>4. ASSUME NEW k \in Node PROVE Cardinality(Of(B, k)) <= Cardinality(Of(B, n))
  <2>1. \A x : IsFiniteSet(Of(B, x)) /\ Cardinality(Of(B, x)) \in Nat
    <3> TAKE x
    <3>1. Of(B, x) \subseteq B
      BY DEF Of
    <3> QED
      BY <1>0, <3>1, PartIsSmaller DEF B
  <2>2. CASE k \in {d.node : d \in B}
    <3>1. -Cardinality(Of(B, n)) <= -Cardinality(Of(B, k))
      BY <1>3, <2>2
    <3>2. Cardinality(Of(B, n)) \in Nat /\ Cardinality(Of(B, k)) \in Nat
      BY <2>1
    <3> QED
      BY <3>1, <3>2
  <2>3. CASE k \notin {d.node : d \in B}
    <3>1. Of(B, k) = {}
      BY <2>3 DEF Of
    <3>2. Cardinality(Of(B, k)) = 0
      BY <3>1, FS_EmptySet
    <3> QED
      BY <2>1, <3>2
  <2> QED
    BY <2>2, <2>3
<1>5. v \in B /\ v.node = n
  BY <1>3 DEF Of
<1> QED
  BY <1>4, <1>5 DEF B

(* What add() takes out of the bucket.                                          *)
LEMMA OutcomesFair ==
  ASSUME RoomForTypes, NEW s \in StoreShape, Within(s), NEW e \in Event,
         NEW r \in Outcomes(s, e), NEW x \in s.events \ r.store.events
  PROVE  /\ x.net = e.net
         /\ \/ /\ e \in r.store.events \ s.events
               /\ x.node = e.node /\ x.type = e.type /\ x.type \notin Multi
            \/ \A n \in Node : Cardinality(Of(Bucket(s, e.net), n))
                                 <= Cardinality(Of(Bucket(s, e.net), x.node))
<1>1. CASE r.store = s
  BY <1>1
<1>2. CASE NodeIsFull(s, e) /\ r.store = [s EXCEPT !.events = s.events \ Old(s, e)]
  <2>1. x \in Old(s, e)
    BY <1>2 DEF StoreShape
  <2> QED
    BY <1>2, <2>1, ReplacementHasRoom
<1>3. ASSUME e \notin s.events, NEW victims \in Victims(s, e),
             r.store = [s EXCEPT !.events = ((s.events \ Old(s, e)) \ victims) \cup {e}]
      PROVE  /\ x.net = e.net
             /\ \/ /\ e \in r.store.events \ s.events
                   /\ x.node = e.node /\ x.type = e.type /\ x.type \notin Multi
                \/ \A n \in Node : Cardinality(Of(Bucket(s, e.net), n))
                                     <= Cardinality(Of(Bucket(s, e.net), x.node))
  <2>1. r.store.events = ((s.events \ Old(s, e)) \ victims) \cup {e}
    BY <1>3 DEF StoreShape
  <2>2. CASE x \in Old(s, e)
    BY <1>3, <2>1, <2>2 DEF Old, Bucket
  <2>3. CASE x \in victims
    BY <2>3, VictimIsOfHeaviest DEF Bucket
  <2> QED
    BY <2>1, <2>2, <2>3
<1> QED
  BY <1>1, <1>2, <1>3, OutcomeCases

LEMMA AddIsFair ==
  ASSUME RoomForTypes, Counted, Within(store), NEW e \in verifying,
         NEW r \in Add(store, e, now), store' = r.store,
         NEW x \in store.events \ store'.events
  PROVE  Leaves(x)
<1>0. now \in Nat /\ store \in StoreShape /\ e \in Event
  BY DEF Counted, TypeOK, StoreShape
<1>1. PICK b \in WithBucket(store, e.net) : \E t \in StoreShape :
        t.nets = b.nets /\ t.events = b.events /\ Within(t) /\ r \in Outcomes(t, e)
  BY <1>0, AddSteps
<1>2. PICK t \in StoreShape : t.nets = b.nets /\ t.events = b.events /\ Within(t) /\ r \in Outcomes(t, e)
  BY <1>1
<1>3. e.net \in Net
  BY <1>0 DEF Event
<1>4. /\ e.net \in b.nets
      /\ \/ b.nets = store.nets \cup {e.net} /\ b.events = store.events
         \/ \E cold \in store.nets : /\ cold # e.net
                                     /\ b.nets = (store.nets \ {cold}) \cup {e.net}
                                     /\ b.events = store.events \ Bucket(store, cold)
                                     /\ \A w \in store.nets : store.activity[cold] <= store.activity[w]
  BY <1>0, <1>3, WithBucketWithin
<1>5. store'.nets = b.nets
  BY <1>0, <1>2, <1>4, OutcomesWithin
<1>6. Bucket(t, e.net) = Bucket(store, e.net)
  BY <1>2, <1>4 DEF Bucket
<1>7. CASE x \in t.events
  <2>1. /\ x.net = e.net
        /\ \/ /\ e \in r.store.events \ t.events
              /\ x.node = e.node /\ x.type = e.type /\ x.type \notin Multi
           \/ \A n \in Node : Cardinality(Of(Bucket(t, e.net), n))
                                <= Cardinality(Of(Bucket(t, e.net), x.node))
    BY <1>0, <1>2, <1>7, OutcomesFair
  <2>2. e \in store.events => e \in t.events
    BY <1>6 DEF Bucket
  <2>3. CASE e \in r.store.events \ t.events /\ x.node = e.node /\ x.type = e.type /\ x.type \notin Multi
    BY <2>1, <2>2, <2>3 DEF Leaves
  <2>4. CASE \A n \in Node : Cardinality(Of(Bucket(t, e.net), n)) <= Cardinality(Of(Bucket(t, e.net), x.node))
    BY <1>6, <2>1, <2>4 DEF Leaves
  <2> QED
    BY <2>1, <2>3, <2>4
<1>8. CASE x \notin t.events
  <2>1. PICK cold \in store.nets : /\ cold # e.net
                                   /\ b.nets = (store.nets \ {cold}) \cup {e.net}
                                   /\ b.events = store.events \ Bucket(store, cold)
                                   /\ \A w \in store.nets : store.activity[cold] <= store.activity[w]
    BY <1>2, <1>4, <1>8
  <2>2. x.net = cold
    BY <1>2, <1>8, <2>1 DEF Bucket
  <2> QED
    BY <1>5, <2>1, <2>2 DEF Leaves
<1> QED
  BY <1>7, <1>8

LEMMA EvictionStep ==
  ASSUME RoomForTypes, Counted, Within(store), [Next]_vars, NEW x \in store.events \ store'.events
  PROVE  Leaves(x)
<1>0. now \in Nat /\ store \in StoreShape /\ verifying \subseteq Event
  BY DEF Counted, TypeOK, StoreShape
<1>1. CASE store' = store
  BY <1>1
<1>2. ASSUME NEW e \in verifying, VerifyDone(e) PROVE Leaves(x)
  <2>1. store' = store \/ \E r \in Add(store, e, now) : store' = r.store
    BY <1>2 DEF VerifyDone
  <2> QED
    BY <1>1, <2>1, AddIsFair
<1>3. CASE SweepStore
  <2>1. x.expires <= now
    <3>1. x \in Event /\ x.expires \in Nat
      BY <1>0 DEF StoreShape, Event
    <3>2. store'.events = {e \in store.events : e.expires > now}
      BY <1>3 DEF SweepStore, Sweep
    <3> QED
      BY <1>0, <3>1, <3>2
  <2> QED
    BY <2>1 DEF Leaves
<1> QED
  BY <1>1, <1>2, <1>3, StoreSteps

(* What leaves the store has expired, was replaced by its own node, or belonged   *)
(* to the idlest network or to a node with the most events: no flood by one    *)
(* node takes the events of a quieter one, whatever interleaving it finds.     *)
(* The premise holds of the program (4 superseding types, 16 events a node);    *)
(* without it an event could go for a replacement that is then refused.        *)
THEOREM EvictionStaysFair ==
  ASSUME RoomForTypes
  PROVE  Spec => EvictionIsFair
<1>1. /\ Counted /\ Within(store) /\ [Next]_vars
      => [\A e \in store.events \ store'.events : Leaves(e)]_vars
  BY EvictionStep
<1>2. Counted /\ Within(store) /\ [Next]_vars => Within(store)'
  BY StepWithin
<1> QED
  BY <1>1, <1>2, InitCounted, StepCounted, InitWithin, PTL DEF Spec, EvictionIsFair
=============================================================================
