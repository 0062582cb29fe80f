------------------------------ MODULE EventStore ------------------------------
(***************************************************************************)
(* The relay's in-memory store of discovery events (class EventStore and    *)
(* matches() in src/relay/server.ts) as pure operators on a value            *)
(*   [nets, events, joins, activity] :                                       *)
(* the networks that have a bucket, the events in all buckets, the expiry   *)
(* the join index holds per network and node (0: none), and the second of   *)
(* the last event of each network. An event is                              *)
(*   [type, net, node, created, expires, target];                            *)
(* it is its own id, being hashed whole. Where the code breaks a tie by the  *)
(* order of a Map, every outcome is returned.                                *)
(***************************************************************************)
EXTENDS Integers, FiniteSets

CONSTANTS
  Net, Node,       \* networks and nodes
  JoinTtl,         \* JOIN_TTL (300 s in the code)
  MaxNetworks,     \* MAX_NETWORKS (1000)
  MaxEvents,       \* MAX_EVENTS_PER_NETWORK (5000)
  MaxPerNode,      \* MAX_EVENTS_PER_NODE (16)
  MaxSignals,      \* MAX_SIGNALS_PER_NODE (256)
  MaxJoins         \* MAX_JOINS_PER_NETWORK (2000)

ASSUME CapsAssumption ==
  {JoinTtl, MaxNetworks, MaxEvents, MaxPerNode, MaxSignals, MaxJoins} \subseteq Nat \ {0}

EmptyStore ==
  [nets |-> {}, events |-> {}, joins |-> [w \in Net |-> [n \in Node |-> 0]],
   activity |-> [w \in Net |-> 0]]

Bucket(s, w) == {e \in s.events : e.net = w}

(* Types of which a node may have several events; of the others a new one      *)
(* replaces the old.                                                          *)
Multi == {"SIGNAL", "INVITE"}

HasLiveJoin(s, w, n, now) == s.joins[w][n] > now

(* The elements of S of which f is smallest.                                  *)
Least(S, f(_)) == {x \in S : \A y \in S : f(x) <= f(y)}

(* A network without a bucket gets one, if need be at the cost of the network  *)
(* that has been idle the longest.                                             *)
WithBucket(s, w) ==
  IF w \in s.nets \/ Cardinality(s.nets) < MaxNetworks
  THEN {[s EXCEPT !.nets = @ \cup {w}]}
  ELSE LET seconds(x) == s.activity[x] IN
       {[nets |-> (s.nets \ {cold}) \cup {w},
         events |-> s.events \ Bucket(s, cold),
         joins |-> [s.joins EXCEPT ![cold] = [n \in Node |-> 0]],
         activity |-> [s.activity EXCEPT ![cold] = 0]] : cold \in Least(s.nets, seconds)}

\* Mutant: the expiry a node declares is trusted.
IndexJoin_Unclamped(joins, e, now) == {[joins EXCEPT ![e.node] = e.expires]}

(* A JOIN enters the index with its own expiry, at most JoinTtl from now, and   *)
(* never sooner than an earlier JOIN of the node. Over capacity the member      *)
(* that expires soonest leaves the index, unless it is the one that just came.  *)
IndexJoin(joins, e, now) ==
  LET upto == IF e.expires < now + JoinTtl THEN e.expires ELSE now + JoinTtl
      with == [joins EXCEPT ![e.node] = IF @ > upto THEN @ ELSE upto]
      listed == {n \in Node : with[n] > 0}
      expiry(n) == with[n]
  IN  IF Cardinality(listed) <= MaxJoins THEN {with}
      ELSE {IF n = e.node THEN with ELSE [with EXCEPT ![n] = 0] : n \in Least(listed, expiry)}

(* Events of the other types leave the index alone.                            *)
Indexed(s, e, now) ==
  IF e.type = "JOIN"
  THEN {[s EXCEPT !.joins[e.net] = j] : j \in IndexJoin(s.joins[e.net], e, now)}
  ELSE {s}

Of(S, n) == {d \in S : d.node = n}

\* Mutant: the oldest event of all makes room.
EvictOldest_Global(bucket) ==
  LET age(e) == e.created IN Least(bucket, age)

(* At capacity, the oldest event of a node that has the most makes room.        *)
EvictOldest(bucket) ==
  LET weight(n) == -Cardinality(Of(bucket, n))
      age(e) == e.created
      heaviest == Least({e.node : e \in bucket}, weight)
  IN  UNION {Least(Of(bucket, n), age) : n \in heaviest}

\* Mutant: nothing is superseded or capped.
Outcomes_KeepAll(s, e) ==
  {[store |-> [s EXCEPT !.events = @ \cup {e}], added |-> e \notin s.events]}

(* add(): what the store may be, and whether the event is new to it.            *)
Outcomes(s, e) ==
  LET old == {d \in Bucket(s, e.net) : d.node = e.node /\ d.type = e.type /\ e.type \notin Multi}
      kept == Bucket(s, e.net) \ old
      mine == Of(kept, e.node)
      signals == {d \in mine : d.type \in Multi}
  IN  IF e \in s.events THEN {[store |-> s, added |-> FALSE]}
      ELSE IF IF e.type \in Multi THEN Cardinality(signals) >= MaxSignals
                                  ELSE Cardinality(mine \ signals) >= MaxPerNode
      THEN {[store |-> [s EXCEPT !.events = @ \ old], added |-> FALSE]}
      ELSE {[store |-> [s EXCEPT !.events = ((@ \ old) \ victims) \cup {e}], added |-> TRUE] :
              victims \in IF Cardinality(kept) >= MaxEvents
                          THEN {{v} : v \in EvictOldest(kept)} ELSE {{}}}

Add(s, e, now) ==
  UNION {
    UNION {Outcomes(t, e) : t \in Indexed([b EXCEPT !.activity[e.net] = now], e, now)}
    : b \in WithBucket(s, e.net)}

\* Mutant: a SIGNAL is shown to whoever asks for its network.
Matches_AnyTarget(e, f, now) ==
  e.expires > now /\ e.net = f.net /\ e.type \in f.types /\ e.node \in f.nodes /\ e.created >= f.since

(* Whether a subscription with the filter gets the event: a filter names a      *)
(* network, the types and nodes wanted, the earliest second, and the target     *)
(* whose SIGNALs it may see.                                                    *)
Matches(e, f, now) ==
  /\ e.expires > now
  /\ e.net = f.net
  /\ e.type \in f.types
  /\ e.node \in f.nodes
  /\ e.created >= f.since
  /\ e.type = "SIGNAL" => e.target = f.target

Query(s, f, now) == {e \in s.events : Matches(e, f, now)}

\* Mutant: the lapsed JOINs are counted down below zero.
Sweep_Forget(s, now) ==
  [s EXCEPT !.joins = [w \in Net |-> [n \in Node |-> s.joins[w][n] - now]]]

(* sweep(): expired events, networks left empty and lapsed JOINs go.            *)
Sweep(s, now) ==
  LET live == {e \in s.events : e.expires > now}
      left == {w \in s.nets : \E e \in live : e.net = w}
  IN  [nets |-> left, events |-> live,
       joins |-> [w \in Net |-> [n \in Node |-> IF s.joins[w][n] > now THEN s.joins[w][n] ELSE 0]],
       activity |-> [w \in Net |-> IF w \in left THEN s.activity[w] ELSE 0]]
=============================================================================
