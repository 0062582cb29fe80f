----------------------------- MODULE Mesh_proofs -----------------------------
(***************************************************************************)
(* Theorems about the mesh, for any set of nodes, caps, and any number of     *)
(* sessions and faults.                                                      *)
(*                                                                          *)
(* MeshOK is the inductive invariant. That no replayed SIGNAL ends a link       *)
(* open at both ends rests on its last three parts: a session belongs to one    *)
(* pair of nodes, offers go from the smaller to the larger, and an offer of an   *)
(* earlier session is no newer than the present one.                          *)
(***************************************************************************)
EXTENDS Mesh, TLAPS

Link ==
  [session : Nat, init : BOOLEAN, started : Nat, sent : BOOLEAN, remote : BOOLEAN,
   cand : BOOLEAN, open : BOOLEAN]

Signal ==
  [from : Node, to : Node, session : Nat, kind : {"offer", "answer", "ice", "leave"}, at : Nat]

Offers == {e \in events : e.kind = "offer"}

Shapes ==
  /\ peers \in [Node -> [Node -> Nat \cup {Unknown}]]
  /\ links \in [Node -> [Node -> Link]]
  /\ backoff \in [Node -> SUBSET Node]
  /\ second \in [Node -> Nat]
  /\ events \subseteq Signal
  /\ pending \subseteq events
  /\ decrypting \in [Node -> SUBSET Offers]
  /\ \A n \in Node : \A e \in decrypting[n] : e.to = n
  /\ up \subseteq 1..dials
  /\ dials \in 0..MaxDials /\ faults \in 0..MaxFaults

Ranges ==
  /\ \A n, m \in Node :
       /\ links[n][m].session <= dials
       /\ links[n][m].init => n < m
       /\ n < m => links[n][m].started <= second[n]
  /\ \A e \in events : e.session <= dials /\ e.at <= second[e.from]

(* Offers come from the end that dialled, and older sessions have older ones.  *)
OffersInOrder ==
  \A e \in Offers :
    LET l == links[e.from][e.to] IN
    /\ e.from < e.to
    /\ e.session # 0
    /\ l.session # 0 =>
         IF e.session = l.session THEN l.started <= e.at ELSE e.at <= l.started

(* The answering end takes the time of the offer for the start of a session.   *)
StartsInOrder ==
  \A n, m \in Node :
    n < m /\ links[n][m].session # 0 /\ links[n][m].session = links[m][n].session
      => links[n][m].started <= links[m][n].started

SamePair(i, j, n, m) == (i = n /\ j = m) \/ (i = m /\ j = n)

SessionsOwned ==
  /\ \A i, j, n, m \in Node :
       links[i][j].session # 0 /\ links[i][j].session = links[n][m].session
         => SamePair(i, j, n, m)
  /\ \A e \in Offers, n, m \in Node :
       links[n][m].session = e.session => SamePair(e.from, e.to, n, m)
  /\ \A e, f \in Offers : e.session = f.session => e.from = f.from /\ e.to = f.to

Order == Ranges /\ OffersInOrder /\ StartsInOrder /\ SessionsOwned

MeshOK == Shapes /\ Order

-----------------------------------------------------------------------------
(* Links and SIGNALs of a step                                               *)

(* The link of n to m stays that of its session, or is gone.                   *)
KeptOrGone(n, m) ==
  \/ /\ links'[n][m].session = links[n][m].session
     /\ links'[n][m].init = links[n][m].init
     /\ links'[n][m].started = links[n][m].started
  \/ links'[n][m] = NoLink

LEMMA NodesAreNumbers == \A n \in Node : n \in Nat
BY MeshAssumption

LEMMA NewLinkTyped ==
  ASSUME NEW s \in Nat, NEW init \in BOOLEAN, NEW at \in Nat
  PROVE  /\ NewLink(s, init, at) \in Link
         /\ NewLink(s, init, at).session = s
         /\ NewLink(s, init, at).init = init
         /\ NewLink(s, init, at).started = at
         /\ ~NewLink(s, init, at).open
BY DEF NewLink, Link

LEMMA NoLinkTyped ==
  /\ NoLink \in Link /\ NoLink.session = 0 /\ NoLink.init = FALSE /\ NoLink.started = 0
  /\ ~NoLink.open
BY DEF NoLink, NewLink, Link

LEMMA EventTyped ==
  ASSUME NEW n \in Node, NEW m \in Node, NEW s \in Nat,
         NEW kind \in {"offer", "answer", "ice", "leave"}, NEW at \in Nat
  PROVE  /\ Event(n, m, s, kind, at) \in Signal
         /\ Event(n, m, s, kind, at).from = n /\ Event(n, m, s, kind, at).to = m
         /\ Event(n, m, s, kind, at).session = s /\ Event(n, m, s, kind, at).kind = kind
         /\ Event(n, m, s, kind, at).at = at
BY DEF Event, Signal

(* A step that opens no session and sends no offer keeps the order.            *)
LEMMA OrderKept ==
  ASSUME Shapes, Shapes', Order, \A n, m \in Node : KeptOrGone(n, m),
         \A e \in events' : e \in events \/ (e.kind # "offer" /\ e.session <= dials
                                             /\ e.at <= second[e.from]),
         \A n \in Node : second[n] <= second'[n],
         dials' = dials
  PROVE  Order'
<1>1. \A n, m \in Node : links'[n][m].session # 0 =>
        /\ links'[n][m].session = links[n][m].session
        /\ links'[n][m].started = links[n][m].started
  BY NoLinkTyped DEF KeptOrGone
<1>2. Offers' \subseteq Offers
  BY DEF Offers
<1>3. Ranges'
  <2>1. ASSUME NEW n \in Node, NEW m \in Node
        PROVE  /\ links'[n][m].session <= dials
               /\ links'[n][m].init => n < m
               /\ n < m => links'[n][m].started <= second'[n]
    <3>1. /\ links[n][m] \in Link /\ links'[n][m] \in Link
          /\ second[n] \in Nat /\ second'[n] \in Nat /\ second[n] <= second'[n] /\ dials \in Nat
      BY DEF Shapes
    <3>2. CASE links'[n][m] = NoLink
      BY <3>1, <3>2, NoLinkTyped
    <3>3. CASE links'[n][m] # NoLink
      BY <3>1, <3>3 DEF KeptOrGone, Order, Ranges, Link
    <3> QED
      BY <3>2, <3>3
  <2>2. ASSUME NEW e \in events'
        PROVE  e.session <= dials /\ e.at <= second'[e.from]
    <3>1. e.from \in Node /\ e.at \in Nat
      BY DEF Shapes, Signal
    <3>2. second[e.from] \in Nat /\ second'[e.from] \in Nat /\ second[e.from] <= second'[e.from]
      BY <3>1 DEF Shapes
    <3>3. e.session <= dials /\ e.at <= second[e.from]
      BY DEF Order, Ranges
    <3> QED
      BY <3>1, <3>2, <3>3
  <2> QED
    BY <2>1, <2>2 DEF Ranges
<1>4. OffersInOrder'
  <2> SUFFICES ASSUME NEW e \in Offers'
               PROVE  /\ e.from < e.to
                      /\ e.session # 0
                      /\ links'[e.from][e.to].session # 0 =>
                           IF e.session = links'[e.from][e.to].session
                           THEN links'[e.from][e.to].started <= e.at
                           ELSE e.at <= links'[e.from][e.to].started
    BY DEF OffersInOrder
  <2>1. e \in Offers /\ e.from \in Node /\ e.to \in Node
    BY <1>2 DEF Offers, Shapes, Signal
  <2> QED
    BY <1>1, <2>1 DEF Order, OffersInOrder
<1>5. StartsInOrder'
  BY <1>1 DEF Order, StartsInOrder
<1>6. SessionsOwned'
  <2>1. \A e \in Offers' : e \in Offers /\ e.session # 0
    BY <1>2 DEF Order, OffersInOrder
  <2> QED
    BY <1>1, <2>1 DEF Order, SessionsOwned
<1> QED
  BY <1>3, <1>4, <1>5, <1>6 DEF Order

(* What stays of two ends that talk.                                          *)
LEMMA JoinedKept ==
  ASSUME NEW n \in Node, NEW m \in Node, Joined(n, m),
         links'[n][m].session = links[n][m].session, links[n][m].open => links'[n][m].open,
         links'[m][n].session = links[m][n].session, links[m][n].open => links'[m][n].open,
         links[n][m].session \in up'
  PROVE  Joined(n, m)'
BY DEF Joined, Live

KeepsJoined == \A n, m \in Node : Joined(n, m) => Joined(n, m)'
-----------------------------------------------------------------------------
(* Dialling                                                                  *)

LEMMA InitiateSound ==
  ASSUME MeshOK, NEW n \in Node, NEW m \in Node, MayDial(n, m), Initiate(n, m),
         peers' \in [Node -> [Node -> Nat \cup {Unknown}]],
         UNCHANGED <<backoff, second, events, pending, decrypting, up, faults>>
  PROVE  MeshOK' /\ KeepsJoined
<1> DEFINE new == NewLink(dials + 1, TRUE, second[n])
<1>1. /\ dials \in Nat /\ dials' = dials + 1 /\ dials' \in Nat /\ second[n] \in Nat
      /\ n < m /\ n \in Nat /\ m \in Nat
      /\ links[n][m].session = 0
      /\ dials' \in 0..MaxDials
  BY NodesAreNumbers, MeshAssumption
     DEF Initiate, MayDial, Linked, MeshOK, Shapes
<1>2. /\ new \in Link /\ new.session = dials + 1 /\ new.init = TRUE
      /\ new.started = second[n] /\ ~new.open
  BY <1>1 DEF NewLink, Link
<1>3. /\ links'[n][m] = new
      /\ \A i, j \in Node : ~(i = n /\ j = m) => links'[i][j] = links[i][j]
      /\ links' \in [Node -> [Node -> Link]]
  <2>1. links' = [links EXCEPT ![n][m] = new] /\ links \in [Node -> [Node -> Link]]
    BY <1>1 DEF Initiate, MeshOK, Shapes
  <2> HIDE DEF new
  <2> QED
    BY <1>2, <2>1
<1> HIDE DEF new
<1>4. Shapes'
  BY <1>1, <1>3 DEF MeshOK, Shapes, Offers
<1>5. \A i, j \in Node : links[i][j].session \in Nat /\ links[i][j].session <= dials
  BY DEF MeshOK, Shapes, Order, Ranges, Link
<1>6. \A e \in events : /\ e.session \in Nat /\ e.session <= dials /\ e.from \in Node
                        /\ e.to \in Node /\ e.at \in Nat /\ e.at <= second[e.from]
  BY DEF MeshOK, Shapes, Order, Ranges, Signal
<1>7. Ranges'
  <2>1. ASSUME NEW i \in Node, NEW j \in Node
        PROVE  /\ links'[i][j].session <= dials'
               /\ links'[i][j].init => i < j
               /\ i < j => links'[i][j].started <= second'[i]
    <3>1. CASE i = n /\ j = m
      BY <1>1, <1>2, <1>3, <3>1
    <3>2. CASE ~(i = n /\ j = m)
      BY <1>1, <1>3, <1>5, <3>2 DEF MeshOK, Order, Ranges
    <3> QED
      BY <3>1, <3>2
  <2>2. \A e \in events' : e.session <= dials' /\ e.at <= second'[e.from]
    BY <1>1, <1>6
  <2> QED
    BY <2>1, <2>2 DEF Ranges
<1>8. OffersInOrder'
  <2> SUFFICES ASSUME NEW e \in Offers
               PROVE  /\ e.from < e.to
                      /\ e.session # 0
                      /\ links'[e.from][e.to].session # 0 =>
                           IF e.session = links'[e.from][e.to].session
                           THEN links'[e.from][e.to].started <= e.at
                           ELSE e.at <= links'[e.from][e.to].started
    BY DEF OffersInOrder, Offers
  <2>1. e \in events
    BY DEF Offers
  <2>2. CASE e.from = n /\ e.to = m
    BY <1>1, <1>2, <1>3, <1>6, <2>1, <2>2 DEF MeshOK, Order, OffersInOrder
  <2>3. CASE ~(e.from = n /\ e.to = m)
    BY <1>3, <1>6, <2>1, <2>3 DEF MeshOK, Order, OffersInOrder
  <2> QED
    BY <2>2, <2>3
<1>9. \A i, j \in Node : links'[i][j] = links[i][j] \/ (i = n /\ j = m)
  BY <1>3
<1>10. \A i, j \in Node : links[i][j].session # dials + 1
  BY <1>1, <1>5
<1>11. StartsInOrder'
  <2> SUFFICES ASSUME NEW i \in Node, NEW j \in Node, i < j, links'[i][j].session # 0,
                      links'[i][j].session = links'[j][i].session
               PROVE  links'[i][j].started <= links'[j][i].started
    BY DEF StartsInOrder
  <2>1. i # j
    BY NodesAreNumbers
  <2>2. links'[i][j] = links[i][j] /\ links'[j][i] = links[j][i]
    BY <1>2, <1>3, <1>9, <1>10, <2>1
  <2> QED
    BY <2>2 DEF MeshOK, Order, StartsInOrder
<1>12. SessionsOwned'
  <2>1. ASSUME NEW i \in Node, NEW j \in Node, NEW k \in Node, NEW l \in Node,
               links'[i][j].session # 0, links'[i][j].session = links'[k][l].session
        PROVE  SamePair(i, j, k, l)
    <3>1. CASE i = n /\ j = m
      BY <1>2, <1>3, <1>9, <1>10, <2>1, <3>1 DEF SamePair
    <3>2. CASE k = n /\ l = m
      BY <1>2, <1>3, <1>9, <1>10, <2>1, <3>2 DEF SamePair
    <3>3. CASE ~(i = n /\ j = m) /\ ~(k = n /\ l = m)
      BY <1>3, <2>1, <3>3 DEF MeshOK, Order, SessionsOwned
    <3> QED
      BY <3>1, <3>2, <3>3
  <2>2. ASSUME NEW e \in Offers, NEW k \in Node, NEW l \in Node,
               links'[k][l].session = e.session
        PROVE  SamePair(e.from, e.to, k, l)
    <3>1. e.session \in Nat /\ e.session <= dials
      BY <1>6 DEF Offers
    <3>2. ~(k = n /\ l = m)
      BY <1>1, <1>2, <1>3, <2>2, <3>1
    <3> QED
      BY <1>3, <2>2, <3>2 DEF MeshOK, Order, SessionsOwned
  <2> QED
    BY <2>1, <2>2 DEF MeshOK, Order, SessionsOwned, Offers
<1>13. KeepsJoined
  <2> SUFFICES ASSUME NEW i \in Node, NEW j \in Node, Joined(i, j) PROVE Joined(i, j)'
    BY DEF KeepsJoined
  <2>1. links[i][j].session # 0 /\ links[j][i].session # 0 /\ links[i][j].session \in up
    BY <1>1 DEF Joined, Live, MeshOK, Shapes
  <2>2. links'[i][j] = links[i][j] /\ links'[j][i] = links[j][i]
    BY <1>1, <1>3, <2>1
  <2> QED
    BY <2>1, <2>2, JoinedKept
<1> QED
  BY <1>4, <1>7, <1>8, <1>11, <1>12, <1>13 DEF MeshOK, Order

LEMMA HearSound ==
  ASSUME MeshOK, NEW n \in Node, NEW m \in Node, NEW at \in 0..second[m], Hear(n, m, at)
  PROVE  MeshOK' /\ KeepsJoined
<1>1. peers' \in [Node -> [Node -> Nat \cup {Unknown}]]
  <2>1. at \in Nat
    BY DEF MeshOK, Shapes
  <2> QED
    BY <2>1 DEF Hear, MeshOK, Shapes
<1>2. CASE MayDial(n, m)
  BY <1>1, <1>2, InitiateSound DEF Hear
<1>3. CASE ~MayDial(n, m)
  <2>1. UNCHANGED <<links, dials, backoff, second, events, pending, decrypting, up, faults>>
    BY <1>3 DEF Hear
  <2>2. MeshOK'
    BY <1>1, <2>1 DEF MeshOK, Shapes, Order, Ranges, OffersInOrder, StartsInOrder,
       SessionsOwned, Offers
  <2>3. KeepsJoined
    BY <2>1 DEF KeepsJoined, Joined, Live
  <2> QED
    BY <2>2, <2>3
<1> QED
  BY <1>2, <1>3

LEMMA FillSlotsSound ==
  ASSUME MeshOK, NEW n \in Node, NEW m \in Node, FillSlots(n, m)
  PROVE  MeshOK' /\ KeepsJoined
BY InitiateSound DEF FillSlots, MeshOK, Shapes

LEMMA BackoffEndsSound ==
  ASSUME MeshOK, NEW n \in Node, NEW m \in Node, BackoffEnds(n, m)
  PROVE  MeshOK' /\ KeepsJoined
<1>1. Shapes'
  BY DEF BackoffEnds, MeshOK, Shapes, Offers
<1>2. \A i, j \in Node : KeptOrGone(i, j)
  BY DEF BackoffEnds, KeptOrGone
<1>3. \A i \in Node : second[i] <= second'[i]
  BY DEF BackoffEnds, MeshOK, Shapes
<1>4. Order'
  BY <1>1, <1>2, <1>3, OrderKept DEF BackoffEnds, MeshOK
<1>5. KeepsJoined
  BY DEF BackoffEnds, KeepsJoined, Joined, Live
<1> QED
  BY <1>1, <1>4, <1>5 DEF MeshOK
-----------------------------------------------------------------------------
(* The handshake                                                             *)

(* A step that sets the flags of one link.                                    *)
LEMMA FlagsKept ==
  ASSUME Shapes, NEW n \in Node, NEW m \in Node, NEW l, l \in Link,
         l.session = links[n][m].session, l.init = links[n][m].init,
         l.started = links[n][m].started, links[n][m].open => l.open,
         links' = [links EXCEPT ![n][m] = l]
  PROVE  /\ links' \in [Node -> [Node -> Link]]
         /\ \A i, j \in Node : KeptOrGone(i, j)
         /\ up \subseteq up' => KeepsJoined
<1>1. links \in [Node -> [Node -> Link]]
  BY DEF Shapes
<1>2. links' \in [Node -> [Node -> Link]]
  BY <1>1
<1>3. \A i, j \in Node :
        /\ links'[i][j].session = links[i][j].session
        /\ links'[i][j].init = links[i][j].init
        /\ links'[i][j].started = links[i][j].started
        /\ links[i][j].open => links'[i][j].open
  BY <1>1
<1>4. ASSUME up \subseteq up' PROVE KeepsJoined
  BY <1>3, <1>4, JoinedKept DEF KeepsJoined, Joined, Live
<1> QED
  BY <1>2, <1>3, <1>4 DEF KeptOrGone

LEMMA DescribeSound ==
  ASSUME MeshOK, NEW n \in Node, NEW m \in Node, Describe(n, m)
  PROVE  MeshOK' /\ KeepsJoined
<1> DEFINE l == links[n][m]
           kinds == IF l.init THEN {"offer", "ice"}
                    ELSE {k \in {"answer", "ice"} : links[m][n].session = l.session}
           news == {Event(n, m, l.session, k, second[n]) : k \in kinds}
           new == [l EXCEPT !.sent = TRUE, !.remote = @ \/ ~l.init]
<1>1. /\ l \in Link /\ l.session # 0 /\ l.session \in Nat /\ second[n] \in Nat /\ dials \in Nat
      /\ l.session <= dials /\ l.init \in BOOLEAN
  BY DEF Describe, MeshOK, Shapes, Order, Ranges, Link
<1>2. kinds \subseteq {"offer", "answer", "ice"}
  OBVIOUS
<1>3. \A e \in news : /\ e \in Signal /\ e.from = n /\ e.to = m /\ e.session = l.session
                      /\ e.at = second[n] /\ e.kind \in kinds
  <2> HIDE DEF l, kinds
  <2> QED
    BY <1>1, <1>2, EventTyped
<1>4. links' = [links EXCEPT ![n][m] = new]
  BY DEF Describe, MeshOK, Shapes
<1>5. /\ new \in Link /\ new.session = l.session /\ new.init = l.init /\ new.started = l.started
      /\ new.open = l.open
  <2> HIDE DEF l
  <2> QED
    BY <1>1 DEF Link
<1>6. /\ links' \in [Node -> [Node -> Link]]
      /\ \A i, j \in Node : KeptOrGone(i, j)
      /\ KeepsJoined
  <2>1. up' = up
    BY DEF Describe
  <2> HIDE DEF new
  <2> QED
    BY <1>4, <1>5, <2>1, FlagsKept DEF MeshOK
<1>7. \A i, j \in Node : /\ links'[i][j].session = links[i][j].session
                         /\ links'[i][j].init = links[i][j].init
                         /\ links'[i][j].started = links[i][j].started
  <2> HIDE DEF new
  <2> QED
    BY <1>4, <1>5 DEF MeshOK, Shapes
<1>8. /\ events' = events \cup news /\ pending' = pending \cup news
      /\ UNCHANGED <<peers, backoff, second, decrypting, up, dials, faults>>
  BY DEF Describe
<1> HIDE DEF new, news
<1>9. Shapes'
  BY <1>3, <1>6, <1>8 DEF MeshOK, Shapes, Offers
<1>10. \A e \in Offers' \ Offers :
         e.from = n /\ e.to = m /\ e.session = l.session /\ e.at = second[n] /\ l.init
  BY <1>3, <1>8 DEF Offers
<1>11. Ranges'
  BY <1>1, <1>3, <1>7, <1>8 DEF MeshOK, Order, Ranges
<1>12. OffersInOrder'
  <2> SUFFICES ASSUME NEW e \in Offers'
               PROVE  /\ e.from < e.to
                      /\ e.session # 0
                      /\ links'[e.from][e.to].session # 0 =>
                           IF e.session = links'[e.from][e.to].session
                           THEN links'[e.from][e.to].started <= e.at
                           ELSE e.at <= links'[e.from][e.to].started
    BY DEF OffersInOrder
  <2>1. e.from \in Node /\ e.to \in Node
    BY <1>9 DEF Offers, Shapes, Signal
  <2>2. CASE e \in Offers
    BY <1>7, <2>1, <2>2 DEF MeshOK, Order, OffersInOrder
  <2>3. CASE e \notin Offers
    <3>1. e.from = n /\ e.to = m /\ e.session = l.session /\ e.at = second[n] /\ l.init
      BY <1>10, <2>3
    <3>2. n < m /\ l.started <= second[n]
      BY <3>1 DEF MeshOK, Order, Ranges
    <3>3. links'[n][m].session = l.session /\ links'[n][m].started = l.started
      BY <1>7
    <3> HIDE DEF l
    <3> QED
      BY <1>1, <3>1, <3>2, <3>3
  <2> QED
    BY <2>2, <2>3
<1>13. StartsInOrder'
  BY <1>7 DEF MeshOK, Order, StartsInOrder
<1>14. SessionsOwned'
  <2>1. ASSUME NEW e \in Offers', NEW i \in Node, NEW j \in Node, links[i][j].session = e.session
        PROVE  SamePair(e.from, e.to, i, j)
    <3>1. CASE e \in Offers
      BY <2>1, <3>1 DEF MeshOK, Order, SessionsOwned
    <3>2. CASE e \notin Offers
      BY <1>1, <1>10, <2>1, <3>2 DEF MeshOK, Order, SessionsOwned
    <3> QED
      BY <3>1, <3>2
  <2>2. ASSUME NEW e \in Offers', NEW f \in Offers', e.session = f.session
        PROVE  e.from = f.from /\ e.to = f.to
    <3>1. CASE e \in Offers /\ f \in Offers
      BY <2>2, <3>1 DEF MeshOK, Order, SessionsOwned
    <3>2. CASE e \notin Offers /\ f \notin Offers
      BY <1>10, <3>2
    <3>3. ASSUME NEW g \in Offers, NEW h \in Offers' \ Offers, g.session = h.session
          PROVE  g.from = h.from /\ g.to = h.to
      <4>1. h.from = n /\ h.to = m /\ h.session = l.session /\ l.init
        BY <1>10, <3>3
      <4>2. n < m /\ g.from < g.to /\ g.from \in Nat /\ g.to \in Nat /\ n \in Nat /\ m \in Nat
        BY <4>1, NodesAreNumbers DEF MeshOK, Order, Ranges, OffersInOrder, Shapes, Offers, Signal
      <4>3. SamePair(g.from, g.to, n, m)
        BY <3>3, <4>1 DEF MeshOK, Order, SessionsOwned
      <4> QED
        BY <4>1, <4>2, <4>3 DEF SamePair
    <3> QED
      BY <2>2, <3>1, <3>2, <3>3
  <2> QED
    BY <1>7, <2>1, <2>2 DEF MeshOK, Order, SessionsOwned
<1> QED
  BY <1>6, <1>9, <1>11, <1>12, <1>13, <1>14 DEF MeshOK, Order
LEMMA ReceiveOfferSound ==
  ASSUME MeshOK, NEW e \in pending, ReceiveOffer(e)
  PROVE  MeshOK' /\ KeepsJoined
<1>1. /\ UNCHANGED <<peers, links, backoff, second, events, up, dials, faults>>
      /\ pending' \subseteq pending
      /\ e \in Offers /\ e.to \in Node
  BY DEF ReceiveOffer, Deliver, MeshOK, Shapes, Offers, Signal
<1>2. /\ decrypting' \in [Node -> SUBSET Offers]
      /\ \A n \in Node : \A f \in decrypting'[n] : f.to = n
  BY <1>1 DEF ReceiveOffer, MeshOK, Shapes
<1>3. Shapes'
  BY <1>1, <1>2 DEF MeshOK, Shapes, Offers
<1>4. Order'
  BY <1>1 DEF MeshOK, Order, Ranges, OffersInOrder, StartsInOrder, SessionsOwned, Offers
<1>5. KeepsJoined
  BY <1>1 DEF KeepsJoined, Joined, Live
<1> QED
  BY <1>3, <1>4, <1>5 DEF MeshOK

(* An offer that replaces a link is of a session that starts no earlier than the *)
(* dialling end's, so that the link it replaces is not open at both ends.       *)
LEMMA HandleOfferSound ==
  ASSUME MeshOK, NEW n \in Node, NEW e \in decrypting[n], HandleOffer(n, e)
  PROVE  MeshOK' /\ KeepsJoined
<1> DEFINE m == e.from
           old == links[n][m]
           new == IF Cardinality(Linked(n) \ {m}) < MaxTotal
                  THEN NewLink(e.session, FALSE, e.at) ELSE NoLink
<1>1. /\ e \in Offers /\ e \in events /\ e.to = n /\ m \in Node /\ e.session \in Nat /\ e.at \in Nat
      /\ e.session # 0 /\ m < n /\ m \in Nat /\ n \in Nat /\ e.session <= dials
  BY NodesAreNumbers DEF MeshOK, Shapes, Offers, Signal, Order, OffersInOrder, Ranges
<1>2. /\ UNCHANGED <<peers, backoff, second, events, pending, dials, faults>>
      /\ decrypting' = [decrypting EXCEPT ![n] = @ \ {e}]
  BY DEF HandleOffer
<1>3. /\ decrypting' \in [Node -> SUBSET Offers]
      /\ \A i \in Node : \A f \in decrypting'[i] : f.to = i
  BY <1>2 DEF MeshOK, Shapes
<1>4. CASE Outdated(n, e)
  <2>1. UNCHANGED <<links, up>>
    BY <1>4 DEF HandleOffer
  <2>2. Shapes'
    BY <1>2, <1>3, <2>1 DEF MeshOK, Shapes, Offers
  <2>3. Order'
    BY <1>2, <2>1 DEF MeshOK, Order, Ranges, OffersInOrder, StartsInOrder, SessionsOwned, Offers
  <2>4. KeepsJoined
    BY <2>1 DEF KeepsJoined, Joined, Live
  <2> QED
    BY <2>2, <2>3, <2>4 DEF MeshOK
<1>5. CASE ~Outdated(n, e)
  <2>1. up' = up \ {old.session} /\ links' = [links EXCEPT ![n][m] = new]
    BY <1>5 DEF HandleOffer
  <2>2. /\ new \in Link /\ ~new.init
        /\ new.session = 0 \/ (new.session = e.session /\ new.started = e.at)
    <3>1. NewLink(e.session, FALSE, e.at) \in Link
      BY <1>1 DEF NewLink, Link
    <3> QED
      BY <3>1, NoLinkTyped DEF NewLink
  <2> HIDE DEF new
  <2>3. /\ links'[n][m] = new
        /\ \A i, j \in Node : ~(i = n /\ j = m) => links'[i][j] = links[i][j]
        /\ links' \in [Node -> [Node -> Link]]
    BY <1>1, <2>1, <2>2 DEF MeshOK, Shapes
  <2>4. Shapes'
    BY <1>2, <1>3, <2>1, <2>3 DEF MeshOK, Shapes, Offers
  <2>5. \A i, j \in Node : i < j => links'[i][j] = links[i][j]
    <3>1. ASSUME NEW i \in Node, NEW j \in Node, i < j PROVE ~(i = n /\ j = m)
      <4> HIDE DEF m
      <4> QED
        BY <1>1, <3>1
    <3> QED
      BY <2>3, <3>1
  <2>6. Ranges'
    <3>1. ASSUME NEW i \in Node, NEW j \in Node
          PROVE  /\ links'[i][j].session <= dials
                 /\ links'[i][j].init => i < j
                 /\ i < j => links'[i][j].started <= second[i]
      <4>1. CASE i = n /\ j = m
        <5>1. dials \in Nat
          BY DEF MeshOK, Shapes
        <5> QED
          BY <1>1, <2>2, <2>3, <4>1, <5>1
      <4>2. CASE ~(i = n /\ j = m)
        BY <2>3, <4>2 DEF MeshOK, Order, Ranges
      <4> QED
        BY <4>1, <4>2
    <3> QED
      BY <1>2, <3>1 DEF MeshOK, Order, Ranges
  <2>7. OffersInOrder'
    <3> SUFFICES ASSUME NEW f \in Offers
                 PROVE  /\ f.from < f.to
                        /\ f.session # 0
                        /\ links'[f.from][f.to].session # 0 =>
                             IF f.session = links'[f.from][f.to].session
                             THEN links'[f.from][f.to].started <= f.at
                             ELSE f.at <= links'[f.from][f.to].started
      BY <1>2 DEF OffersInOrder, Offers
    <3>1. f.from \in Node /\ f.to \in Node /\ f.from < f.to
      BY DEF MeshOK, Shapes, Offers, Signal, Order, OffersInOrder
    <3>2. links'[f.from][f.to] = links[f.from][f.to]
      BY <2>5, <3>1
    <3> QED
      BY <3>1, <3>2 DEF MeshOK, Order, OffersInOrder
  <2>8. StartsInOrder'
    <3> SUFFICES ASSUME NEW i \in Node, NEW j \in Node, i < j, links'[i][j].session # 0,
                        links'[i][j].session = links'[j][i].session
                 PROVE  links'[i][j].started <= links'[j][i].started
      BY DEF StartsInOrder
    <3>1. links'[i][j] = links[i][j]
      BY <2>5
    <3>2. CASE j = n /\ i = m
      BY <1>1, <2>2, <2>3, <3>1, <3>2 DEF MeshOK, Order, OffersInOrder
    <3>3. CASE ~(j = n /\ i = m)
      BY <2>3, <3>1, <3>3 DEF MeshOK, Order, StartsInOrder
    <3> QED
      BY <3>2, <3>3
  <2>9. SessionsOwned'
    <3>1. ASSUME NEW i \in Node, NEW j \in Node, NEW k \in Node, NEW l \in Node,
                 links'[i][j].session # 0, links'[i][j].session = links'[k][l].session
          PROVE  SamePair(i, j, k, l)
      <4>1. CASE ~(i = n /\ j = m) /\ ~(k = n /\ l = m)
        BY <2>3, <3>1, <4>1 DEF MeshOK, Order, SessionsOwned
      <4>2. CASE i = n /\ j = m /\ ~(k = n /\ l = m)
        <5>1. links[k][l].session = e.session
          BY <2>2, <2>3, <3>1, <4>2
        <5>2. SamePair(m, n, k, l)
          BY <1>1, <5>1 DEF MeshOK, Order, SessionsOwned
        <5> QED
          BY <4>2, <5>2 DEF SamePair
      <4>3. CASE ~(i = n /\ j = m) /\ k = n /\ l = m
        <5>1. links[i][j].session = e.session
          BY <2>2, <2>3, <3>1, <4>3
        <5>2. SamePair(m, n, i, j)
          BY <1>1, <5>1 DEF MeshOK, Order, SessionsOwned
        <5> QED
          BY <4>3, <5>2 DEF SamePair
      <4>4. CASE i = n /\ j = m /\ k = n /\ l = m
        BY <4>4 DEF SamePair
      <4> QED
        BY <4>1, <4>2, <4>3, <4>4
    <3>2. ASSUME NEW f \in Offers, NEW k \in Node, NEW l \in Node,
                 links'[k][l].session = f.session
          PROVE  SamePair(f.from, f.to, k, l)
      <4>1. CASE ~(k = n /\ l = m)
        BY <2>3, <3>2, <4>1 DEF MeshOK, Order, SessionsOwned
      <4>2. CASE k = n /\ l = m
        <5>1. f.session = e.session
          BY <2>2, <2>3, <3>2, <4>2 DEF MeshOK, Order, OffersInOrder
        <5>2. f.from = m /\ f.to = n
          BY <1>1, <5>1 DEF MeshOK, Order, SessionsOwned
        <5> QED
          BY <4>2, <5>2 DEF SamePair
      <4> QED
        BY <4>1, <4>2
    <3> QED
      BY <1>2, <3>1, <3>2 DEF MeshOK, Order, SessionsOwned, Offers
  <2>10. KeepsJoined
    <3> SUFFICES ASSUME NEW i \in Node, NEW j \in Node, Joined(i, j) PROVE Joined(i, j)'
      BY DEF KeepsJoined
    <3>1. /\ links[i][j].session \in up /\ links[i][j].session # 0
          /\ links[j][i].session = links[i][j].session
      BY DEF Joined, Live, MeshOK, Shapes
    <3>2. old.session # links[i][j].session
      <4> SUFFICES ASSUME old.session = links[i][j].session PROVE FALSE
        OBVIOUS
      <4>1. SamePair(i, j, n, m)
        BY <1>1, <3>1 DEF MeshOK, Order, SessionsOwned
      <4>2. old.session # 0 /\ links[m][n].session = old.session
        BY <3>1, <4>1 DEF SamePair
      <4>3. old.started \in Nat /\ links[m][n].started \in Nat
        BY <1>1 DEF MeshOK, Shapes, Link
      <4>4. links[m][n].started <= old.started
        BY <1>1, <4>2 DEF MeshOK, Order, StartsInOrder
      <4>5. e.session = old.session \/ e.at <= links[m][n].started
        BY <1>1, <4>2 DEF MeshOK, Order, OffersInOrder
      <4> QED
        BY <1>1, <1>5, <4>2, <4>3, <4>4, <4>5 DEF Outdated
    <3>3. ~(i = n /\ j = m) /\ ~(j = n /\ i = m)
      BY <3>1, <3>2
    <3>4. links'[i][j] = links[i][j] /\ links'[j][i] = links[j][i]
      BY <2>3, <3>3
    <3>5. links[i][j].session \in up'
      BY <2>1, <3>1, <3>2
    <3> QED
      BY <3>4, <3>5, JoinedKept
  <2> QED
    BY <2>4, <2>6, <2>7, <2>8, <2>9, <2>10 DEF MeshOK, Order
<1> QED
  BY <1>4, <1>5

LEMMA HandleAnswerSound ==
  ASSUME MeshOK, NEW e \in pending, HandleAnswer(e)
  PROVE  MeshOK' /\ KeepsJoined
<1> DEFINE l == links[e.to][e.from]
           new == [l EXCEPT !.remote = @ \/ (Known(e) /\ l.session = e.session /\ l.init)]
<1>1. e.to \in Node /\ e.from \in Node
  BY DEF MeshOK, Shapes, Signal
<1>2. l \in Link
  BY <1>1 DEF MeshOK, Shapes
<1>3. /\ new \in Link /\ new.session = l.session /\ new.init = l.init /\ new.started = l.started
      /\ new.open = l.open
  <2> HIDE DEF l
  <2> QED
    BY <1>2 DEF Link
<1>4. /\ links' = [links EXCEPT ![e.to][e.from] = new]
      /\ UNCHANGED <<peers, backoff, second, events, decrypting, up, dials, faults>>
      /\ pending' \subseteq pending
  BY <1>1 DEF HandleAnswer, Deliver, MeshOK, Shapes
<1> HIDE DEF new
<1>5. /\ links' \in [Node -> [Node -> Link]]
      /\ \A i, j \in Node : KeptOrGone(i, j)
      /\ KeepsJoined
  <2>1. up \subseteq up'
    BY <1>4
  <2>2. links[e.to][e.from].open => new.open
    BY <1>3
  <2> QED
    BY <1>1, <1>3, <1>4, <2>1, <2>2, FlagsKept DEF MeshOK
<1>6. Shapes'
  BY <1>4, <1>5 DEF MeshOK, Shapes, Offers
<1>7. \A i \in Node : second[i] <= second'[i]
  BY <1>4 DEF MeshOK, Shapes
<1>8. Order'
  BY <1>4, <1>5, <1>6, <1>7, OrderKept DEF MeshOK
<1> QED
  BY <1>5, <1>6, <1>8 DEF MeshOK

LEMMA HandleIceSound ==
  ASSUME MeshOK, NEW e \in pending, HandleIce(e)
  PROVE  MeshOK' /\ KeepsJoined
<1> DEFINE l == links[e.to][e.from]
           new == [l EXCEPT !.cand = @ \/ (Known(e) /\ l.session = e.session)]
<1>1. e.to \in Node /\ e.from \in Node
  BY DEF MeshOK, Shapes, Signal
<1>2. l \in Link
  BY <1>1 DEF MeshOK, Shapes
<1>3. /\ new \in Link /\ new.session = l.session /\ new.init = l.init /\ new.started = l.started
      /\ new.open = l.open
  <2> HIDE DEF l
  <2> QED
    BY <1>2 DEF Link
<1>4. /\ links' = [links EXCEPT ![e.to][e.from] = new]
      /\ UNCHANGED <<peers, backoff, second, events, decrypting, up, dials, faults>>
      /\ pending' \subseteq pending
  BY <1>1 DEF HandleIce, Deliver, MeshOK, Shapes
<1> HIDE DEF new
<1>5. /\ links' \in [Node -> [Node -> Link]]
      /\ \A i, j \in Node : KeptOrGone(i, j)
      /\ KeepsJoined
  <2>1. up \subseteq up'
    BY <1>4
  <2>2. links[e.to][e.from].open => new.open
    BY <1>3
  <2> QED
    BY <1>1, <1>3, <1>4, <2>1, <2>2, FlagsKept DEF MeshOK
<1>6. Shapes'
  BY <1>4, <1>5 DEF MeshOK, Shapes, Offers
<1>7. \A i \in Node : second[i] <= second'[i]
  BY <1>4 DEF MeshOK, Shapes
<1>8. Order'
  BY <1>4, <1>5, <1>6, <1>7, OrderKept DEF MeshOK
<1> QED
  BY <1>5, <1>6, <1>8 DEF MeshOK
-----------------------------------------------------------------------------
(* Links                                                                     *)

LEMMA ConnectSound ==
  ASSUME MeshOK, NEW n \in Node, NEW m \in Node, Connect(n, m)
  PROVE  MeshOK' /\ KeepsJoined
<1>1. /\ UNCHANGED <<peers, links, backoff, second, events, pending, decrypting, dials, faults>>
      /\ up' = up \cup {links[n][m].session}
  BY DEF Connect
<1>2. links[n][m].session \in 1..dials
  BY DEF Connect, Connectable, MeshOK, Shapes, Order, Ranges, Link
<1>3. Shapes'
  BY <1>1, <1>2 DEF MeshOK, Shapes, Offers
<1>4. Order'
  BY <1>1 DEF MeshOK, Order, Ranges, OffersInOrder, StartsInOrder, SessionsOwned, Offers
<1>5. KeepsJoined
  BY <1>1 DEF KeepsJoined, Joined, Live
<1> QED
  BY <1>3, <1>4, <1>5 DEF MeshOK

LEMMA OnOpenSound ==
  ASSUME MeshOK, NEW n \in Node, NEW m \in Node, OnOpen(n, m)
  PROVE  MeshOK' /\ KeepsJoined
<1> DEFINE l == links[n][m]
           new == [l EXCEPT !.open = TRUE]
<1>1. l \in Link
  BY DEF MeshOK, Shapes
<1>2. /\ new \in Link /\ new.session = l.session /\ new.init = l.init /\ new.started = l.started
      /\ new.open
  <2> HIDE DEF l
  <2> QED
    BY <1>1 DEF Link
<1>3. /\ links' = [links EXCEPT ![n][m] = new]
      /\ backoff' = [backoff EXCEPT ![n] = @ \ {m}]
      /\ UNCHANGED <<peers, second, events, pending, decrypting, up, dials, faults>>
  BY DEF OnOpen, MeshOK, Shapes
<1> HIDE DEF new
<1>4. /\ links' \in [Node -> [Node -> Link]]
      /\ \A i, j \in Node : KeptOrGone(i, j)
      /\ KeepsJoined
  <2>1. up \subseteq up'
    BY <1>3
  <2> QED
    BY <1>2, <1>3, <2>1, FlagsKept DEF MeshOK
<1>5. backoff' \in [Node -> SUBSET Node]
  BY <1>3 DEF MeshOK, Shapes
<1>6. Shapes'
  BY <1>3, <1>4, <1>5 DEF MeshOK, Shapes, Offers
<1>7. \A i \in Node : second[i] <= second'[i]
  BY <1>3 DEF MeshOK, Shapes
<1>8. Order'
  BY <1>3, <1>4, <1>6, <1>7, OrderKept DEF MeshOK
<1> QED
  BY <1>4, <1>6, <1>8 DEF MeshOK

(* A link that is not live is dropped, which ends no other one.                *)
LEMMA DropLinkSound ==
  ASSUME MeshOK, NEW n \in Node, NEW m \in Node, DropLink(n, m)
  PROVE  /\ links' \in [Node -> [Node -> Link]]
         /\ \A i, j \in Node : KeptOrGone(i, j)
         /\ up' \subseteq up
         /\ events' \subseteq events /\ events' = events \ Moot(n, m)
         /\ Offers' = Offers
         /\ ~Live(n, m) => KeepsJoined
<1>1. /\ links' = [links EXCEPT ![n][m] = NoLink]
      /\ up' = up \ {links[n][m].session}
      /\ events' = events \ Moot(n, m)
  BY DEF DropLink
<1>2. /\ links' \in [Node -> [Node -> Link]]
      /\ links'[n][m] = NoLink
      /\ \A i, j \in Node : ~(i = n /\ j = m) => links'[i][j] = links[i][j]
  BY <1>1, NoLinkTyped DEF MeshOK, Shapes
<1>3. \A i, j \in Node : KeptOrGone(i, j)
  BY <1>2 DEF KeptOrGone
<1>4. Offers' = Offers
  BY <1>1 DEF Offers, Moot
<1>5. ASSUME ~Live(n, m), NEW i \in Node, NEW j \in Node, Joined(i, j)
      PROVE  Joined(i, j)'
  <2>1. /\ links[i][j].session \in up /\ links[i][j].session # 0
        /\ links[j][i].session = links[i][j].session
        /\ Live(i, j) /\ Live(j, i)
    BY <1>5 DEF Joined, Live, MeshOK, Shapes
  <2>2. links[n][m].session # links[i][j].session
    <3> SUFFICES ASSUME links[n][m].session = links[i][j].session PROVE FALSE
      OBVIOUS
    <3>1. SamePair(i, j, n, m)
      BY <2>1 DEF MeshOK, Order, SessionsOwned
    <3> QED
      BY <1>5, <2>1, <3>1 DEF SamePair
  <2>3. links'[i][j] = links[i][j] /\ links'[j][i] = links[j][i] /\ links[i][j].session \in up'
    BY <1>1, <1>2, <2>1, <2>2
  <2> QED
    BY <1>5, <2>3, JoinedKept
<1> QED
  BY <1>1, <1>2, <1>3, <1>4, <1>5 DEF KeepsJoined

LEMMA FailSound ==
  ASSUME MeshOK, NEW n \in Node, NEW m \in Node, Fail(n, m), faults' \in 0..MaxFaults
  PROVE  MeshOK' /\ (~Live(n, m) => KeepsJoined)
<1>1. /\ links' \in [Node -> [Node -> Link]]
      /\ \A i, j \in Node : KeptOrGone(i, j)
      /\ up' \subseteq up
      /\ events' \subseteq events /\ events' = events \ Moot(n, m)
      /\ Offers' = Offers
      /\ ~Live(n, m) => KeepsJoined
  BY DropLinkSound DEF Fail
<1>2. /\ backoff' = [backoff EXCEPT ![n] = @ \cup {i \in {m} : n < i}]
      /\ pending' = pending \ Moot(n, m)
      /\ UNCHANGED <<peers, second, decrypting, dials>>
  BY DEF Fail
<1>3. backoff' \in [Node -> SUBSET Node]
  BY <1>2 DEF MeshOK, Shapes
<1>4. Shapes'
  BY <1>1, <1>2, <1>3 DEF MeshOK, Shapes
<1>5. \A i \in Node : second[i] <= second'[i]
  BY <1>2 DEF MeshOK, Shapes
<1>6. Order'
  BY <1>1, <1>2, <1>4, <1>5, OrderKept DEF MeshOK
<1> QED
  BY <1>1, <1>4, <1>6 DEF MeshOK

LEMMA OnCloseSound ==
  ASSUME MeshOK, NEW n \in Node, NEW m \in Node, OnClose(n, m)
  PROVE  MeshOK' /\ KeepsJoined
BY FailSound DEF OnClose, Live, MeshOK, Shapes

LEMMA HandshakeTimeoutSound ==
  ASSUME MeshOK, NEW n \in Node, NEW m \in Node, HandshakeTimeout(n, m)
  PROVE  MeshOK' /\ KeepsJoined
BY FailSound DEF HandshakeTimeout, Stuck, Live, MeshOK, Shapes

LEMMA ForgetSound ==
  ASSUME MeshOK, NEW n \in Node, NEW m \in Node, Forget(n, m),
         pending' \subseteq pending \ Moot(n, m), UNCHANGED <<second, decrypting, dials>>,
         faults' \in 0..MaxFaults
  PROVE  MeshOK' /\ KeepsJoined
<1>1. /\ links' \in [Node -> [Node -> Link]]
      /\ \A i, j \in Node : KeptOrGone(i, j)
      /\ up' \subseteq up
      /\ events' \subseteq events /\ events' = events \ Moot(n, m)
      /\ Offers' = Offers
      /\ KeepsJoined
  BY DropLinkSound DEF Forget
<1>2. peers' \in [Node -> [Node -> Nat \cup {Unknown}]] /\ backoff' \in [Node -> SUBSET Node]
  BY DEF Forget, MeshOK, Shapes
<1>3. Shapes'
  BY <1>1, <1>2 DEF MeshOK, Shapes
<1>4. \A i \in Node : second[i] <= second'[i]
  BY DEF MeshOK, Shapes
<1>5. Order'
  BY <1>1, <1>3, <1>4, OrderKept DEF MeshOK
<1> QED
  BY <1>1, <1>3, <1>5 DEF MeshOK

LEMMA HandleLeaveSound ==
  ASSUME MeshOK, NEW e \in pending, HandleLeave(e)
  PROVE  MeshOK' /\ KeepsJoined
<1>1. e.to \in Node /\ e.from \in Node /\ UNCHANGED <<second, decrypting, dials, faults>>
  BY DEF HandleLeave, MeshOK, Shapes, Signal
<1>2. CASE e.at < peers[e.to][e.from] \/ Live(e.to, e.from)
  <2>1. UNCHANGED <<peers, backoff, links, up, events>> /\ pending' \subseteq pending
    BY <1>2 DEF HandleLeave, Deliver
  <2>2. Shapes'
    BY <1>1, <2>1 DEF MeshOK, Shapes, Offers
  <2>3. Order'
    BY <1>1, <2>1 DEF MeshOK, Order, Ranges, OffersInOrder, StartsInOrder, SessionsOwned, Offers
  <2>4. KeepsJoined
    BY <2>1 DEF KeepsJoined, Joined, Live
  <2> QED
    BY <2>2, <2>3, <2>4 DEF MeshOK
<1>3. CASE ~(e.at < peers[e.to][e.from] \/ Live(e.to, e.from))
  <2>1. Forget(e.to, e.from) /\ pending' \subseteq pending \ Moot(e.to, e.from)
    BY <1>3 DEF HandleLeave
  <2>2. faults' \in 0..MaxFaults
    BY <1>1 DEF MeshOK, Shapes
  <2> QED
    BY <1>1, <2>1, <2>2, ForgetSound
<1> QED
  BY <1>2, <1>3

-----------------------------------------------------------------------------
(* Faults                                                                    *)

LEMMA RestartSound ==
  ASSUME MeshOK, NEW n \in Node, NEW leave \in BOOLEAN, NEW later \in {0, 1},
         Restart(n, leave, later), faults' \in 0..MaxFaults
  PROVE  MeshOK'
<1> DEFINE moot == UNION {Moot(n, m) : m \in Node}
           bye == {Event(n, m, 0, "leave", second[n]) :
                     m \in IF leave THEN Node \ {n} ELSE {}}
<1>1. /\ links' = [links EXCEPT ![n] = [m \in Node |-> NoLink]]
      /\ up' \subseteq up
      /\ decrypting' = [decrypting EXCEPT ![n] = {}]
      /\ events' = (events \ moot) \cup bye
      /\ pending' = (pending \ moot) \cup bye \cup {e \in events' : e.to = n}
      /\ second' = [second EXCEPT ![n] = @ + later]
      /\ dials' = dials
  BY DEF Restart
<1>2. /\ peers' \in [Node -> [Node -> Nat \cup {Unknown}]]
      /\ backoff' \in [Node -> SUBSET Node]
  BY DEF Restart, MeshOK, Shapes
<1>3. links' \in [Node -> [Node -> Link]] /\ \A i, j \in Node : KeptOrGone(i, j)
  BY <1>1, NoLinkTyped DEF MeshOK, Shapes, KeptOrGone
<1>4. /\ second' \in [Node -> Nat] /\ second[n] \in Nat
      /\ \A i \in Node : second[i] <= second'[i]
  BY <1>1 DEF MeshOK, Shapes
<1>5. \A e \in bye : e \in Signal /\ e.kind = "leave" /\ e.session = 0 /\ e.at = second[n] /\ e.from = n
  <2> SUFFICES ASSUME NEW m \in Node, NEW e, e = Event(n, m, 0, "leave", second[n])
               PROVE  /\ e \in Signal /\ e.kind = "leave" /\ e.session = 0
                      /\ e.at = second[n] /\ e.from = n
    OBVIOUS
  <2> QED
    BY <1>4 DEF Event, Signal
<1>6. Offers' = Offers
  <2>1. \A e \in moot : e.kind # "offer"
    BY DEF Moot
  <2> HIDE DEF moot, bye
  <2> QED
    BY <1>1, <1>5, <2>1 DEF Offers
<1>7. decrypting' \in [Node -> SUBSET Offers] /\ \A i \in Node : \A e \in decrypting'[i] : e.to = i
  BY <1>1 DEF MeshOK, Shapes
<1>8. Shapes'
  <2> HIDE DEF moot, bye
  <2>1. events' \subseteq Signal /\ pending' \subseteq events'
    BY <1>1, <1>5 DEF MeshOK, Shapes
  <2>2. up' \subseteq 1..dials'
    BY <1>1 DEF MeshOK, Shapes
  <2> QED
    BY <1>1, <1>2, <1>3, <1>4, <1>6, <1>7, <2>1, <2>2 DEF MeshOK, Shapes
<1>9. \A e \in events' : e \in events \/ (e.kind # "offer" /\ e.session <= dials
                                           /\ e.at <= second[e.from])
  <2>1. dials \in Nat
    BY DEF MeshOK, Shapes
  <2> HIDE DEF moot, bye
  <2> QED
    BY <1>1, <1>4, <1>5, <2>1
<1>10. Order'
  BY <1>1, <1>3, <1>4, <1>8, <1>9, OrderKept DEF MeshOK
<1> QED
  BY <1>8, <1>10 DEF MeshOK

LEMMA FaultSound == ASSUME MeshOK, Fault PROVE MeshOK' /\ faults' > faults
<1>1. faults' \in 0..MaxFaults /\ faults' > faults
  BY MeshAssumption DEF Fault, MeshOK, Shapes
<1>2. ASSUME NEW n \in Node, NEW m \in Node, Prune(n, m) PROVE MeshOK'
  BY <1>1, <1>2, ForgetSound DEF Prune
<1>3. ASSUME NEW n \in Node, NEW m \in Node, FailEarly(n, m) PROVE MeshOK'
  BY <1>1, <1>3, FailSound DEF FailEarly
<1>4. ASSUME NEW s \in up, LinkFails(s) PROVE MeshOK'
  <2>1. Shapes'
    BY <1>1, <1>4 DEF LinkFails, MeshOK, Shapes, Offers
  <2>2. Order'
    BY <1>4 DEF LinkFails, MeshOK, Order, Ranges, OffersInOrder, StartsInOrder,
       SessionsOwned, Offers
  <2> QED
    BY <2>1, <2>2 DEF MeshOK
<1>5. ASSUME NEW e \in pending, Lose(e) PROVE MeshOK'
  <2>1. Shapes'
    BY <1>1, <1>5 DEF Lose, Deliver, MeshOK, Shapes, Offers
  <2>2. Order'
    BY <1>5 DEF Lose, MeshOK, Order, Ranges, OffersInOrder, StartsInOrder, SessionsOwned, Offers
  <2> QED
    BY <2>1, <2>2 DEF MeshOK
<1>6. ASSUME NEW n \in Node, NEW leave \in BOOLEAN, NEW later \in {0, 1}, Restart(n, leave, later)
      PROVE  MeshOK'
  BY <1>1, <1>6, RestartSound
<1> QED
  BY <1>1, <1>2, <1>3, <1>4, <1>5, <1>6 DEF Fault

-----------------------------------------------------------------------------
LEMMA InitSound == Init => MeshOK
<1> SUFFICES ASSUME Init PROVE MeshOK
  OBVIOUS
<1>1. Shapes
  BY NoLinkTyped, MeshAssumption DEF Init, Shapes, Offers
<1>2. \A n, m \in Node : links[n][m] = NoLink
  BY DEF Init
<1>3. Ranges
  BY <1>2, NoLinkTyped DEF Init, Ranges
<1>4. OffersInOrder /\ StartsInOrder /\ SessionsOwned
  BY <1>2, NoLinkTyped DEF Init, OffersInOrder, StartsInOrder, SessionsOwned, Offers
<1> QED
  BY <1>1, <1>3, <1>4 DEF MeshOK, Order

LEMMA ProgressSound == ASSUME MeshOK, Progress PROVE MeshOK' /\ KeepsJoined
<1>1. ASSUME NEW n \in Node, NEW m \in Node, \E at \in 0..second[m] : Hear(n, m, at)
      PROVE  MeshOK' /\ KeepsJoined
  BY <1>1, HearSound
<1>2. ASSUME NEW n \in Node, NEW m \in Node,
             \/ FillSlots(n, m) \/ BackoffEnds(n, m) \/ Describe(n, m) \/ Connect(n, m)
             \/ OnOpen(n, m) \/ OnClose(n, m) \/ HandshakeTimeout(n, m)
      PROVE  MeshOK' /\ KeepsJoined
  BY <1>2, FillSlotsSound, BackoffEndsSound, DescribeSound, ConnectSound, OnOpenSound,
     OnCloseSound, HandshakeTimeoutSound
<1>3. ASSUME NEW e \in pending,
             ReceiveOffer(e) \/ HandleAnswer(e) \/ HandleIce(e) \/ HandleLeave(e)
      PROVE  MeshOK' /\ KeepsJoined
  BY <1>3, ReceiveOfferSound, HandleAnswerSound, HandleIceSound, HandleLeaveSound
<1>4. ASSUME NEW n \in Node, NEW e \in decrypting[n], HandleOffer(n, e)
      PROVE  MeshOK' /\ KeepsJoined
  BY <1>4, HandleOfferSound
<1> QED
  BY <1>1, <1>2, <1>3, <1>4 DEF Progress

LEMMA StutterSound == ASSUME MeshOK, UNCHANGED vars PROVE MeshOK' /\ KeepsJoined
<1>1. Shapes'
  BY DEF vars, MeshOK, Shapes, Offers
<1>2. Order'
  BY DEF vars, MeshOK, Order, Ranges, OffersInOrder, StartsInOrder, SessionsOwned, Offers
<1>3. KeepsJoined
  BY DEF vars, KeepsJoined, Joined, Live
<1> QED
  BY <1>1, <1>2, <1>3 DEF MeshOK

LEMMA StepSound == MeshOK /\ [Next]_vars => MeshOK'
BY ProgressSound, FaultSound, StutterSound DEF Next

LEMMA MeshAlways == Spec => []MeshOK
BY InitSound, StepSound, PTL DEF Spec

(* TypeOK: links, SIGNALs and clocks have the shape the handlers rely on, and    *)
(* only the smaller id of two holds a link it dialled (webrtc.ts:210).         *)
THEOREM TypeCorrect == Spec => []TypeOK
<1>1. MeshOK => TypeOK
  <2> SUFFICES ASSUME MeshOK PROVE TypeOK
    OBVIOUS
  <2>1. \A n, m \in Node :
          /\ links[n][m] \in [session : 0..dials, init : BOOLEAN, started : Nat,
                              sent : BOOLEAN, remote : BOOLEAN, cand : BOOLEAN, open : BOOLEAN]
          /\ links[n][m].init => n < m
    <3> SUFFICES ASSUME NEW n \in Node, NEW m \in Node
                 PROVE  /\ links[n][m] \in [session : 0..dials, init : BOOLEAN, started : Nat,
                              sent : BOOLEAN, remote : BOOLEAN, cand : BOOLEAN, open : BOOLEAN]
                        /\ links[n][m].init => n < m
      OBVIOUS
    <3>1. links[n][m] \in Link /\ links[n][m].session <= dials
      BY DEF MeshOK, Shapes, Order, Ranges
    <3>2. links[n][m].session \in 0..dials
      BY <3>1 DEF Link, MeshOK, Shapes
    <3> QED
      BY <3>1, <3>2 DEF Link, MeshOK, Order, Ranges
  <2>2. \A e \in events :
          /\ e.from \in Node /\ e.to \in Node /\ e.session \in 0..dials
          /\ e.kind \in {"offer", "answer", "ice", "leave"}
          /\ e.at \in 0..second[e.from]
    BY DEF MeshOK, Shapes, Order, Ranges, Signal
  <2>3. \A n \in Node : decrypting[n] \subseteq events
    BY DEF MeshOK, Shapes, Offers
  <2> QED
    BY <2>1, <2>2, <2>3 DEF TypeOK, MeshOK, Shapes
<1> QED
  BY <1>1, MeshAlways, PTL

(* LiveLinkKept: no SIGNAL, however old or often replayed, and no LEAVE or timer  *)
(* ends a link that is open at both ends (webrtc.ts:152-159, 363-367).         *)
THEOREM LiveLinksAreKept == Spec => LiveLinkKept
<1> DEFINE Kept == \A n, m \in Node : Joined(n, m) /\ ~Joined(n, m)' => faults' > faults
<1>1. MeshOK /\ [Next]_vars => [Kept]_vars
  <2> SUFFICES ASSUME MeshOK, Next PROVE Kept
    OBVIOUS
  <2>1. CASE Progress
    BY <2>1, ProgressSound DEF KeepsJoined
  <2>2. CASE Fault
    BY <2>2, FaultSound
  <2> QED
    BY <2>1, <2>2 DEF Next
<1> QED
  BY <1>1, MeshAlways, PTL DEF Spec, LiveLinkKept
=============================================================================
