-------------------------------- MODULE Mesh --------------------------------
(***************************************************************************)
(* Class Mesh of client/webrtc.ts at every node of one conversation: who   *)
(* dials whom, the offer / answer / candidate handshake over relays that   *)
(* reorder, lose and replay SIGNALs, and what becomes of links.            *)
(*                                                                         *)
(* A link is a record; `session` 0 stands for no entry in the Map.         *)
(* `started` is sessionStartedAt, `remote` haveRemote, `cand` that some    *)
(* candidate of the other end was kept, `sent` that this end's             *)
(* description was published.  The clock of a node counts seconds, and     *)
(* only the steps that take one advance it.  A browser that gets nothing   *)
(* new to do ends in a state without steps.                                *)
(***************************************************************************)
EXTENDS Integers, FiniteSets

CONSTANTS Node,       \* node ids; the smaller of two dials
          MaxActive,  \* MAX_ACTIVE_LINKS
          MaxTotal,   \* MAX_TOTAL_LINKS
          MaxDials,   \* bound: sessions in a behaviour
          MaxFaults   \* bound: faults in a behaviour

ASSUME MeshAssumption ==
  /\ Node \subseteq Nat
  /\ MaxActive \in Nat \ {0}
  /\ MaxTotal \in Nat /\ MaxTotal >= MaxActive
  /\ MaxDials \in Nat
  /\ MaxFaults \in Nat

VARIABLES
  peers,      \* peers[n][m]: last_seen of m at n, or Unknown
  links,      \* links[n][m]: n's link to m
  backoff,    \* backoff[n]: peers n may not dial yet
  second,     \* second[n]: nowSeconds() at n
  events,     \* SIGNAL and LEAVE events the relays hold, one per addressee
  pending,    \* those the pool of the addressee has not delivered yet
  decrypting, \* decrypting[n]: SIGNALs in the await of decryptSignal
  up,         \* sessions whose DataChannel is up
  dials,      \* sessions drawn so far
  faults      \* faults so far

vars == <<peers, links, backoff, second, events, pending, decrypting, up, dials,
          faults>>

Unknown == -1

NewLink(s, init, at) ==
  [session |-> s, init |-> init, started |-> at, sent |-> FALSE,
   remote |-> FALSE, cand |-> FALSE, open |-> FALSE]

NoLink == NewLink(0, FALSE, 0)

Event(n, m, s, kind, at) ==
  [from |-> n, to |-> m, session |-> s, kind |-> kind, at |-> at]

Linked(n) == {m \in Node : links[n][m].session # 0}

(* `link.state === "open" && link.dc.readyState === "open"`                *)
Live(n, m) == links[n][m].open /\ links[n][m].session \in up

Init ==
  /\ peers = [n \in Node |-> [m \in Node |-> Unknown]]
  /\ links = [n \in Node |-> [m \in Node |-> NoLink]]
  /\ backoff = [n \in Node |-> {}]
  /\ second = [n \in Node |-> 0]
  /\ events = {} /\ pending = {} /\ up = {}
  /\ decrypting = [n \in Node |-> {}]
  /\ dials = 0 /\ faults = 0

-----------------------------------------------------------------------------
(* Dialling                                                                *)

(* Mutant: either of two dials.                                            *)
MayDial_Either(n, m) ==
  /\ m \notin Linked(n) \cup backoff[n]
  /\ Cardinality(Linked(n)) < MaxActive
  /\ dials < MaxDials

(* The early returns of maybeConnect, which fillSlots repeats.             *)
MayDial(n, m) ==
  /\ n < m
  /\ m \notin Linked(n) \cup backoff[n]
  /\ Cardinality(Linked(n)) < MaxActive
  /\ dials < MaxDials

(* initiate: the link is in place before the first await.                  *)
Initiate(n, m) ==
  /\ dials' = dials + 1
  /\ links' = [links EXCEPT ![n][m] = NewLink(dials', TRUE, second[n])]

(* A JOIN or a HEARTBEAT of m, or a row of a peer table, dated at.  A      *)
(* HEARTBEAT of an unknown node does nothing, a JOIN of it comes within    *)
(* 240 s.                                                                  *)
Hear(n, m, at) ==
  /\ n # m
  /\ peers[n][m] < at
  /\ peers' = [peers EXCEPT ![n][m] = at]
  /\ IF MayDial(n, m) THEN Initiate(n, m) ELSE UNCHANGED <<links, dials>>
  /\ UNCHANGED <<backoff, second, events, pending, decrypting, up, faults>>

(* The retry timer, setPriority and the timer of dropLink.                 *)
FillSlots(n, m) ==
  /\ peers[n][m] # Unknown
  /\ MayDial(n, m)
  /\ Initiate(n, m)
  /\ UNCHANGED <<peers, backoff, second, events, pending, decrypting, up, faults>>

(* attempt.nextAt passes: two seconds at least after the failure.          *)
BackoffEnds(n, m) ==
  /\ m \in backoff[n]
  /\ backoff' = [backoff EXCEPT ![n] = @ \ {m}]
  /\ second' = [second EXCEPT ![n] = @ + 1]
  /\ UNCHANGED <<peers, links, events, pending, decrypting, up, dials, faults>>

-----------------------------------------------------------------------------
(* The handshake                                                           *)

(* A local description is in place and published, its candidates with it;  *)
(* the answering end has set the remote one just before.  A link that was  *)
(* replaced during the await is no longer in links.  Bound: what nobody    *)
(* would keep, because the dialling end has dropped the session, is not    *)
(* put on the relays.                                                      *)
Describe(n, m) ==
  LET l == links[n][m]
      kinds == IF l.init THEN {"offer", "ice"}
               ELSE {k \in {"answer", "ice"} : links[m][n].session = l.session}
      news == {Event(n, m, l.session, k, second[n]) : k \in kinds}
  IN /\ l.session # 0 /\ ~l.sent
     /\ links' = [links EXCEPT ![n][m].sent = TRUE,
                               ![n][m].remote = @ \/ ~l.init]
     /\ events' = events \cup news
     /\ pending' = pending \cup news
     /\ UNCHANGED <<peers, backoff, second, decrypting, up, dials, faults>>

(* A pool delivers an event once per page load.                            *)
Deliver(e) ==
  /\ e \in pending
  /\ pending' = pending \ {e}

(* A sender without a JOIN is not heard.                                   *)
Known(e) == peers[e.to][e.from] # Unknown

(* handleSignal up to the await of decryptSignal.                          *)
ReceiveOffer(e) ==
  /\ Deliver(e) /\ e.kind = "offer"
  /\ decrypting' = IF Known(e) THEN [decrypting EXCEPT ![e.to] = @ \cup {e}]
                   ELSE decrypting
  /\ UNCHANGED <<peers, links, backoff, second, events, up, dials, faults>>

(* Mutant: an offer need not be newer than the session it replaces.        *)
Outdated_AnyAge(n, e) ==
  LET old == links[n][e.from]
  IN /\ old.session # 0
     /\ \/ old.session = e.session
        \/ ~old.open /\ old.init /\ n < e.from

(* An offer that does not replace the link n has to its sender: the same   *)
(* session, one no newer, or glare that n wins.                            *)
Outdated(n, e) ==
  LET old == links[n][e.from]
  IN /\ old.session # 0
     /\ \/ old.session = e.session
        \/ e.at <= old.started
        \/ ~old.open /\ old.init /\ n < e.from

(* handleSignal after the await: peers is not read again.                  *)
HandleOffer(n, e) ==
  /\ e \in decrypting[n]
  /\ decrypting' = [decrypting EXCEPT ![n] = @ \ {e}]
  /\ IF Outdated(n, e) THEN UNCHANGED <<links, up>>
     ELSE /\ up' = up \ {links[n][e.from].session}
          /\ links' = [links EXCEPT ![n][e.from] =
                         IF Cardinality(Linked(n) \ {e.from}) < MaxTotal
                         THEN NewLink(e.session, FALSE, e.at) ELSE NoLink]
  /\ UNCHANGED <<peers, backoff, second, events, pending, dials, faults>>

(* Answers and candidates take the same await, but what they do depends on *)
(* nothing that was read before it: a peer that is forgotten meanwhile     *)
(* takes its link along.                                                   *)
HandleAnswer(e) ==
  LET l == links[e.to][e.from]
  IN /\ Deliver(e) /\ e.kind = "answer"
     /\ links' = [links EXCEPT ![e.to][e.from].remote =
                    @ \/ (Known(e) /\ l.session = e.session /\ l.init)]
     /\ UNCHANGED <<peers, backoff, second, events, decrypting, up, dials, faults>>

HandleIce(e) ==
  /\ Deliver(e) /\ e.kind = "ice"
  /\ links' = [links EXCEPT ![e.to][e.from].cand =
                 @ \/ (Known(e) /\ links[e.to][e.from].session = e.session)]
  /\ UNCHANGED <<peers, backoff, second, events, decrypting, up, dials, faults>>

-----------------------------------------------------------------------------
(* Links                                                                   *)

(* WebRTC can connect two ends of a session that hold each other's         *)
(* description when one of them has a candidate of the other.              *)
Connectable(n, m) ==
  /\ links[n][m].session = links[m][n].session
  /\ links[n][m].session \notin up \cup {0}
  /\ links[n][m].remote /\ links[m][n].remote
  /\ links[n][m].cand \/ links[m][n].cand

Connect(n, m) ==
  /\ Connectable(n, m)
  /\ ~links[n][m].open /\ ~links[m][n].open
  /\ up' = up \cup {links[n][m].session}
  /\ UNCHANGED <<peers, links, backoff, second, events, pending, decrypting,
                 dials, faults>>

(* dc.onopen resets the backoff.                                           *)
OnOpen(n, m) ==
  /\ links[n][m].session \in up
  /\ ~links[n][m].open
  /\ links' = [links EXCEPT ![n][m].open = TRUE]
  /\ backoff' = [backoff EXCEPT ![n] = @ \ {m}]
  /\ UNCHANGED <<peers, second, events, pending, decrypting, up, dials, faults>>

(* The answers and candidates of a session n dialled: none matters to any  *)
(* end once n has dropped it, and the model forgets them then.             *)
Moot(n, m) == {e \in events : /\ e.session = links[n][m].session
                              /\ e.kind \in {"answer", "ice"} /\ n < m}

(* dropLink, which closes the other end's channel too.                     *)
DropLink(n, m) ==
  /\ links' = [links EXCEPT ![n][m] = NoLink]
  /\ up' = up \ {links[n][m].session}
  /\ events' = events \ Moot(n, m)

(* dropLink and recordFailure: the handshake timer, a pc that failed, a    *)
(* channel that closed or missed its PONGs, a description refused.  Only   *)
(* the end that dials reads its backoff.                                   *)
Fail(n, m) ==
  /\ DropLink(n, m)
  /\ backoff' = [backoff EXCEPT ![n] = @ \cup {i \in {m} : n < i}]
  /\ pending' = pending \ Moot(n, m)
  /\ UNCHANGED <<peers, second, decrypting, dials>>

OnClose(n, m) ==
  /\ links[n][m].open
  /\ links[n][m].session \notin up
  /\ Fail(n, m)
  /\ UNCHANGED faults

(* Nothing of the session is on its way: 25 s are far more than a delivery *)
(* takes, so this is when the handshake timer fires; sooner is a fault.    *)
(* Bound: futile sessions, before the other end has heard a JOIN, are one. *)
Stuck(n, m) ==
  LET s == links[n][m].session
  IN /\ s # 0 /\ s \notin up /\ ~links[n][m].open
     /\ \A e \in pending : e.session # s
     /\ \A e \in UNION {decrypting[i] : i \in Node} : e.session # s
     /\ links[n][m].sent
     /\ peers[m][n] # Unknown
     /\ links[m][n].session = s => links[m][n].sent
     /\ ~Connectable(n, m)

(* Mutant: only the answering end starts the timer.                        *)
HandshakeTimeout_OneSided(n, m) ==
  ~links[n][m].init /\ Stuck(n, m) /\ Fail(n, m) /\ UNCHANGED faults

HandshakeTimeout(n, m) == Stuck(n, m) /\ Fail(n, m) /\ UNCHANGED faults

(* Forgetting a peer: its link, the backoff and the retry timer go too.    *)
Forget(n, m) ==
  /\ ~Live(n, m)
  /\ peers' = [peers EXCEPT ![n][m] = Unknown]
  /\ backoff' = [backoff EXCEPT ![n] = @ \ {m}]
  /\ DropLink(n, m)

(* A LEAVE no older than what was last heard, without a live channel; also  *)
(* of a sender not in peers, whose offer may have been decrypted late.     *)
HandleLeave(e) ==
  LET n == e.to
      m == e.from
  IN /\ e \in pending /\ e.kind = "leave"
     /\ IF e.at < peers[n][m] \/ Live(n, m)
        THEN /\ Deliver(e)
             /\ UNCHANGED <<peers, backoff, links, up, events>>
        ELSE /\ Forget(n, m)
             /\ pending' = pending \ (Moot(n, m) \cup {e})
     /\ UNCHANGED <<second, decrypting, dials, faults>>

-----------------------------------------------------------------------------
(* Faults                                                                  *)

(* The 20 s timer finds no HEARTBEAT for 180 s.                            *)
Prune(n, m) ==
  /\ peers[n][m] # Unknown
  /\ Forget(n, m)
  /\ pending' = pending \ Moot(n, m)
  /\ UNCHANGED <<second, decrypting, dials>>

(* The handshake timer beats a SIGNAL, or WebRTC refuses a description.    *)
FailEarly(n, m) ==
  /\ links[n][m].session # 0 /\ ~links[n][m].open
  /\ Fail(n, m)

(* The network between two browsers fails.                                 *)
LinkFails(s) ==
  /\ up' = up \ {s}
  /\ UNCHANGED <<peers, links, backoff, second, events, pending, decrypting, dials>>

(* A relay never delivers a SIGNAL.                                        *)
Lose(e) ==
  /\ Deliver(e) /\ e.kind # "leave"
  /\ UNCHANGED <<peers, links, backoff, second, events, decrypting, up, dials>>

(* The tab closes, with a LEAVE if stop() got that far, and opens again in *)
(* this second or later: everything is forgotten, and the answer to REQ    *)
(* replays whatever the relays hold.                                       *)
Restart(n, leave, later) ==
  /\ peers' = [peers EXCEPT ![n] = [m \in Node |-> Unknown]]
  /\ links' = [links EXCEPT ![n] = [m \in Node |-> NoLink]]
  /\ up' = up \ {links[n][m].session : m \in Node}
  /\ backoff' = [backoff EXCEPT ![n] = {}]
  /\ decrypting' = [decrypting EXCEPT ![n] = {}]
  /\ LET moot == UNION {Moot(n, m) : m \in Node}
         bye == {Event(n, m, 0, "leave", second[n]) :
                   m \in IF leave THEN Node \ {n} ELSE {}}
     IN /\ events' = (events \ moot) \cup bye
        /\ pending' = (pending \ moot) \cup bye \cup {e \in events' : e.to = n}
  /\ second' = [second EXCEPT ![n] = @ + later]
  /\ UNCHANGED dials

(* Bound: a restart counts for two of the faults of a behaviour.           *)
Fault ==
  /\ faults' \in (faults + 1)..MaxFaults
  /\ \/ /\ faults' = faults + 1
        /\ \/ \E n, m \in Node : Prune(n, m) \/ FailEarly(n, m)
           \/ \E s \in up : LinkFails(s)
           \/ \E e \in pending : Lose(e)
     \/ /\ faults' = faults + 2
        /\ \E n \in Node, leave \in BOOLEAN, later \in {0, 1} :
             Restart(n, leave, later)

Progress ==
  \/ \E n, m \in Node : \E at \in 0..second[m] : Hear(n, m, at)
  \/ \E n, m \in Node : \/ FillSlots(n, m) \/ BackoffEnds(n, m)
                        \/ Describe(n, m) \/ Connect(n, m) \/ OnOpen(n, m)
                        \/ OnClose(n, m) \/ HandshakeTimeout(n, m)
  \/ \E e \in pending : \/ ReceiveOffer(e) \/ HandleAnswer(e) \/ HandleIce(e)
                        \/ HandleLeave(e)
  \/ \E n \in Node : \E e \in decrypting[n] : HandleOffer(n, e)

Next == Progress \/ Fault

(* A node that can do something at some time does: timers fire, awaits     *)
(* resolve, relays deliver what they do not lose.                          *)
Spec == Init /\ [][Next]_vars /\ WF_vars(Progress)

-----------------------------------------------------------------------------
(* Properties                                                              *)

(* Links, SIGNALs and clocks have the shape the handlers rely on; only the *)
(* smaller id of two holds a link it dialled (mesh 210).                   *)
TypeOK ==
  /\ peers \in [Node -> [Node -> Nat \cup {Unknown}]]
  /\ \A n, m \in Node :
       /\ links[n][m] \in [session : 0..dials, init : BOOLEAN, started : Nat,
                           sent : BOOLEAN, remote : BOOLEAN, cand : BOOLEAN,
                           open : BOOLEAN]
       /\ links[n][m].init => n < m
  /\ backoff \in [Node -> SUBSET Node]
  /\ second \in [Node -> Nat]
  /\ \A e \in events :
       /\ e.from \in Node /\ e.to \in Node /\ e.session \in 0..dials
       /\ e.kind \in {"offer", "answer", "ice", "leave"}
       /\ e.at \in 0..second[e.from]
  /\ pending \subseteq events
  /\ \A n \in Node : decrypting[n] \subseteq events
  /\ up \subseteq 1..dials
  /\ dials \in 0..MaxDials /\ faults \in 0..MaxFaults

Joined(n, m) ==
  /\ links[n][m].session = links[m][n].session
  /\ Live(n, m) /\ Live(m, n)

(* Two browsers that talk go on talking: no SIGNAL, however old, however   *)
(* often replayed, and no LEAVE or timer ends a link that is open at both  *)
(* ends (mesh 152-159, 363-367).  Only a fault does.                       *)
LiveLinkKept ==
  [][\A n, m \in Node : Joined(n, m) /\ ~Joined(n, m)' => faults' > faults]_vars

(* Every node is reached from every other over open links.                 *)
Connected ==
  \A S \in SUBSET Node \ {{}, Node} : \E n \in S, m \in Node \ S : Joined(n, m)

(* "a large channel stays connected without N^2 peer connections" (mesh    *)
(* 102-107), and a lost SIGNAL never strands a pair (README 170): once     *)
(* faults stop, the links that are open hold the conversation together.    *)
StaysConnected == <>[]Connected
=============================================================================
