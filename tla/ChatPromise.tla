------------------------------ MODULE ChatPromise ------------------------------
(***************************************************************************)
(* What the chat log promises its users, without replicas exchanging        *)
(* frames, signatures or writes: everybody has a view of the entries posted *)
(* so far; a view shows only what somebody posted, under the id its author  *)
(* gave it; a new entry goes after everything its author sees; and what the *)
(* store of a browser has taken, its user sees for as long as the store     *)
(* exists.                                                                   *)
(***************************************************************************)
EXTENDS Integers, FiniteSets

CONSTANTS Node, Origin

VARIABLES
  posted,   \* the contents of every entry written
  view,     \* node -> the contents it shows
  kept      \* node -> the contents its store has

pvars == <<posted, view, kept>>

PId(c) == <<c.origin, c.seq>>

Init ==
  /\ posted = {}
  /\ view = [n \in Node |-> {}]
  /\ kept = [n \in Node |-> {}]

(* A new entry: an id never used, a place after all its author sees.         *)
Post(n) ==
  /\ \E c \in posted' \ posted :
       /\ posted' = posted \cup {c}
       /\ c.origin \in Origin /\ c.origin[1] = n
       /\ \A d \in posted : PId(d) # PId(c)
       /\ \A d \in view[n] : d.lamport < c.lamport
       /\ view' = [view EXCEPT ![n] = @ \cup {c}]
  /\ UNCHANGED kept

(* n hears of entries others posted.                                         *)
Learn(n) ==
  /\ \E news \in SUBSET posted : view' = [view EXCEPT ![n] = @ \cup news]
  /\ UNCHANGED <<posted, kept>>

(* The store of n takes what n shows, or part of it, and all it had before.   *)
Keep(n) ==
  /\ \E saved \in SUBSET view[n] : kept[n] \subseteq saved /\ kept' = [kept EXCEPT ![n] = saved]
  /\ UNCHANGED <<posted, view>>

(* The tab of n restarts and shows what its store has by then.                *)
Recall(n) ==
  /\ \E saved \in SUBSET view[n] :
       /\ kept[n] \subseteq saved
       /\ view' = [view EXCEPT ![n] = saved]
       /\ kept' = [kept EXCEPT ![n] = saved]
  /\ UNCHANGED posted

(* The store of n is lost.                                                    *)
Forget(n) ==
  /\ view' = [view EXCEPT ![n] = {}]
  /\ kept' = [kept EXCEPT ![n] = {}]
  /\ UNCHANGED posted

Next == \E n \in Node : Post(n) \/ Learn(n) \/ Keep(n) \/ Recall(n) \/ Forget(n)

Spec == Init /\ [][Next]_pvars
=============================================================================
