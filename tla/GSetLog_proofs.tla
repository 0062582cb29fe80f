---------------------------- MODULE GSetLog_proofs ----------------------------
(* Facts about the operators of GSetLog, for any set of origins.             *)
EXTENDS GSetLog, FiniteSetTheorems, TLAPS

EntryType(Origin) ==
  [origin : Origin, seq : Nat \ {0}, lamport : Nat, body : Nat, signed : BOOLEAN]

LogShape(Origin) == [entries : SUBSET EntryType(Origin), vv : [Origin -> Nat], lamport : Nat]

(* A set of numbers with an upper bound has a largest member: the least of its *)
(* bounds.                                                                     *)
LEMMA MaxOfBounded ==
  ASSUME NEW S \in SUBSET Nat, S # {}, NEW b \in Nat, \A x \in S : x <= b
  PROVE  Max(S) \in S /\ \A x \in S : x <= Max(S)
<1> DEFINE U == {u \in Nat : \A x \in S : x <= u}
<1>1. \E u \in U : \A y \in U : ~(<<y, u>> \in OpToRel(<, Nat))
  <2>1. U \subseteq Nat /\ U # {}
    OBVIOUS
  <2> QED
    BY <2>1, WFMin, NatLessThanWellFounded
<1>2. PICK u \in U : \A y \in U : ~(y < u)
  BY <1>1 DEF OpToRel
<1>3. u \in S
  <2> SUFFICES ASSUME u \notin S PROVE FALSE
    OBVIOUS
  <2>1. PICK x \in S : TRUE
    OBVIOUS
  <2>2. u - 1 \in U
    BY <2>1
  <2> QED
    BY <1>2, <2>2
<1>4. u \in S /\ \A x \in S : u >= x
  BY <1>3
<1> QED
  BY <1>4 DEF Max

(* Adding some numbers under a bound to a number, its maximum is a number, and *)
(* at least as large as each.                                                 *)
LEMMA MaxGrows ==
  ASSUME NEW k \in Nat, NEW S \in SUBSET Nat, NEW b \in Nat, \A x \in S : x <= b
  PROVE  /\ Max({k} \cup S) \in Nat
         /\ Max({k} \cup S) \in {k} \cup S
         /\ Max({k} \cup S) >= k
         /\ \A x \in S : x <= Max({k} \cup S)
<1>1. \A x \in {k} \cup S : x <= k + b
  OBVIOUS
<1>2. /\ {k} \cup S \in SUBSET Nat
      /\ {k} \cup S # {}
      /\ k + b \in Nat
  OBVIOUS
<1> QED
  BY <1>1, <1>2, MaxOfBounded

(* What merge() returns: a log, holding what it held and entries of the delta,  *)
(* with marks that never go down.                                             *)
LEMMA MergeShape ==
  ASSUME NEW Origin, NEW l \in LogShape(Origin), NEW delta \in SUBSET EntryType(Origin),
         NEW b \in Nat, \A e \in delta : e.seq <= b /\ e.lamport <= b
  PROVE  /\ Merge(l, delta) \in LogShape(Origin)
         /\ Merge(l, delta).entries = l.entries \cup Fresh(l, delta)
         /\ Fresh(l, delta) \subseteq delta
         /\ \A o \in Origin : Merge(l, delta).vv[o] >= l.vv[o]
         /\ \A e \in Fresh(l, delta) : e.seq <= Merge(l, delta).vv[e.origin]
         /\ \A o \in Origin : \/ Merge(l, delta).vv[o] = l.vv[o]
                              \/ \E e \in Fresh(l, delta) :
                                   e.origin = o /\ e.seq = Merge(l, delta).vv[o]
<1> DEFINE added == Fresh(l, delta)
           seqs(o) == {e.seq : e \in {a \in added : a.origin = o}}
           ticks == {e.lamport : e \in added}
<1>1. added \subseteq delta
  BY DEF Fresh
<1>2. \A o \in Origin : /\ Max({l.vv[o]} \cup seqs(o)) \in Nat
                        /\ Max({l.vv[o]} \cup seqs(o)) \in {l.vv[o]} \cup seqs(o)
                        /\ Max({l.vv[o]} \cup seqs(o)) >= l.vv[o]
                        /\ \A x \in seqs(o) : x <= Max({l.vv[o]} \cup seqs(o))
  <2> TAKE o \in Origin
  <2>1. l.vv[o] \in Nat
    BY DEF LogShape
  <2>2. seqs(o) \in SUBSET Nat /\ \A x \in seqs(o) : x <= b
    BY <1>1 DEF EntryType
  <2> HIDE DEF seqs
  <2> QED
    BY <2>1, <2>2, MaxGrows
<1>3. Max({l.lamport} \cup ticks) \in Nat
  <2>1. l.lamport \in Nat
    BY DEF LogShape
  <2>2. ticks \in SUBSET Nat /\ \A x \in ticks : x <= b
    BY <1>1 DEF EntryType
  <2> HIDE DEF ticks
  <2> QED
    BY <2>1, <2>2, MaxGrows
<1>4. DOMAIN l.vv = Origin
  BY DEF LogShape
<1>5. Merge(l, delta) =
        [entries |-> l.entries \cup added,
         vv |-> [o \in Origin |-> Max({l.vv[o]} \cup seqs(o))],
         lamport |-> Max({l.lamport} \cup ticks)]
  BY <1>4 DEF Merge
<1>6. l.entries \cup added \in SUBSET EntryType(Origin)
  BY <1>1 DEF LogShape
<1>7. Merge(l, delta) \in LogShape(Origin)
  <2> DEFINE marks == [o \in Origin |-> Max({l.vv[o]} \cup seqs(o))]
             clock == Max({l.lamport} \cup ticks)
             held == l.entries \cup added
  <2>1. marks \in [Origin -> Nat]
    BY <1>2
  <2>2. clock \in Nat /\ held \in SUBSET EntryType(Origin)
    BY <1>3, <1>6
  <2>3. Merge(l, delta) = [entries |-> held, vv |-> marks, lamport |-> clock]
    BY <1>5
  <2> HIDE DEF marks, clock, held
  <2> QED
    BY <2>1, <2>2, <2>3 DEF LogShape
<1>8. \A e \in added : e.seq <= Merge(l, delta).vv[e.origin]
  <2> TAKE e \in added
  <2>1. e.origin \in Origin /\ e.seq \in seqs(e.origin)
    BY <1>1 DEF EntryType
  <2>2. Merge(l, delta).vv[e.origin] = Max({l.vv[e.origin]} \cup seqs(e.origin))
    BY <2>1, <1>5
  <2> HIDE DEF seqs
  <2> QED
    BY <2>1, <2>2, <1>2
<1>9. \A o \in Origin : \/ Merge(l, delta).vv[o] = l.vv[o]
                        \/ \E e \in added : e.origin = o /\ e.seq = Merge(l, delta).vv[o]
  <2> TAKE o \in Origin
  <2>1. Merge(l, delta).vv[o] = Max({l.vv[o]} \cup seqs(o))
    BY <1>5
  <2>2. Merge(l, delta).vv[o] \in {l.vv[o]} \cup seqs(o)
    BY <1>2, <2>1
  <2> QED
    BY <2>2
<1>10. \A o \in Origin : Merge(l, delta).vv[o] >= l.vv[o]
  BY <1>2, <1>5
<1>11. Merge(l, delta).entries = l.entries \cup added
  BY <1>5
<1> QED
  BY <1>1, <1>7, <1>8, <1>9, <1>10, <1>11

(* The clock of the log passes that of every entry merged in.                  *)
LEMMA MergeClock ==
  ASSUME NEW Origin, NEW l \in LogShape(Origin), NEW delta \in SUBSET EntryType(Origin),
         NEW b \in Nat, \A e \in delta : e.seq <= b /\ e.lamport <= b
  PROVE  /\ Merge(l, delta).lamport >= l.lamport
         /\ \A e \in Fresh(l, delta) : e.lamport <= Merge(l, delta).lamport
<1> DEFINE ticks == {e.lamport : e \in Fresh(l, delta)}
<1>1. l.lamport \in Nat
  BY DEF LogShape
<1>2. ticks \in SUBSET Nat /\ \A x \in ticks : x <= b
  BY DEF EntryType, Fresh
<1>3. Merge(l, delta).lamport = Max({l.lamport} \cup ticks)
  BY DEF Merge
<1>4. \A e \in Fresh(l, delta) : e.lamport \in ticks
  OBVIOUS
<1> HIDE DEF ticks
<1>5. Max({l.lamport} \cup ticks) >= l.lamport /\ \A x \in ticks : x <= Max({l.lamport} \cup ticks)
  BY <1>1, <1>2, MaxGrows
<1> QED
  BY <1>3, <1>4, <1>5

(* A cut of a delta is part of it.                                            *)
LEMMA FirstEntriesSubset ==
  ASSUME NEW S, NEW k, NEW T \in FirstEntries(S, k)
  PROVE  T \subseteq S
BY DEF FirstEntries
=============================================================================
