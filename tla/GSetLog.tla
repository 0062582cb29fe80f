------------------------------- MODULE GSetLog -------------------------------
(***************************************************************************)
(* The grow-only chat log of src/shared/crdt.ts (class GSetLog), as pure    *)
(* operators on the value                                                   *)
(*    [entries : set of entries, vv : [Origin -> Nat], lamport : Nat].      *)
(* An entry is [origin, seq, lamport, body, signed]: body stands for the    *)
(* text or file announced, signed for "carries its author's signature".     *)
(* The Map of the code is keyed by id, so no two entries of one log, and of *)
(* one delta taken from a log, share an id.                                 *)
(***************************************************************************)
EXTENDS Integers, FiniteSets, FiniteSetsExt

(* `${origin}:${seq}`, the key of the Map.                                  *)
Id(e) == <<e.origin, e.seq>>

Ids(S) == {Id(e) : e \in S}

(* What the author wrote, whatever became of the signature.                 *)
Content(e) == [origin |-> e.origin, seq |-> e.seq, lamport |-> e.lamport, body |-> e.body]

Contents(S) == {Content(e) : e \in S}

(* new GSetLog(origin)                                                      *)
EmptyLog(Origin) == [entries |-> {}, vv |-> [o \in Origin |-> 0], lamport |-> 0]

\* Mutant: the sequence number is not advanced.
NewEntry_OffByOne(l, o, body) ==
  [origin |-> o, seq |-> l.vv[o], lamport |-> l.lamport + 1, body |-> body,
   signed |-> FALSE]

\* Mutant: the clock is not advanced.
NewEntry_NoTick(l, o, body) ==
  [origin |-> o, seq |-> l.vv[o] + 1, lamport |-> l.lamport, body |-> body,
   signed |-> FALSE]

(* The entry append() mints: next sequence number of this replica, next     *)
(* tick of its clock, no signature yet (signLogEntry is asynchronous).      *)
NewEntry(l, o, body) ==
  [origin |-> o, seq |-> l.vv[o] + 1, lamport |-> l.lamport + 1, body |-> body,
   signed |-> FALSE]

Append1(l, e) ==
  [entries |-> l.entries \cup {e},
   vv |-> [l.vv EXCEPT ![e.origin] = e.seq],
   lamport |-> e.lamport]

(* The entries of a delta that merge() adds: those whose id is new.         *)
Fresh(l, delta) == {e \in delta : Id(e) \notin Ids(l.entries)}

\* Mutant: the mark follows the last entry, even down.
Merge_LastMark(l, delta) ==
  LET added == Fresh(l, delta)
      seqs(o) == {e.seq : e \in {a \in added : a.origin = o}}
  IN  [entries |-> l.entries \cup added,
       vv |-> [o \in DOMAIN l.vv |-> IF seqs(o) = {} THEN l.vv[o] ELSE Max(seqs(o))],
       lamport |-> Max({l.lamport} \cup {e.lamport : e \in added})]

Merge(l, delta) ==
  LET added == Fresh(l, delta)
  IN  [entries |-> l.entries \cup added,
       vv |-> [o \in DOMAIN l.vv |->
                 Max({l.vv[o]} \cup {e.seq : e \in {a \in added : a.origin = o}})],
       lamport |-> Max({l.lamport} \cup {e.lamport : e \in added})]

(* Delta for a peer that advertised the version vector `remote`.            *)
EntriesMissingFrom(l, remote) == {e \in l.entries : e.seq > remote[e.origin]}

(* GSetLog.fromJSON: a merge into an empty log, with no verification.       *)
FromJSON(Origin, entries) == Merge(EmptyLog(Origin), entries)

(* signLogEntry resolves: the object the log holds gains its signature.     *)
SetSigned(l, e) ==
  [l EXCEPT !.entries = (@ \ {e}) \cup {[e EXCEPT !.signed = TRUE]}]

(* ordered() cut after k entries. Entries with equal clocks are ordered by  *)
(* the hash in their id, which may fall either way: every cut the order by  *)
(* lamport allows is returned.                                              *)
FirstEntries(S, k) ==
  IF Cardinality(S) <= k THEN {S}
  ELSE {T \in SUBSET S : /\ Cardinality(T) = k
                         /\ \A e \in T, f \in S \ T : e.lamport <= f.lamport}
=============================================================================
