--------------------------- MODULE Membership_proofs ---------------------------
(***************************************************************************)
(* Theorems about the Name Service and the registry of members, for any pages, *)
(* keys, invitations, foreign records, certificates, periods and lifetimes.   *)
(*                                                                          *)
(* NsOK is the inductive invariant. Wherever a record is, it stands in a slot   *)
(* of its author's if it is a revocation, and if it is a page's own record it    *)
(* is of an earlier session, which ended before the calm began, or an earlier   *)
(* version, or the latest record. From this follows what BackWithin needs: once  *)
(* the earlier sessions have expired, every page has the latest record or is     *)
(* about to receive it.                                                      *)
(***************************************************************************)
EXTENDS Membership, NaturalsInduction, WellFoundedInduction, TLAPS

(* When n last published, and what, if it has in this session.                 *)
Published(n) == started[n] + version[n] * Period

Latest(n) ==
  [name |-> NodeName(n), author |-> n, version |-> version[n], at |-> Published(n),
   ttl |-> Ttl, value |-> "node", sig |-> session[n]]

IsOwn(r, n) ==
  /\ r.ttl = Ttl
  /\ r.at <= now
  /\ \/ r.sig < session[n] /\ r.at <= now - calm
     \/ /\ r.sig = session[n] /\ phase[n] # "loading"
        /\ r.version < version[n] \/ r = Latest(n)

(* The records there can be in stores and messages.                            *)
Sound ==
  {r \in Record :
     /\ r.name \in RevokedNames => IsValidRevocation(r)
     /\ \A n \in Node : r.name = NodeName(n) => IsOwn(r, n)}

StoreOf(recs, A) ==
  /\ recs \in [Name -> A \cup {NoRecord}]
  /\ \A name \in Name : recs[name] # NoRecord => recs[name].name = name

BatchOf(batch, A) ==
  /\ batch \subseteq A
  /\ \A r, s \in batch : r.name = s.name => r = s

Clocks ==
  /\ now \in 0..MaxTime /\ calm \in 0..now
  /\ phase \in [Node -> {"down", "loading", "up"}]
  /\ session \in [Node -> Nat] /\ started \in [Node -> Nat] /\ version \in [Node -> Nat]
  /\ faults \in 0..MaxFaults /\ links \in 0..MaxLinks
  /\ \A n \in Node :
       /\ phase[n] = "loading" => calm = 0 /\ version[n] = 0
       /\ phase[n] = "up" => /\ started[n] <= now - calm
                             /\ Published(n) <= now /\ now <= Due(n)

Stores ==
  /\ records = [n \in Node |-> records[n]]
  /\ disk = [n \in Node |-> disk[n]]
  /\ cached = [n \in Node |-> cached[n]]
  /\ inbox = [n \in Node |-> inbox[n]]
  /\ \A n \in Node :
       /\ StoreOf(records[n], Sound) /\ StoreOf(disk[n], Sound) /\ StoreOf(cached[n], Sound)
       /\ \A batch \in inbox[n] : BatchOf(batch, Sound)

(* n has published after all earlier sessions had expired, and that has not.    *)
OnTime(n) ==
  /\ phase[n] = "up"
  /\ version[n] > 0
  /\ Published(n) >= now - calm + Ttl
  /\ Published(n) + Ttl > now

Reached(n, m) ==
  \/ \E batch \in inbox[m] : Latest(n) \in batch
  \/ records[m][NodeName(n)] = Latest(n)

Spread == \A n, m \in Node : OnTime(n) /\ Running(m) => Reached(n, m)

NsOK == Clocks /\ Stores /\ Spread

-----------------------------------------------------------------------------
(* The names: a page's own is no revocation's, and all differ.                 *)
LEMMA Names ==
  /\ \A n \in Node : NodeName(n) \in Name /\ NodeName(n) \notin RevokedNames
  /\ \A n, m \in Node : NodeName(n) = NodeName(m) => n = m
  /\ RevokedNames \subseteq Name
  /\ \A i \in Invite, k \in Key :
       /\ RevocationName(i, k) \in RevokedNames
       /\ RevocationName(i, k).by = k
<1>1. ASSUME NEW n \in Node, NEW i, NEW k PROVE NodeName(n) # RevocationName(i, k)
  <2>1. DOMAIN NodeName(n) = {"of"} BY DEF NodeName
  <2>2. DOMAIN RevocationName(i, k) = {"invite", "by"} BY DEF RevocationName
  <2> QED BY <2>1, <2>2
<1>2. ASSUME NEW n \in Node, NEW m \in Node, NodeName(n) = NodeName(m) PROVE n = m
  <2>1. NodeName(n).of = n /\ NodeName(m).of = m BY DEF NodeName
  <2> QED BY <1>2, <2>1
<1>3. ASSUME NEW i, NEW k PROVE RevocationName(i, k).by = k BY DEF RevocationName
<1> QED BY <1>1, <1>2, <1>3 DEF Name, RevokedNames

(* Time is counted in whole ticks.                                            *)
LEMMA Times ==
  ASSUME Clocks, NEW n \in Node
  PROVE  /\ now \in Nat /\ calm \in Nat /\ Period \in Nat /\ Ttl \in Nat
         /\ 0 < Period /\ Period <= Ttl
         /\ Published(n) \in Int /\ Due(n) = Published(n) + Period
<1>1. started[n] \in Nat /\ version[n] \in Nat BY DEF Clocks
<1>2. Period \in Nat /\ 0 < Period BY NameAssumption
<1>3. ASSUME NEW v \in Nat PROVE v * Period \in Int /\ (v + 1) * Period = v * Period + Period
  BY <1>2
<1>4. Published(n) \in Int /\ Due(n) = Published(n) + Period
  BY <1>1, <1>2, <1>3 DEF Published, Due
<1> QED BY <1>2, <1>4, NameAssumption, TtlAssumption DEF Clocks

-----------------------------------------------------------------------------
(* Stores and messages under the operations of NameServiceStore.               *)

LEMMA StoreGrows ==
  ASSUME NEW A, NEW B, A \subseteq B, NEW recs, StoreOf(recs, A)
  PROVE  StoreOf(recs, B)
BY DEF StoreOf

LEMMA BatchGrows ==
  ASSUME NEW A, NEW B, A \subseteq B, NEW batch, BatchOf(batch, A)
  PROVE  BatchOf(batch, B)
BY DEF BatchOf

LEMMA NothingStored ==
  ASSUME NEW A PROVE StoreOf(Nothing, A)
BY DEF StoreOf, Nothing

(* What merge() leaves under the name of a record of the message, and elsewhere. *)
LEMMA MergedAt ==
  ASSUME NEW recs, NEW batch, NEW A, BatchOf(batch, A), NEW name \in Name
  PROVE  /\ \A r \in batch : r.name = name => MergeAll(recs, batch)[name] = Merged(recs[name], r)
         /\ (\A r \in batch : r.name # name) => MergeAll(recs, batch)[name] = recs[name]
<1>1. ASSUME NEW r \in batch, r.name = name
      PROVE MergeAll(recs, batch)[name] = Merged(recs[name], r)
  <2> DEFINE c == CHOOSE s \in batch : s.name = name
  <2>1. c \in batch /\ c.name = name BY <1>1
  <2>2. c = r BY <1>1, <2>1 DEF BatchOf
  <2>3. MergeAll(recs, batch)[name] = Merged(recs[name], c) BY <1>1 DEF MergeAll
  <2> QED BY <2>2, <2>3
<1>2. ASSUME \A r \in batch : r.name # name PROVE MergeAll(recs, batch)[name] = recs[name]
  BY <1>2 DEF MergeAll
<1> QED BY <1>1, <1>2

LEMMA MergedStore ==
  ASSUME NEW A, NEW B, NEW recs, StoreOf(recs, A), NEW batch, BatchOf(batch, B),
         \A r \in batch : Admissible(r) => r \in A
  PROVE  StoreOf(MergeAll(recs, batch), A)
<1> DEFINE t == MergeAll(recs, batch)
<1>1. t = [name \in Name |-> t[name]] BY DEF MergeAll
<1>2. ASSUME NEW name \in Name
      PROVE /\ t[name] \in A \cup {NoRecord}
            /\ t[name] # NoRecord => t[name].name = name
  <2>1. recs[name] \in A \cup {NoRecord} /\ (recs[name] # NoRecord => recs[name].name = name)
    BY DEF StoreOf
  <2>2. CASE \E r \in batch : r.name = name
    <3>1. PICK r \in batch : r.name = name BY <2>2
    <3>2. t[name] = Merged(recs[name], r) BY <3>1, MergedAt
    <3>3. t[name] = recs[name] \/ (t[name] = r /\ Admissible(r)) BY <3>2 DEF Merged
    <3> QED BY <2>1, <3>1, <3>3
  <2>3. CASE \A r \in batch : r.name # name BY <2>1, <2>3, MergedAt
  <2> QED BY <2>2, <2>3
<1> HIDE DEF t
<1>3. t \in [Name -> A \cup {NoRecord}] BY <1>1, <1>2
<1>4. StoreOf(t, A) BY <1>2, <1>3 DEF StoreOf
<1> QED BY <1>4 DEF t

LEMMA LiveStore ==
  ASSUME NEW A, NEW recs, StoreOf(recs, A) PROVE StoreOf(Live(recs), A)
BY DEF StoreOf, Live

LEMMA LoadedStore ==
  ASSUME NEW A, NEW recs, NEW stored, StoreOf(recs, A), StoreOf(stored, A)
  PROVE  StoreOf(Load(stored, recs), A)
<1> DEFINE t == Load(stored, recs)
<1>1. t = [name \in Name |-> t[name]] BY DEF Load
<1>2. \A name \in Name : t[name] = recs[name] \/ t[name] = stored[name] BY DEF Load
<1>3. ASSUME NEW name \in Name
      PROVE /\ t[name] \in A \cup {NoRecord}
            /\ t[name] # NoRecord => t[name].name = name
  <2>1. /\ recs[name] \in A \cup {NoRecord} /\ stored[name] \in A \cup {NoRecord}
        /\ recs[name] # NoRecord => recs[name].name = name
        /\ stored[name] # NoRecord => stored[name].name = name
    BY DEF StoreOf
  <2> HIDE DEF t
  <2> QED BY <1>2, <2>1
<1> HIDE DEF t
<1>4. t \in [Name -> A \cup {NoRecord}] BY <1>1, <1>3
<1>5. StoreOf(t, A) BY <1>3, <1>4 DEF StoreOf
<1> QED BY <1>5 DEF t

LEMMA AllBatch ==
  ASSUME NEW A, NEW recs, StoreOf(recs, A) PROVE BatchOf(All(recs), A)
<1>1. StoreOf(Live(recs), A) BY LiveStore
<1>2. \A r \in All(recs) : r \in A /\ r.name \in Name /\ Live(recs)[r.name] = r
  BY <1>1 DEF All, StoreOf
<1> QED BY <1>2 DEF BatchOf

-----------------------------------------------------------------------------
(* A record on time is in force, wins over all other records of its name, and   *)
(* gives way to none.                                                        *)
LEMMA LatestWins ==
  ASSUME Clocks, NEW p \in Node, OnTime(p)
  PROVE  /\ Latest(p) # NoRecord /\ ~IsExpired(Latest(p))
         /\ \A c \in Sound \cup {NoRecord} :
              c = NoRecord \/ c.name = NodeName(p) => Merged(c, Latest(p)) = Latest(p)
         /\ \A r : /\ Admissible(r) => r \in Sound
                   /\ r.name = NodeName(p)
                  => Merged(Latest(p), r) = Latest(p)
<1> DEFINE l == Latest(p)
<1>1. /\ l.name = NodeName(p) /\ l.author = p /\ l.version = version[p]
      /\ l.at = Published(p) /\ l.ttl = Ttl /\ l.sig = session[p] /\ l.value = "node"
  BY DEF Latest
<1>2. /\ now \in Nat /\ calm \in Nat /\ Ttl \in Nat /\ 0 < Ttl /\ Published(p) \in Int
  BY Times
<1>3. version[p] \in Nat /\ session[p] \in Nat BY DEF Clocks
<1>4. Published(p) + Ttl > now /\ Published(p) >= now - calm + Ttl /\ Published(p) <= now
      /\ phase[p] = "up"
  BY DEF OnTime, Clocks
<1>5. Published(p) \in Nat
  BY <1>2, <1>4 DEF Clocks
<1>6. l \in Record
  BY <1>3, <1>5, Names, NameAssumption DEF Latest, Record
<1>7. l # NoRecord BY <1>6, NameAssumption
<1>8. ~IsExpired(l) BY <1>1, <1>2, <1>4 DEF IsExpired
<1>9. Admissible(l) BY <1>1, <1>8, Names DEF Admissible
<1>10. ASSUME NEW c \in Sound, c.name = NodeName(p)
       PROVE  /\ IsExpired(c) \/ Beats(l, c)
              /\ IsExpired(c) \/ c = l \/ ~Beats(c, l)
  <2>1. IsOwn(c, p) /\ c \in Record BY <1>10 DEF Sound
  <2>2. c.at \in Nat /\ c.version \in Nat /\ c.sig \in Nat BY <2>1 DEF Record
  <2>3. CASE c.at <= now - calm /\ c.ttl = Ttl
    <3>1. c.at + c.ttl <= now BY <1>2, <1>4, <2>2, <2>3
    <3> QED BY <3>1 DEF IsExpired
  <2>4. CASE c.version < version[p]
    BY <1>1, <1>3, <2>2, <2>4 DEF Beats
  <2>5. CASE c = l
    BY <1>1, <1>3, <1>5, <2>5 DEF Beats
  <2> QED BY <2>1, <2>3, <2>4, <2>5 DEF IsOwn
<1> HIDE DEF l
<1>11. ASSUME NEW c \in Sound \cup {NoRecord}, c = NoRecord \/ c.name = NodeName(p)
       PROVE  Merged(c, l) = l
  BY <1>9, <1>10, <1>11 DEF Merged
<1>12. ASSUME NEW r, Admissible(r) => r \in Sound, r.name = NodeName(p)
       PROVE  Merged(l, r) = l
  <2>1. CASE ~Admissible(r) BY <2>1 DEF Merged
  <2>2. CASE Admissible(r)
    <3>1. r \in Sound /\ ~IsExpired(r) BY <1>12, <2>2 DEF Admissible
    <3>2. r = l \/ ~Beats(r, l) BY <1>10, <1>12, <3>1
    <3> QED BY <1>7, <1>8, <3>2 DEF Merged
  <2> QED BY <2>1, <2>2
<1> QED BY <1>7, <1>8, <1>11, <1>12 DEF l

(* mergeManifest keeps stores sound, keeps a record in force in each slot that  *)
(* has one, keeps the latest records and takes them from the message.           *)
LEMMA Manifest ==
  ASSUME Clocks, Stores, NEW n \in Node, NEW B \in SUBSET Record, NEW batch, BatchOf(batch, B),
         \A r \in batch : Admissible(r) => r \in Sound,
         MergeManifest(n, batch)
  PROVE  /\ records' = [m \in Node |-> records'[m]]
         /\ disk' = [m \in Node |-> disk'[m]]
         /\ \A m \in Node : StoreOf(records'[m], Sound) /\ StoreOf(disk'[m], Sound)
         /\ \A m \in Node, name \in Name :
              records[m][name] # NoRecord /\ ~IsExpired(records[m][name]) =>
                records'[m][name] # NoRecord /\ ~IsExpired(records'[m][name])
         /\ \A m, p \in Node :
              OnTime(p) /\ records[m][NodeName(p)] = Latest(p) =>
                records'[m][NodeName(p)] = Latest(p)
         /\ \A p \in Node :
              OnTime(p) /\ Latest(p) \in batch => records'[n][NodeName(p)] = Latest(p)
<1> DEFINE t == MergeAll(records[n], batch)
<1>1. StoreOf(records[n], Sound) /\ StoreOf(disk[n], Sound) BY DEF Stores
<1>2. StoreOf(t, Sound) BY <1>1, MergedStore
<1>3. StoreOf(Live(t), Sound) BY <1>2, LiveStore
<1>4. ASSUME NEW name \in Name, records[n][name] # NoRecord, ~IsExpired(records[n][name])
      PROVE t[name] # NoRecord /\ ~IsExpired(t[name])
  <2>1. CASE \E r \in batch : r.name = name
    <3>1. PICK r \in batch : r.name = name BY <2>1
    <3>2. t[name] = Merged(records[n][name], r) BY <3>1, MergedAt
    <3>3. r # NoRecord BY NameAssumption DEF BatchOf
    <3> QED BY <1>4, <3>2, <3>3 DEF Merged, Admissible
  <2>2. CASE \A r \in batch : r.name # name BY <1>4, <2>2, MergedAt
  <2> QED BY <2>1, <2>2
<1>5. ASSUME NEW p \in Node, OnTime(p),
             records[n][NodeName(p)] = Latest(p) \/ Latest(p) \in batch
      PROVE t[NodeName(p)] = Latest(p)
  <2>1. NodeName(p) \in Name /\ Latest(p).name = NodeName(p) BY Names DEF Latest
  <2>2. CASE Latest(p) \in batch
    <3>1. t[NodeName(p)] = Merged(records[n][NodeName(p)], Latest(p))
      BY <2>1, <2>2, MergedAt
    <3>2. records[n][NodeName(p)] \in Sound \cup {NoRecord}
          /\ (records[n][NodeName(p)] # NoRecord =>
                records[n][NodeName(p)].name = NodeName(p))
      BY <1>1, <2>1 DEF StoreOf
    <3> QED BY <1>5, <3>1, <3>2, LatestWins
  <2>3. CASE records[n][NodeName(p)] = Latest(p)
    <3>1. CASE \E r \in batch : r.name = NodeName(p)
      <4>1. PICK r \in batch : r.name = NodeName(p) BY <3>1
      <4>2. t[NodeName(p)] = Merged(Latest(p), r) BY <2>1, <2>3, <4>1, MergedAt
      <4> QED BY <1>5, <4>1, <4>2, LatestWins
    <3>2. CASE \A r \in batch : r.name # NodeName(p) BY <2>1, <2>3, <3>2, MergedAt
    <3> QED BY <3>1, <3>2
  <2> QED BY <1>5, <2>2, <2>3
<1>6. ASSUME NEW name \in Name, t[name] # NoRecord, ~IsExpired(t[name])
      PROVE Live(t)[name] = t[name]
  BY <1>6 DEF Live
<1>7. ASSUME NEW p \in Node, OnTime(p),
             records[n][NodeName(p)] = Latest(p) \/ Latest(p) \in batch
      PROVE Live(t)[NodeName(p)] = Latest(p)
  BY <1>5, <1>6, <1>7, LatestWins, Names
<1> HIDE DEF t
<1>8. CASE t = records[n] /\ UNCHANGED <<records, disk>>
  BY <1>5, <1>8 DEF Stores
<1>9. CASE /\ records' = [records EXCEPT ![n] = Live(t)]
           /\ disk' = [disk EXCEPT ![n] = Live(t)]
  <2>1. /\ records' = [m \in Node |-> IF m = n THEN Live(t) ELSE records[m]]
        /\ disk' = [m \in Node |-> IF m = n THEN Live(t) ELSE disk[m]]
    BY <1>9 DEF Stores
  <2>2. /\ records'[n] = Live(t) /\ disk'[n] = Live(t)
        /\ \A m \in Node \ {n} : records'[m] = records[m] /\ disk'[m] = disk[m]
    BY <2>1
  <2>3. records' = [m \in Node |-> records'[m]] /\ disk' = [m \in Node |-> disk'[m]]
    BY <2>1
  <2>4. \A m \in Node : StoreOf(records'[m], Sound) /\ StoreOf(disk'[m], Sound)
    BY <1>3, <2>2 DEF Stores
  <2>5. ASSUME NEW m \in Node, NEW name \in Name,
               records[m][name] # NoRecord, ~IsExpired(records[m][name])
        PROVE records'[m][name] # NoRecord /\ ~IsExpired(records'[m][name])
    BY <1>4, <1>6, <2>2, <2>5
  <2>6. ASSUME NEW m \in Node, NEW p \in Node, OnTime(p), records[m][NodeName(p)] = Latest(p)
        PROVE records'[m][NodeName(p)] = Latest(p)
    BY <1>7, <2>2, <2>6
  <2>7. ASSUME NEW p \in Node, OnTime(p), Latest(p) \in batch
        PROVE records'[n][NodeName(p)] = Latest(p)
    BY <1>7, <2>2, <2>7
  <2> QED BY <2>3, <2>4, <2>5, <2>6, <2>7
<1>10. (t = records[n] /\ UNCHANGED <<records, disk>>)
       \/ (/\ records' = [records EXCEPT ![n] = Live(t)]
           /\ disk' = [disk EXCEPT ![n] = Live(t)])
  BY DEF MergeManifest, t
<1> QED BY <1>8, <1>9, <1>10

-----------------------------------------------------------------------------
(* The steps. Besides NsOK', each keeps every revocation in force that a page    *)
(* has, or loads what it has read.                                            *)

Lasts(r) == r # NoRecord /\ r.at + r.ttl > now'

Keeps(p) ==
  \/ \A name \in RevokedNames : Lasts(records[p][name]) => Lasts(records'[p][name])
  \/ phase'[p] # phase[p]

LEMMA SoundGrows ==
  ASSUME \A r \in Sound, p \in Node : IsOwn(r, p) => IsOwn(r, p)'
  PROVE  Sound \subseteq Sound'
BY DEF Sound, IsValidRevocation

(* What is the same when no clock, session or publication moves.               *)
LEMMA Unmoved ==
  ASSUME UNCHANGED <<now, calm, phase, session, started, version>>
  PROVE  /\ Sound' = Sound
         /\ \A p \in Node : /\ Latest(p)' = Latest(p)
                            /\ OnTime(p)' <=> OnTime(p)
                            /\ Running(p)' <=> Running(p)
<1>1. ASSUME NEW p \in Node
      PROVE  /\ Published(p)' = Published(p) /\ Latest(p)' = Latest(p)
             /\ OnTime(p)' <=> OnTime(p)
             /\ Running(p)' <=> Running(p)
  <2>1. Published(p)' = Published(p) BY DEF Published
  <2>2. Latest(p)' = Latest(p) BY <2>1 DEF Latest
  <2> QED BY <2>1, <2>2 DEF OnTime, Running
<1>2. ASSUME NEW r, NEW p \in Node PROVE IsOwn(r, p)' <=> IsOwn(r, p)
  BY <1>1 DEF IsOwn
<1>3. Sound' = Sound BY <1>2 DEF Sound, IsValidRevocation
<1> QED BY <1>1, <1>3

LEMMA Delivered ==
  ASSUME inbox = [m \in Node |-> inbox[m]], NEW to, NEW batch, inbox' = Deliver(to, batch)
  PROVE  /\ inbox' = [m \in Node |-> inbox'[m]]
         /\ \A m \in Node : /\ inbox[m] \subseteq inbox'[m]
                            /\ inbox'[m] \subseteq inbox[m] \cup {batch}
                            /\ m \in to /\ batch # {} => batch \in inbox'[m]
BY DEF Deliver

LEMMA LastsUnexpired ==
  ASSUME now \in Nat, UNCHANGED now, NEW recs, StoreOf(recs, Sound), NEW name \in Name
  PROVE  Lasts(recs[name]) <=> recs[name] # NoRecord /\ ~IsExpired(recs[name])
<1>1. recs[name] # NoRecord => recs[name].at \in Nat /\ recs[name].ttl \in Nat
  BY DEF StoreOf, Sound, Record
<1> QED BY <1>1 DEF Lasts, IsExpired

LEMMA PublishKeeps ==
  ASSUME NsOK, NEW n \in Node, Publish(n)
  PROVE  NsOK' /\ \A p \in Node : Keeps(p)
<1> DEFINE c == Created(n)
           merged == MergeAll(records[n], {c})
           recs == Live(merged)
<1> USE DEF NsOK
<1>1. /\ phase[n] = "up" /\ now = Due(n)
      /\ version' = [version EXCEPT ![n] = @ + 1]
      /\ records' = [records EXCEPT ![n] = recs]
      /\ disk' = [disk EXCEPT ![n] = recs]
      /\ inbox' = Deliver({m \in Node \ {n} : Running(m)}, All(recs))
      /\ UNCHANGED <<now, phase, session, started, cached, faults, links, calm>>
  BY DEF Publish
<1>2. /\ now \in Nat /\ calm \in Nat /\ Ttl \in Nat /\ 0 < Ttl /\ 0 < Period
      /\ Period \in Nat
      /\ session[n] \in Nat /\ version[n] \in Nat
      /\ version' \in [Node -> Nat] /\ version'[n] = version[n] + 1
      /\ \A p \in Node \ {n} : version'[p] = version[p]
  BY <1>1, Times DEF Clocks
<1>3. Published(n)' = now
  BY <1>1, <1>2 DEF Published, Due
<1>4. Latest(n)' = c BY <1>1, <1>2, <1>3 DEF Latest, Created
<1>5. \A p \in Node \ {n} : Published(p)' = Published(p) /\ Latest(p)' = Latest(p)
  BY <1>1, <1>2 DEF Published, Latest
<1>6. Clocks'
  <2>1. ASSUME NEW p \in Node
        PROVE /\ phase'[p] = "loading" => calm' = 0 /\ version'[p] = 0
              /\ phase'[p] = "up" => /\ started'[p] <= now' - calm'
                                     /\ Published(p)' <= now' /\ now' <= Due(p)'
    <3>1. Due(p)' = Published(p)' + Period
      <4>1. /\ started'[p] \in Nat /\ version'[p] \in Nat BY <1>1, <1>2 DEF Clocks
      <4>2. \A v \in Nat : (v + 1) * Period = v * Period + Period /\ v * Period \in Int
        BY <1>2
      <4> QED BY <4>1, <4>2, <1>2 DEF Due, Published
    <3>2. CASE p = n BY <1>1, <1>2, <1>3, <3>1, <3>2 DEF Clocks
    <3>3. CASE p # n
      <4>1. Due(p) = Published(p) + Period BY Times
      <4> QED BY <1>1, <1>2, <1>5, <3>1, <3>3, <4>1 DEF Clocks
    <3> QED BY <3>2, <3>3
  <2> QED BY <1>1, <1>2, <2>1 DEF Clocks
<1>7. Sound \subseteq Sound'
  <2>1. ASSUME NEW r \in Sound, NEW p \in Node, IsOwn(r, p) PROVE IsOwn(r, p)'
    <3>1. r.version \in Nat BY DEF Sound, Record
    <3>2. CASE p # n BY <1>1, <1>2, <1>5, <2>1, <3>2 DEF IsOwn
    <3>3. CASE p = n
      <4>1. r.version <= version[n] \/ r.sig < session[n]
        BY <1>2, <2>1, <3>1, <3>3 DEF IsOwn, Latest
      <4> QED BY <1>1, <1>2, <2>1, <3>1, <3>3, <4>1 DEF IsOwn
    <3> QED BY <3>2, <3>3
  <2> QED BY <2>1, SoundGrows
<1>8. /\ c \in Record /\ c.name = NodeName(n) /\ c.at = now /\ c.ttl = Ttl
      /\ c.version = version[n] + 1 /\ c.sig = session[n] /\ c # NoRecord
  <2>1. c \in Record BY <1>2, Names, NameAssumption DEF Created, Record
  <2> QED BY <2>1, NameAssumption DEF Created
<1>9. ASSUME NEW r, r = c PROVE r \in Sound'
  <2>1. r = Latest(n)' /\ r \in Record /\ r.name = NodeName(n) BY <1>4, <1>8, <1>9
  <2>2. r.at = now /\ r.ttl = Ttl /\ r.sig = session[n] BY <1>8, <1>9
  <2>3. IsOwn(r, n)' BY <1>1, <1>2, <2>1, <2>2 DEF IsOwn
  <2>4. r.name \notin RevokedNames /\ \A p \in Node : r.name = NodeName(p) => p = n
    BY <2>1, Names
  <2> QED BY <2>1, <2>3, <2>4 DEF Sound
<1>10. Admissible(c) /\ ~IsExpired(c)
  BY <1>2, <1>8, Names DEF Admissible, IsExpired
<1>11. BatchOf({c}, Record) BY <1>8 DEF BatchOf
<1>12. StoreOf(records[n], Sound) BY DEF Stores
<1>13. StoreOf(recs, Sound') /\ StoreOf(merged, Sound')
  <2>1. StoreOf(records[n], Sound') BY <1>7, <1>12, StoreGrows
  <2>2. StoreOf(merged, Sound')
    <3>1. \A r \in {c} : Admissible(r) => r \in Sound' BY <1>9
    <3> HIDE DEF c
    <3> QED BY <1>11, <2>1, <3>1, MergedStore
  <2> QED BY <2>2, LiveStore
<1>14. \A name \in Name \ {NodeName(n)} : merged[name] = records[n][name]
  <2> HIDE DEF c
  <2> QED BY <1>8, <1>11, MergedAt
<1>15. merged[NodeName(n)] = Merged(records[n][NodeName(n)], c)
  <2> HIDE DEF c
  <2> QED BY <1>8, <1>11, MergedAt, Names
<1> HIDE DEF c, merged
<1>16. \A name \in Name : merged[name] = NoRecord \/ ~IsExpired(merged[name]) =>
                         recs[name] = merged[name]
  BY DEF Live
<1> HIDE DEF recs
<1>17. /\ records' = [m \in Node |-> records'[m]] /\ disk' = [m \in Node |-> disk'[m]]
       /\ records'[n] = recs /\ disk'[n] = recs
       /\ \A m \in Node \ {n} : records'[m] = records[m] /\ disk'[m] = disk[m]
  BY <1>1 DEF Stores
<1>18. BatchOf(All(recs), Sound') BY <1>13, AllBatch
<1>19. /\ inbox' = [m \in Node |-> inbox'[m]]
       /\ \A m \in Node :
            /\ inbox[m] \subseteq inbox'[m]
            /\ inbox'[m] \subseteq inbox[m] \cup {All(recs)}
            /\ m # n /\ Running(m) /\ All(recs) # {} => All(recs) \in inbox'[m]
  BY <1>1, Delivered DEF Stores
<1>20. Stores'
  <2>1. ASSUME NEW m \in Node
        PROVE /\ StoreOf(records'[m], Sound') /\ StoreOf(disk'[m], Sound')
              /\ StoreOf(cached'[m], Sound')
    BY <1>1, <1>7, <1>13, <1>17, StoreGrows DEF Stores
  <2>2. ASSUME NEW m \in Node, NEW batch \in inbox'[m] PROVE BatchOf(batch, Sound')
    BY <1>7, <1>18, <1>19, BatchGrows DEF Stores
  <2> QED BY <1>1, <1>17, <1>19, <2>1, <2>2 DEF Stores
<1>21. Spread'
  <2> SUFFICES ASSUME NEW p \in Node, NEW m \in Node, OnTime(p)', Running(m)'
               PROVE Reached(p, m)'
    BY DEF Spread
  <2>1. CASE p = n
    <3> DEFINE r == records[n][NodeName(n)]
    <3>1. r \in Sound \cup {NoRecord} /\ (r # NoRecord => r.name = NodeName(n))
      BY <1>12, Names DEF StoreOf
    <3>2. calm >= Ttl BY <1>1, <1>2, <1>3, <2>1 DEF OnTime
    <3>3. r = NoRecord \/ IsExpired(r) \/ Beats(c, r)
      <4>1. CASE r \in Sound
        <5>1. IsOwn(r, n) /\ r.at \in Nat /\ r.version \in Nat /\ r.ttl = Ttl
          BY <3>1, <4>1, NameAssumption DEF Sound, Record, IsOwn
        <5>2. CASE r.at <= now - calm
          BY <1>2, <3>2, <5>1, <5>2 DEF IsExpired
        <5>3. CASE r.version <= version[n]
          BY <1>2, <1>8, <5>1, <5>3 DEF Beats
        <5> QED BY <1>2, <5>1, <5>2, <5>3 DEF IsOwn, Latest
      <4> QED BY <3>1, <4>1
    <3>4. merged[NodeName(n)] = c BY <1>10, <1>15, <3>3 DEF Merged
    <3>5. recs[NodeName(n)] = c BY <1>10, <1>16, <3>4, Names
    <3>6. CASE m = n BY <1>4, <1>17, <2>1, <3>5, <3>6 DEF Reached
    <3>7. CASE m # n
      <4>1. c \in All(recs)
        <5>1. recs[NodeName(n)] # NoRecord /\ ~IsExpired(recs[NodeName(n)])
          BY <1>8, <1>10, <3>5
        <5> QED BY <3>5, <5>1, Names DEF All, Live
      <4>2. All(recs) \in inbox'[m] BY <1>1, <1>19, <3>7, <4>1 DEF Running
      <4> QED BY <1>4, <2>1, <4>1, <4>2 DEF Reached
    <3> QED BY <3>6, <3>7
  <2>2. CASE p # n
    <3>1. OnTime(p) /\ Running(m) BY <1>1, <1>2, <1>5, <2>2 DEF OnTime, Running
    <3>2. Reached(p, m) BY <3>1 DEF Spread
    <3>3. CASE \E batch \in inbox[m] : Latest(p) \in batch
      BY <1>5, <1>19, <2>2, <3>3 DEF Reached
    <3>4. CASE records[m][NodeName(p)] = Latest(p)
      <4>1. CASE m = n
        <5>1. merged[NodeName(p)] = Latest(p) BY <1>14, <2>2, <3>4, <4>1, Names
        <5>2. recs[NodeName(p)] = Latest(p) BY <1>16, <3>1, <5>1, LatestWins, Names
        <5> QED BY <1>5, <1>17, <2>2, <4>1, <5>2 DEF Reached
      <4>2. CASE m # n BY <1>5, <1>17, <2>2, <3>4, <4>2 DEF Reached
      <4> QED BY <4>1, <4>2
    <3> QED BY <3>2, <3>3, <3>4 DEF Reached
  <2> QED BY <2>1, <2>2
<1>22. ASSUME NEW p \in Node PROVE Keeps(p)
  <2>1. cached'[p] = cached[p] BY <1>1
  <2>2. ASSUME NEW name \in RevokedNames, Lasts(records[p][name]) PROVE Lasts(records'[p][name])
    <3>1. CASE p = n
      <4>1. name \in Name \ {NodeName(n)} BY Names
      <4>2. merged[name] = records[n][name] /\ merged[name] # NoRecord
        BY <1>14, <2>2, <3>1, <4>1 DEF Lasts
      <4>3. merged[name] \in Record BY <1>13, <4>1, <4>2 DEF StoreOf, Sound
      <4>4. ~IsExpired(merged[name])
        BY <1>1, <1>2, <2>2, <3>1, <4>2, <4>3 DEF IsExpired, Lasts, Record
      <4> QED BY <1>16, <1>17, <2>2, <3>1, <4>1, <4>2, <4>4
    <3>2. CASE p # n BY <1>17, <2>2, <3>2
    <3> QED BY <3>1, <3>2
  <2> QED BY <2>1, <2>2 DEF Keeps
<1> QED BY <1>6, <1>20, <1>21, <1>22

LEMMA ReceiveKeeps ==
  ASSUME NsOK, NEW n \in Node, Receive(n)
  PROVE  NsOK' /\ \A p \in Node : Keeps(p)
<1> USE DEF NsOK
<1>1. PICK batch \in inbox[n] :
        MergeManifest(n, batch) /\ inbox' = [inbox EXCEPT ![n] = @ \ {batch}]
  BY DEF Receive
<1>2. UNCHANGED <<now, phase, session, started, version, cached, faults, links, calm>>
  BY DEF Receive
<1>3. BatchOf(batch, Sound) /\ Sound \in SUBSET Record BY DEF Stores, Sound
<1>4. /\ records' = [m \in Node |-> records'[m]]
      /\ disk' = [m \in Node |-> disk'[m]]
      /\ \A m \in Node : StoreOf(records'[m], Sound) /\ StoreOf(disk'[m], Sound)
      /\ \A m \in Node, name \in Name :
           records[m][name] # NoRecord /\ ~IsExpired(records[m][name]) =>
             records'[m][name] # NoRecord /\ ~IsExpired(records'[m][name])
      /\ \A m, p \in Node :
           OnTime(p) /\ records[m][NodeName(p)] = Latest(p) =>
             records'[m][NodeName(p)] = Latest(p)
      /\ \A p \in Node :
           OnTime(p) /\ Latest(p) \in batch => records'[n][NodeName(p)] = Latest(p)
  BY <1>1, <1>3, Manifest DEF BatchOf
<1>5. /\ inbox' = [m \in Node |-> inbox'[m]]
      /\ \A m \in Node : /\ inbox'[m] \subseteq inbox[m]
                         /\ inbox[m] \subseteq inbox'[m] \cup {batch}
                         /\ m # n => inbox'[m] = inbox[m]
  BY <1>1 DEF Stores
<1>6. Sound' = Sound /\ \A p \in Node : /\ Latest(p)' = Latest(p) /\ (OnTime(p)' <=> OnTime(p))
                                        /\ (Running(p)' <=> Running(p))
  BY <1>2, Unmoved
<1>7. Clocks' BY <1>2 DEF Clocks, Published, Due
<1>8. Stores' BY <1>2, <1>4, <1>5, <1>6 DEF Stores
<1>9. Spread'
  <2> SUFFICES ASSUME NEW p \in Node, NEW m \in Node, OnTime(p)', Running(m)'
               PROVE Reached(p, m)'
    BY DEF Spread
  <2>1. OnTime(p) /\ Reached(p, m) BY <1>6 DEF Spread
  <2>2. CASE \E sent \in inbox[m] : Latest(p) \in sent
    <3>1. PICK sent \in inbox[m] : Latest(p) \in sent BY <2>2
    <3>2. sent \in inbox'[m] \/ (m = n /\ sent = batch) BY <1>5, <3>1
    <3> QED BY <1>4, <1>6, <2>1, <3>1, <3>2 DEF Reached
  <2>3. CASE records[m][NodeName(p)] = Latest(p) BY <1>4, <1>6, <2>1, <2>3 DEF Reached
  <2> QED BY <2>1, <2>2, <2>3 DEF Reached
<1>10. ASSUME NEW p \in Node PROVE Keeps(p)
  <2>1. ASSUME NEW name \in RevokedNames, Lasts(records[p][name])
        PROVE Lasts(records'[p][name])
    <3>1. name \in Name /\ now \in Nat BY Names DEF Clocks
    <3>2. StoreOf(records[p], Sound) /\ StoreOf(records'[p], Sound) BY <1>4 DEF Stores
    <3>3. records[p][name] # NoRecord /\ ~IsExpired(records[p][name])
      BY <1>2, <2>1, <3>1, <3>2, LastsUnexpired
    <3> QED BY <1>2, <1>4, <3>1, <3>2, <3>3, LastsUnexpired
  <2> QED BY <1>2, <2>1 DEF Keeps
<1> QED BY <1>7, <1>8, <1>9, <1>10

LEMMA HearForeignKeeps ==
  ASSUME NsOK, NEW n \in Node, HearForeign(n)
  PROVE  NsOK' /\ \A p \in Node : Keeps(p)
<1> USE DEF NsOK
<1>1. PICK r \in Foreign : r.at <= now /\ MergeManifest(n, {r})
  BY DEF HearForeign
<1>2. UNCHANGED <<now, phase, session, started, version, cached, inbox, faults, links, calm>>
  BY DEF HearForeign
<1>3. r \in Record /\ r.name \in RevokedNames BY NameAssumption
<1>4. BatchOf({r}, Record) BY <1>3 DEF BatchOf
<1>5. Admissible(r) => r \in Sound BY <1>3, Names DEF Admissible, Sound
<1>6. /\ records' = [m \in Node |-> records'[m]]
      /\ disk' = [m \in Node |-> disk'[m]]
      /\ \A m \in Node : StoreOf(records'[m], Sound) /\ StoreOf(disk'[m], Sound)
      /\ \A m \in Node, name \in Name :
           records[m][name] # NoRecord /\ ~IsExpired(records[m][name]) =>
             records'[m][name] # NoRecord /\ ~IsExpired(records'[m][name])
      /\ \A m, p \in Node :
           OnTime(p) /\ records[m][NodeName(p)] = Latest(p) =>
             records'[m][NodeName(p)] = Latest(p)
  BY <1>1, <1>4, <1>5, Manifest
<1>7. Sound' = Sound /\ \A p \in Node : /\ Latest(p)' = Latest(p) /\ (OnTime(p)' <=> OnTime(p))
                                        /\ (Running(p)' <=> Running(p))
  BY <1>2, Unmoved
<1>8. Clocks' BY <1>2 DEF Clocks, Published, Due
<1>9. Stores' BY <1>2, <1>6, <1>7 DEF Stores
<1>10. Spread'
  <2> SUFFICES ASSUME NEW p \in Node, NEW m \in Node, OnTime(p)', Running(m)'
               PROVE Reached(p, m)'
    BY DEF Spread
  <2>1. OnTime(p) /\ Reached(p, m) BY <1>7 DEF Spread
  <2> QED BY <1>2, <1>6, <1>7, <2>1 DEF Reached
<1>11. ASSUME NEW p \in Node PROVE Keeps(p)
  <2>1. ASSUME NEW name \in RevokedNames, Lasts(records[p][name])
        PROVE Lasts(records'[p][name])
    <3>1. name \in Name /\ now \in Nat BY Names DEF Clocks
    <3>2. StoreOf(records[p], Sound) /\ StoreOf(records'[p], Sound) BY <1>6 DEF Stores
    <3>3. records[p][name] # NoRecord /\ ~IsExpired(records[p][name])
      BY <1>2, <2>1, <3>1, <3>2, LastsUnexpired
    <3> QED BY <1>2, <1>6, <3>1, <3>2, <3>3, LastsUnexpired
  <2> QED BY <1>2, <2>1 DEF Keeps
<1> QED BY <1>8, <1>9, <1>10, <1>11

LEMMA LinkOpensKeeps ==
  ASSUME NsOK, NEW n \in Node, NEW m \in Node, LinkOpens(n, m)
  PROVE  NsOK' /\ \A p \in Node : Keeps(p)
<1> USE DEF NsOK
<1>1. /\ n # m /\ links < MaxLinks /\ links' = links + 1
      /\ records' = [records EXCEPT ![n] = Live(@), ![m] = Live(@)]
      /\ inbox' = [inbox EXCEPT ![m] = @ \cup ({All(records[n])} \ {{}}),
                                ![n] = @ \cup ({All(records[m])} \ {{}})]
      /\ UNCHANGED <<now, phase, session, started, version, disk, cached, faults, calm>>
  BY DEF LinkOpens
<1>2. /\ records' = [q \in Node |-> records'[q]]
      /\ \A q \in Node : records'[q] \in {records[q], Live(records[q])}
  BY <1>1 DEF Stores
<1>3. /\ inbox' = [q \in Node |-> inbox'[q]]
      /\ \A q \in Node : /\ inbox[q] \subseteq inbox'[q]
                         /\ inbox'[q] \subseteq
                              inbox[q] \cup {All(records[n]), All(records[m])}
  BY <1>1 DEF Stores
<1>4. Sound' = Sound /\ \A p \in Node : /\ Latest(p)' = Latest(p) /\ (OnTime(p)' <=> OnTime(p))
                                        /\ (Running(p)' <=> Running(p))
  BY <1>1, Unmoved
<1>5. Clocks' BY <1>1, NameAssumption DEF Clocks, Published, Due
<1>6. Stores'
  <2>1. ASSUME NEW q \in Node PROVE StoreOf(records'[q], Sound)
    BY <1>2, LiveStore DEF Stores
  <2>2. BatchOf(All(records[n]), Sound) /\ BatchOf(All(records[m]), Sound)
    BY AllBatch DEF Stores
  <2> QED BY <1>1, <1>2, <1>3, <1>4, <2>1, <2>2 DEF Stores
<1>7. ASSUME NEW q \in Node, NEW name \in Name,
             records[q][name] = NoRecord \/ ~IsExpired(records[q][name])
      PROVE records'[q][name] = records[q][name]
  BY <1>2, <1>7 DEF Live
<1>8. Spread'
  <2> SUFFICES ASSUME NEW p \in Node, NEW q \in Node, OnTime(p)', Running(q)'
               PROVE Reached(p, q)'
    BY DEF Spread
  <2>1. OnTime(p) /\ Reached(p, q) BY <1>4 DEF Spread
  <2>2. records[q][NodeName(p)] = Latest(p) => records'[q][NodeName(p)] = Latest(p)
    BY <1>7, <2>1, LatestWins, Names
  <2> QED BY <1>3, <1>4, <2>1, <2>2 DEF Reached
<1>9. ASSUME NEW p \in Node PROVE Keeps(p)
  <2>1. ASSUME NEW name \in RevokedNames, Lasts(records[p][name])
        PROVE Lasts(records'[p][name])
    <3>1. name \in Name /\ now \in Nat BY Names DEF Clocks
    <3>2. StoreOf(records[p], Sound) BY DEF Stores
    <3>3. ~IsExpired(records[p][name]) BY <1>1, <2>1, <3>1, <3>2, LastsUnexpired
    <3> QED BY <1>7, <2>1, <3>1, <3>3
  <2> QED BY <1>1, <2>1 DEF Keeps
<1> QED BY <1>5, <1>6, <1>8, <1>9

(* After a fault, and as long as a page is loading, nothing counts as on time.   *)
LEMMA NoneOnTime ==
  ASSUME Clocks', calm' = 0 PROVE Spread'
<1>1. ASSUME NEW p \in Node, OnTime(p)' PROVE FALSE
  <2>1. Published(p)' >= now' - 0 + Ttl /\ phase'[p] = "up" BY <1>1 DEF OnTime
  <2>2. Published(p)' <= now' BY <2>1 DEF Clocks
  <2>3. now' \in Nat /\ Ttl \in Nat /\ 0 < Ttl BY NameAssumption DEF Clocks
  <2>4. Published(p)' \in Int
    <3>1. started'[p] \in Nat /\ version'[p] \in Nat BY DEF Clocks
    <3>2. \A v \in Nat : v * Period \in Int BY NameAssumption
    <3> QED BY <3>1, <3>2 DEF Published
  <2> QED BY <2>1, <2>2, <2>3, <2>4
<1> QED BY <1>1 DEF Spread

LEMMA LoseKeeps ==
  ASSUME NsOK, NEW n \in Node, Lose(n)
  PROVE  NsOK' /\ \A p \in Node : Keeps(p)
<1> USE DEF NsOK
<1>1. /\ faults < MaxFaults /\ faults' = faults + 1 /\ calm' = 0
      /\ UNCHANGED <<now, phase, session, started, version, records, disk, cached, links>>
  BY DEF Lose
<1>2. PICK batch \in inbox[n] : inbox' = [inbox EXCEPT ![n] = @ \ {batch}]
  BY DEF Lose
<1>3. now \in Nat /\ calm \in Nat BY DEF Clocks
<1>4. Clocks'
  <2>1. ASSUME NEW p \in Node
        PROVE Published(p)' = Published(p) /\ Due(p)' = Due(p) /\ started[p] \in Nat
    BY <1>1 DEF Published, Due, Clocks
  <2> QED BY <1>1, <1>3, <2>1, NameAssumption DEF Clocks
<1>5. Sound \subseteq Sound'
  <2>1. ASSUME NEW r \in Sound, NEW p \in Node, IsOwn(r, p) PROVE IsOwn(r, p)'
    <3>1. Latest(p)' = Latest(p) /\ r.at \in Nat BY <1>1 DEF Latest, Published, Sound, Record
    <3> QED BY <1>1, <1>3, <2>1, <3>1 DEF IsOwn
  <2> QED BY <2>1, SoundGrows
<1>6. Stores'
  <2>1. inbox' = [m \in Node |-> inbox'[m]] /\ \A m \in Node : inbox'[m] \subseteq inbox[m]
    BY <1>2 DEF Stores
  <2> QED BY <1>1, <1>5, <2>1, StoreGrows, BatchGrows DEF Stores
<1>7. Spread' BY <1>1, <1>4, NoneOnTime
<1>8. ASSUME NEW p \in Node PROVE Keeps(p) BY <1>1 DEF Keeps
<1> QED BY <1>4, <1>6, <1>7, <1>8

LEMMA CrashKeeps ==
  ASSUME NsOK, NEW n \in Node, Crash(n)
  PROVE  NsOK' /\ \A p \in Node : Running(p)' => Keeps(p)
<1> USE DEF NsOK
<1>1. /\ faults < MaxFaults /\ faults' = faults + 1 /\ calm' = 0
      /\ phase' = [phase EXCEPT ![n] = "down"]
      /\ records' = [records EXCEPT ![n] = Nothing]
      /\ cached' = [cached EXCEPT ![n] = Nothing]
      /\ inbox' = [inbox EXCEPT ![n] = {}]
      /\ UNCHANGED <<now, session, started, version, disk, links>>
  BY DEF Crash
<1>2. now \in Nat /\ calm \in Nat BY DEF Clocks
<1>3. /\ phase' \in [Node -> {"down", "loading", "up"}]
      /\ \A p \in Node : phase'[p] = phase[p] \/ phase'[p] = "down"
      /\ \A p \in Node \ {n} : phase'[p] = phase[p]
      /\ phase'[n] = "down"
  BY <1>1 DEF Clocks
<1>4. Clocks'
  <2>1. ASSUME NEW p \in Node
        PROVE Published(p)' = Published(p) /\ Due(p)' = Due(p) /\ started[p] \in Nat
    BY <1>1 DEF Published, Due, Clocks
  <2> QED BY <1>1, <1>2, <1>3, <2>1, NameAssumption DEF Clocks
<1>5. Sound \subseteq Sound'
  <2>1. ASSUME NEW r \in Sound, NEW p \in Node, IsOwn(r, p) PROVE IsOwn(r, p)'
    <3>1. Latest(p)' = Latest(p) /\ r.at \in Nat BY <1>1 DEF Latest, Published, Sound, Record
    <3> QED BY <1>1, <1>2, <1>3, <2>1, <3>1 DEF IsOwn
  <2> QED BY <2>1, SoundGrows
<1>6. Stores'
  <2>1. /\ inbox' = [m \in Node |-> inbox'[m]] /\ records' = [m \in Node |-> records'[m]]
        /\ cached' = [m \in Node |-> cached'[m]]
        /\ \A m \in Node : /\ inbox'[m] \subseteq inbox[m]
                           /\ records'[m] \in {records[m], Nothing}
                           /\ cached'[m] \in {cached[m], Nothing}
    BY <1>1 DEF Stores
  <2> QED BY <1>1, <1>5, <2>1, StoreGrows, BatchGrows, NothingStored DEF Stores
<1>7. Spread' BY <1>1, <1>4, NoneOnTime
<1>8. ASSUME NEW p \in Node, Running(p)' PROVE Keeps(p)
  <2>1. p # n BY <1>3, <1>8 DEF Running
  <2>2. cached'[p] = cached[p] /\ records'[p] = records[p] BY <1>1, <2>1 DEF Stores
  <2> QED BY <2>2 DEF Keeps
<1> QED BY <1>4, <1>6, <1>7, <1>8

LEMMA StartKeeps ==
  ASSUME NsOK, NEW n \in Node, Start(n)
  PROVE  NsOK' /\ \A p \in Node : Running(p) => Keeps(p)
<1> USE DEF NsOK
<1>1. /\ phase[n] = "down" /\ calm' = 0
      /\ phase' = [phase EXCEPT ![n] = "loading"]
      /\ session' = [session EXCEPT ![n] = @ + 1]
      /\ version' = [version EXCEPT ![n] = 0]
      /\ cached' = [cached EXCEPT ![n] = disk[n]]
      /\ UNCHANGED <<now, started, records, disk, inbox, faults, links>>
  BY DEF Start
<1>2. now \in Nat /\ calm \in Nat BY DEF Clocks
<1>3. /\ phase' \in [Node -> {"down", "loading", "up"}]
      /\ session' \in [Node -> Nat] /\ version' \in [Node -> Nat]
      /\ phase'[n] = "loading" /\ version'[n] = 0 /\ session'[n] = session[n] + 1
      /\ \A p \in Node \ {n} : /\ phase'[p] = phase[p] /\ version'[p] = version[p]
                               /\ session'[p] = session[p]
  BY <1>1 DEF Clocks
<1>4. \A p \in Node \ {n} : /\ Published(p)' = Published(p) /\ Due(p)' = Due(p)
                            /\ Latest(p)' = Latest(p)
  BY <1>1, <1>3 DEF Published, Due, Latest
<1>5. Clocks'
  <2>1. ASSUME NEW p \in Node PROVE started[p] \in Nat BY DEF Clocks
  <2> QED BY <1>1, <1>2, <1>3, <1>4, <2>1 DEF Clocks
<1>6. Sound \subseteq Sound'
  <2>1. ASSUME NEW r \in Sound, NEW p \in Node, IsOwn(r, p) PROVE IsOwn(r, p)'
    <3>1. r.at \in Nat /\ r.sig \in Nat /\ session[p] \in Nat BY DEF Sound, Record, Clocks
    <3>2. CASE p = n
      <4>1. r.sig <= session[n] BY <2>1, <3>1, <3>2 DEF IsOwn, Latest
      <4> QED BY <1>1, <1>2, <1>3, <2>1, <3>1, <3>2, <4>1 DEF IsOwn
    <3>3. CASE p # n BY <1>1, <1>2, <1>3, <1>4, <2>1, <3>1, <3>3 DEF IsOwn
    <3> QED BY <3>2, <3>3
  <2> QED BY <2>1, SoundGrows
<1>7. cached' = [m \in Node |-> cached'[m]] /\ \A m \in Node : cached'[m] \in {cached[m], disk[m]}
  BY <1>1 DEF Stores
<1>8. Stores' BY <1>1, <1>6, <1>7, StoreGrows, BatchGrows DEF Stores
<1>9. Spread' BY <1>1, <1>5, NoneOnTime
<1>10. ASSUME NEW p \in Node, Running(p) PROVE Keeps(p)
  <2>1. p # n BY <1>1, <1>10 DEF Running
  <2> QED BY <1>1, <2>1 DEF Keeps, Stores
<1> QED BY <1>5, <1>8, <1>9, <1>10

LEMMA LoadedKeeps ==
  ASSUME NsOK, NEW n \in Node, Loaded(n)
  PROVE  NsOK' /\ \A p \in Node : Keeps(p)
<1> USE DEF NsOK
<1>1. /\ phase[n] = "loading" /\ phase' = [phase EXCEPT ![n] = "up"]
      /\ started' = [started EXCEPT ![n] = now]
      /\ records' = [records EXCEPT ![n] = Load(cached[n], @)]
      /\ cached' = [cached EXCEPT ![n] = Nothing]
      /\ UNCHANGED <<now, session, version, disk, inbox, faults, links, calm>>
  BY DEF Loaded
<1>2. now \in Nat /\ calm = 0 /\ version[n] = 0 /\ Period \in Nat /\ 0 < Period
  BY <1>1, NameAssumption DEF Clocks
<1>3. /\ phase' \in [Node -> {"down", "loading", "up"}] /\ started' \in [Node -> Nat]
      /\ phase'[n] = "up" /\ started'[n] = now
      /\ \A p \in Node \ {n} : phase'[p] = phase[p] /\ started'[p] = started[p]
  BY <1>1, <1>2 DEF Clocks
<1>4. /\ Published(n)' = now /\ Due(n)' = now + Period
      /\ \A p \in Node \ {n} : /\ Published(p)' = Published(p) /\ Due(p)' = Due(p)
                               /\ Latest(p)' = Latest(p)
  BY <1>1, <1>2, <1>3 DEF Published, Due, Latest
<1>5. Clocks' BY <1>1, <1>2, <1>3, <1>4 DEF Clocks
<1>6. Sound \subseteq Sound'
  <2>1. ASSUME NEW r \in Sound, NEW p \in Node, IsOwn(r, p) PROVE IsOwn(r, p)'
    <3>1. CASE p = n BY <1>1, <2>1, <3>1 DEF IsOwn
    <3>2. CASE p # n BY <1>1, <1>3, <1>4, <2>1, <3>2 DEF IsOwn
    <3> QED BY <3>1, <3>2
  <2> QED BY <2>1, SoundGrows
<1>7. /\ cached' = [m \in Node |-> cached'[m]] /\ records' = [m \in Node |-> records'[m]]
      /\ \A m \in Node : cached'[m] \in {cached[m], Nothing}
      /\ records'[n] = Load(cached[n], records[n])
      /\ \A m \in Node \ {n} : records'[m] = records[m] /\ cached'[m] = cached[m]
  BY <1>1 DEF Stores
<1>8. StoreOf(records'[n], Sound) BY <1>7, LoadedStore DEF Stores
<1>9. Stores'
  BY <1>1, <1>6, <1>7, <1>8, StoreGrows, BatchGrows, NothingStored DEF Stores
<1>10. Spread' BY <1>1, <1>2, <1>5, NoneOnTime
<1>11. ASSUME NEW p \in Node PROVE Keeps(p)
  BY <1>1, <1>3, <1>7 DEF Keeps
<1> QED BY <1>5, <1>9, <1>10, <1>11

LEMMA TickKeeps ==
  ASSUME NsOK, Tick
  PROVE  NsOK' /\ \A p \in Node : Keeps(p)
<1> USE DEF NsOK
<1>1. /\ Quiet /\ now < MaxTime /\ now' = now + 1 /\ calm' = calm + 1
      /\ UNCHANGED <<phase, session, started, version, records, disk, cached, inbox, faults,
                     links>>
  BY DEF Tick
<1>2. now \in Nat /\ calm \in Nat /\ now \in 0..MaxTime /\ calm \in 0..now BY DEF Clocks
<1>3. \A p \in Node : /\ Published(p)' = Published(p) /\ Due(p)' = Due(p)
                      /\ Latest(p)' = Latest(p) /\ Published(p) \in Int
                      /\ Due(p) \in Int /\ started[p] \in Nat /\ Ttl \in Nat
  BY <1>1, Times DEF Published, Due, Latest, Clocks
<1>4. Clocks'
  <2>1. \A p \in Node : phase[p] = "up" => Due(p) > now BY <1>1 DEF Quiet
  <2>2. \A p \in Node : phase[p] # "loading" BY <1>1 DEF Quiet
  <2>3. now' \in 0..MaxTime /\ calm' \in 0..now' /\ now' - calm' = now - calm
    BY <1>1, <1>2, NameAssumption
  <2>4. ASSUME NEW p \in Node, phase[p] = "up"
        PROVE started[p] <= now' - calm' /\ Published(p) <= now' /\ now' <= Due(p)
    BY <1>1, <1>2, <1>3, <2>1, <2>3, <2>4 DEF Clocks
  <2> QED BY <1>1, <1>3, <2>2, <2>3, <2>4 DEF Clocks
<1>5. Sound \subseteq Sound'
  <2>1. ASSUME NEW r \in Sound, NEW p \in Node, IsOwn(r, p) PROVE IsOwn(r, p)'
    <3>1. r.at \in Nat BY DEF Sound, Record
    <3> QED BY <1>1, <1>2, <1>3, <2>1, <3>1 DEF IsOwn
  <2> QED BY <2>1, SoundGrows
<1>6. Stores' BY <1>1, <1>5, StoreGrows, BatchGrows DEF Stores
<1>7. Spread'
  <2> SUFFICES ASSUME NEW p \in Node, NEW m \in Node, OnTime(p)', Running(m)'
               PROVE Reached(p, m)'
    BY DEF Spread
  <2>1. OnTime(p) /\ Running(m) BY <1>1, <1>2, <1>3 DEF OnTime, Running
  <2>2. Reached(p, m) BY <2>1 DEF Spread
  <2> QED BY <1>1, <1>3, <2>2 DEF Reached
<1>8. ASSUME NEW p \in Node PROVE Keeps(p) BY <1>1 DEF Keeps
<1> QED BY <1>4, <1>6, <1>7, <1>8

-----------------------------------------------------------------------------
(* The initial state, where every page is up and nothing is stored.             *)
LEMMA InitOK ==
  ASSUME NsInit PROVE NsOK
<1> USE DEF NsInit
<1>1. Period \in Nat /\ 0 < Period /\ Ttl \in Nat /\ 0 < Ttl BY NameAssumption
<1>2. \A p \in Node : Published(p) = 0 /\ Due(p) = Period BY <1>1 DEF Published, Due
<1>3. Clocks BY <1>1, <1>2, NameAssumption DEF Clocks
<1>4. Stores BY NothingStored DEF Stores
<1>5. Spread BY <1>1 DEF Spread, OnTime
<1> QED BY <1>3, <1>4, <1>5 DEF NsOK

LEMMA StepKeeps ==
  ASSUME NsOK, [NsNext]_nsVars
  PROVE  NsOK' /\ \A p \in Node : Running(p) /\ Running(p)' => Keeps(p)
<1>1. CASE \E n \in Node : Publish(n) \/ Receive(n) \/ HearForeign(n) \/ Loaded(n)
  BY <1>1, PublishKeeps, ReceiveKeeps, HearForeignKeeps, LoadedKeeps
<1>2. CASE \E n, m \in Node : LinkOpens(n, m) BY <1>2, LinkOpensKeeps
<1>3. CASE \E n \in Node : Lose(n) \/ Crash(n) \/ Start(n)
  BY <1>3, LoseKeeps, CrashKeeps, StartKeeps
<1>4. CASE Tick BY <1>4, TickKeeps
<1>5. CASE UNCHANGED nsVars
  <2>1. UNCHANGED <<now, calm, phase, session, started, version, records, disk, cached, inbox,
                    faults, links>>
    BY <1>5 DEF nsVars
  <2>2. Sound' = Sound /\ \A p \in Node : /\ Latest(p)' = Latest(p) /\ (OnTime(p)' <=> OnTime(p))
                                          /\ (Running(p)' <=> Running(p))
    BY <2>1, Unmoved
  <2>3. Clocks' BY <2>1 DEF NsOK, Clocks, Published, Due
  <2>4. Stores' BY <2>1, <2>2 DEF NsOK, Stores
  <2>5. Spread' BY <2>1, <2>2 DEF NsOK, Spread, Reached
  <2>6. \A p \in Node : Keeps(p) BY <2>1 DEF Keeps
  <2> QED BY <2>3, <2>4, <2>5, <2>6 DEF NsOK
<1> QED BY <1>1, <1>2, <1>3, <1>4, <1>5 DEF NsNext

(* verifyInviteChain finds rights, and not more than there are.                 *)
LEMMA VerifiedRights ==
  ASSUME NEW k, NEW chain \in Chain, NEW revoked
  PROVE  VerifyInviteChain(chain, k, revoked) \in SUBSET Right
<1>1. PICK d \in 0..(MaxChain + 1) : chain \in [1..d -> Cert] BY DEF Chain
<1>2. d \in Nat BY CertAssumption
<1>3. chain \in Seq(Cert) /\ Len(chain) = d BY <1>1, <1>2
<1>4. Len(chain) \in 1..MaxChain => chain[Len(chain)] \in Cert BY <1>2, <1>3
<1> QED BY <1>4, CertAssumption DEF VerifyInviteChain

Registered == members \in [Node -> [Key -> SUBSET Right]]

LEMMA RegisteredStays ==
  ASSUME Registered, [Next]_vars PROVE Registered'
<1>1. CASE UNCHANGED members BY <1>1 DEF Registered
<1>2. ASSUME NEW n \in Node, NEW k \in Node \ {n}, NEW chain \in Chain,
             AcceptMembership(n, k, chain)
      PROVE Registered'
  <2> DEFINE rights == VerifyInviteChain(chain, k, NoneRevoked)
  <2>1. members' = [members EXCEPT ![n][k] = rights] BY <1>2 DEF AcceptMembership
  <2>2. rights \in SUBSET Right BY VerifiedRights
  <2> HIDE DEF rights
  <2>3. [members[n] EXCEPT ![k] = rights] \in [Key -> SUBSET Right] BY <2>2 DEF Registered
  <2> QED BY <2>1, <2>3 DEF Registered
<1> QED BY <1>1, <1>2 DEF Next, vars

(* What NsOK says of the types.                                               *)
LEMMA TypesFollow ==
  ASSUME NsOK PROVE NsTypeOK
<1> USE DEF NsOK
<1>1. ASSUME NEW recs, StoreOf(recs, Sound)
      PROVE /\ recs \in Stored
            /\ \A name \in Name :
                 recs[name] = NoRecord
                   \/ /\ recs[name].name = name
                      /\ name \in RevokedNames => recs[name].author = name.by
  <2>1. recs \in Stored BY <1>1 DEF StoreOf, Sound, Stored
  <2>2. ASSUME NEW name \in Name, recs[name] # NoRecord
        PROVE /\ recs[name].name = name
              /\ name \in RevokedNames => recs[name].author = name.by
    BY <1>1, <2>2 DEF StoreOf, Sound, IsValidRevocation
  <2> QED BY <2>1, <2>2
<1>2. ASSUME NEW s, s = [n \in Node |-> s[n]], \A n \in Node : StoreOf(s[n], Sound)
      PROVE  s \in [Node -> Stored] /\ \A n \in Node, name \in Name :
               s[n][name] = NoRecord
                 \/ /\ s[n][name].name = name
                    /\ name \in RevokedNames => s[n][name].author = name.by
  <2>1. \A n \in Node : s[n] \in Stored BY <1>1, <1>2
  <2> QED BY <1>1, <1>2, <2>1
<1>3. inbox \in [Node -> SUBSET SUBSET Record]
  <2>1. \A n \in Node : inbox[n] \in SUBSET SUBSET Record BY DEF Stores, BatchOf, Sound
  <2> QED BY <2>1 DEF Stores
<1>4. calm \in 0..MaxTime BY NameAssumption DEF Clocks
<1>5. \A s \in {records, disk, cached} :
        s \in [Node -> Stored] /\ \A n \in Node, name \in Name :
          s[n][name] = NoRecord
            \/ /\ s[n][name].name = name
               /\ name \in RevokedNames => s[n][name].author = name.by
  BY <1>2 DEF Stores
<1> QED BY <1>3, <1>4, <1>5 DEF NsTypeOK, Clocks

(* All that is reachable satisfies the inductive invariant.                    *)
LEMMA AlwaysOK ==
  Spec => [](NsOK /\ Registered)
<1>1. Init => NsOK /\ Registered BY InitOK DEF Init, Registered
<1>2. NsOK /\ Registered /\ [Next]_vars => (NsOK /\ Registered)'
  <2> SUFFICES ASSUME NsOK, Registered, [Next]_vars PROVE NsOK' /\ Registered' OBVIOUS
  <2>1. [NsNext]_nsVars BY DEF Next, vars, AcceptMembership
  <2> QED BY <2>1, StepKeeps, RegisteredStays
<1> QED BY <1>1, <1>2, PTL DEF Spec

(* The state is well formed, records stand under their own names, slots for      *)
(* revocations hold their author's records only (nameservice.ts:50-56), and the   *)
(* registry gives no rights that there are not.                                *)
THEOREM TypeCorrect == Spec => []TypeOK
<1>1. NsOK /\ Registered => TypeOK BY TypesFollow DEF TypeOK, Registered
<1> QED BY <1>1, AlwaysOK, PTL

(* A period and a lifetime after the last fault every page resolves every running *)
(* page to a record of its present session (nameservice.ts:122-123): that session *)
(* has published since the records of all earlier ones expired, the publication   *)
(* beat them wherever they stood, and none of them comes back.                   *)
THEOREM ComesBack == Spec => []BackWithin
<1>1. ASSUME NsOK PROVE BackWithin
  <2> SUFFICES ASSUME calm >= Ttl + Period - 1, Quiet, NEW n \in Node, NEW m \in Node,
                      phase[n] = "up", phase[m] = "up"
               PROVE  /\ records[m][NodeName(n)] # NoRecord
                      /\ ~IsExpired(records[m][NodeName(n)])
                      /\ records[m][NodeName(n)].sig = session[n]
    BY DEF BackWithin
  <2>1. Clocks /\ Spread BY <1>1 DEF NsOK
  <2>2. /\ now \in Nat /\ calm \in Nat /\ Period \in Nat /\ Ttl \in Nat
        /\ 0 < Period /\ Period <= Ttl
        /\ Published(n) \in Int /\ Due(n) = Published(n) + Period
    BY <2>1, Times
  <2>3. Published(n) + Period > now BY <2>2 DEF Quiet
  <2>4. Published(n) >= now - calm + Ttl /\ Published(n) + Ttl > now BY <2>2, <2>3
  <2>5. version[n] > 0
    <3>1. started[n] \in Nat /\ version[n] \in Nat /\ started[n] <= now - calm
      BY <2>1 DEF Clocks
    <3>2. version[n] = 0 => Published(n) = started[n] BY <2>2, <3>1 DEF Published
    <3> QED BY <2>2, <2>4, <3>1, <3>2
  <2>6. OnTime(n) BY <2>4, <2>5 DEF OnTime
  <2>7. Reached(n, m) BY <2>1, <2>6 DEF Spread, Running
  <2>8. records[m][NodeName(n)] = Latest(n) BY <2>7 DEF Quiet, Reached
  <2>9. Latest(n).sig = session[n] BY DEF Latest
  <2> QED BY <2>1, <2>6, <2>8, <2>9, LatestWins
<1> QED BY <1>1, AlwaysOK, PTL

(* A revocation that a page holds is known to it until it expires, whatever        *)
(* versions others publish in the slot and whatever messages bring back, while    *)
(* the store is being read and after that (nameservice.ts:21-30).                *)
THEOREM RevocationsStick == Spec => RevocationSticks
<1>1. ASSUME NsOK, NsOK', [NsNext]_nsVars, NEW n \in Node, Running(n), phase'[n] = phase[n]
      PROVE  Sticks(n)
  <2> SUFFICES ASSUME NEW i \in Invite, NEW k \in Revokers(records[n], i),
                      ~(records[n][RevocationName(i, k)].at
                          + records[n][RevocationName(i, k)].ttl <= now')
               PROVE  k \in Revokers(records[n], i)'
    BY DEF Sticks
  <2> DEFINE name == RevocationName(i, k)
             r == records[n][name]
  <2>1. k \in Key BY DEF Revokers
  <2>2. name \in RevokedNames /\ name \in Name /\ name.by = k BY <2>1, Names
  <2>3. StoreOf(records[n], Sound) /\ StoreOf(records'[n], Sound')
    BY <1>1 DEF NsOK, Stores
  <2>4. now' \in Nat BY <1>1 DEF NsOK, Clocks
  <2>5. r # NoRecord BY <2>2 DEF Revokers, Live
  <2>6. r.at \in Nat /\ r.ttl \in Nat BY <2>2, <2>3, <2>5 DEF StoreOf, Sound, Record
  <2>7. Lasts(r) BY <2>4, <2>5, <2>6 DEF Lasts
  <2>8. Running(n)' BY <1>1 DEF Running
  <2>9. Keeps(n) BY <1>1, <2>8, StepKeeps
  <2>10. PICK s : s = records'[n][name] OBVIOUS
  <2>11. Lasts(s) BY <1>1, <2>2, <2>7, <2>9, <2>10 DEF Keeps
  <2>12. s # NoRecord /\ s \in Sound' /\ s.name = name
    BY <2>2, <2>3, <2>10, <2>11 DEF StoreOf, Lasts
  <2>13. IsValidRevocation(s) BY <2>2, <2>12 DEF Sound
  <2>14. ~(s.at + s.ttl <= now')
    <3>1. s.at \in Nat /\ s.ttl \in Nat BY <2>12 DEF Sound, Record
    <3> QED BY <2>4, <2>11, <3>1 DEF Lasts
  <2>15. records'[n][RevocationName(i, k)] = s BY <2>10
  <2>16. RevocationName(i, k) \in Name BY <2>2
  <2> HIDE DEF name, r
  <2> QED BY <2>1, <2>12, <2>13, <2>14, <2>15, <2>16 DEF Revokers, Live, IsExpired, IsValidRevocation
<1>2. NsOK /\ NsOK' /\ [NsNext]_nsVars =>
        [\A n \in Node : Running(n) /\ phase'[n] = phase[n] => Sticks(n)]_nsVars
  BY <1>1
<1>3. [Next]_vars => [NsNext]_nsVars BY DEF Next, vars, AcceptMembership
<1> QED BY <1>2, <1>3, AlwaysOK, PTL DEF RevocationSticks, Spec

-----------------------------------------------------------------------------
(* Chains and authority. Layers(S)[d] are the rights that have come down from    *)
(* the genesis key in d steps, by certificates of S; a chain of d certificates    *)
(* that verifyInviteChain accepts is one way down to layer d.                   *)

Heirs(S, H) ==
  {<<cert.subject, cert.rights>> :
     cert \in {c \in S : \E h \in H :
                 h[1] = c.issuer /\ "invite" \in h[2] /\ c.rights \subseteq h[2]}}

IsLayers(S, f, m) ==
  f = [d \in 0..m |-> IF d = 0 THEN {<<Genesis, Right>>} ELSE Heirs(S, f[d - 1])]

Layers(S) == CHOOSE f : IsLayers(S, f, MaxChain)

LEMMA LeastExists ==
  ASSUME NEW S \in SUBSET Nat, S # {}
  PROVE  \E i \in S : \A j \in S : i <= j
<1>1. \E u \in S : \A y \in S : ~(<<y, u>> \in OpToRel(<, Nat))
  BY Zenon, WFMin, NatLessThanWellFounded
<1>2. PICK u \in S : \A y \in S : ~(y < u) BY <1>1 DEF OpToRel
<1> QED BY <1>2

(* There are layers, however long a chain may be: no length is the least without. *)
LEMMA LayersExist ==
  ASSUME NEW S PROVE IsLayers(S, Layers(S), MaxChain)
<1> DEFINE Bad == {m \in Nat : \A f : ~IsLayers(S, f, m)}
<1>1. ASSUME Bad # {} PROVE FALSE
  <2>1. PICK m \in Bad : \A j \in Bad : m <= j BY <1>1, LeastExists
  <2>2. CASE m = 0
    <3> DEFINE f == [d \in 0..0 |-> {<<Genesis, Right>>}]
    <3>1. IsLayers(S, f, 0) BY DEF IsLayers
    <3> QED BY <2>1, <2>2, <3>1
  <2>3. CASE m # 0
    <3>1. m - 1 \in Nat /\ m - 1 \notin Bad BY <2>1, <2>3
    <3>2. PICK f : IsLayers(S, f, m - 1) BY <3>1
    <3> DEFINE g == [d \in 0..m |-> IF d < m THEN f[d] ELSE Heirs(S, f[m - 1])]
    <3>3. ASSUME NEW d \in 0..m
          PROVE g[d] = IF d = 0 THEN {<<Genesis, Right>>} ELSE Heirs(S, g[d - 1])
      <4>1. m \in Nat BY <2>1
      <4>2. CASE d = 0
        <5>1. f[0] = {<<Genesis, Right>>} BY <3>1, <3>2 DEF IsLayers
        <5> QED BY <2>3, <4>1, <4>2, <5>1
      <4>3. CASE d # 0 /\ d < m
        <5>1. d \in 0..(m - 1) /\ d - 1 \in 0..(m - 1) /\ d - 1 \in 0..m BY <4>1, <4>3
        <5>2. f[d] = Heirs(S, f[d - 1]) BY <3>2, <4>3, <5>1 DEF IsLayers
        <5>3. g[d] = f[d] /\ g[d - 1] = f[d - 1] BY <4>1, <4>3, <5>1
        <5> QED BY <4>3, <5>2, <5>3
      <4>4. CASE d = m
        <5>1. m \in 0..m /\ m - 1 \in 0..m /\ m - 1 < m /\ ~(m < m) BY <2>3, <4>1
        <5>2. g[m] = Heirs(S, f[m - 1]) /\ g[m - 1] = f[m - 1] BY <5>1
        <5> HIDE DEF g
        <5> QED BY <2>3, <4>4, <5>2
      <4> HIDE DEF g
      <4> QED BY <4>1, <4>2, <4>3, <4>4
    <3>4. g = [d \in 0..m |-> g[d]] OBVIOUS
    <3> HIDE DEF g
    <3>5. g = [d \in 0..m |-> IF d = 0 THEN {<<Genesis, Right>>} ELSE Heirs(S, g[d - 1])]
      BY <3>3, <3>4, Zenon
    <3>6. IsLayers(S, g, m) BY <3>5 DEF IsLayers
    <3> QED BY <2>1, <3>6
  <2> QED BY <2>2, <2>3
<1>2. \E f : IsLayers(S, f, MaxChain) BY <1>1, CertAssumption
<1> QED BY <1>2, Zenon DEF Layers

LEMMA LayerAt ==
  ASSUME NEW S
  PROVE  /\ Layers(S)[0] = {<<Genesis, Right>>}
         /\ \A d \in 1..MaxChain : Layers(S)[d] = Heirs(S, Layers(S)[d - 1])
<1> DEFINE f == Layers(S)
<1>1. IsLayers(S, f, MaxChain) BY LayersExist
<1> HIDE DEF f
<1>2. MaxChain \in Nat BY CertAssumption
<1>3. f[0] = {<<Genesis, Right>>} BY <1>1, <1>2 DEF IsLayers
<1>4. ASSUME NEW d \in 1..MaxChain PROVE f[d] = Heirs(S, f[d - 1])
  <2>1. d \in 0..MaxChain /\ d # 0 BY <1>2
  <2> QED BY <1>1, <2>1 DEF IsLayers
<1> QED BY <1>3, <1>4 DEF f

LEMMA AuthorityLayers ==
  ASSUME NEW S PROVE Authority(S) = UNION {Layers(S)[d] : d \in 0..MaxChain}
BY Zenon DEF Authority, Layers, IsLayers, Heirs

(* The conditions on a chain besides its length, its subject and "join".        *)
Holds(chain, revoked) ==
  /\ chain[1].issuer = Genesis
  /\ \A i \in DOMAIN chain : /\ VerifyCertificate(chain[i])
                             /\ ~IsCertRevoked(chain[i], revoked)
                             /\ i > 1 => Delegated(chain[i - 1], chain[i])

(* Each certificate of such a chain leads to the layer of its position.         *)
LEMMA ChainInLayers ==
  ASSUME NEW revoked, NEW k \in 1..MaxChain, NEW chain \in [1..k -> Cert],
         Holds(chain, revoked)
  PROVE  \A i \in 1..k : <<chain[i].subject, chain[i].rights>> \in Layers(InForce(revoked))[i]
<1> DEFINE L == Layers(InForce(revoked))
           At(i) == <<chain[i].subject, chain[i].rights>>
           Bad == {i \in 1..k : At(i) \notin L[i]}
<1>1. /\ L[0] = {<<Genesis, Right>>}
      /\ \A d \in 1..MaxChain : L[d] = Heirs(InForce(revoked), L[d - 1])
  BY LayerAt
<1> HIDE DEF L
<1>2. MaxChain \in Nat /\ k \in Nat /\ 1..k \subseteq 1..MaxChain BY CertAssumption
<1>3. ASSUME NEW i \in 1..k PROVE chain[i] \in InForce(revoked) /\ chain[i].rights \subseteq Right
  BY <1>3, CertAssumption DEF Holds, InForce
<1>4. ASSUME NEW i \in 1..k, NEW h \in L[i - 1], h[1] = chain[i].issuer, "invite" \in h[2],
             chain[i].rights \subseteq h[2]
      PROVE At(i) \in L[i]
  <2>1. chain[i] \in {c \in InForce(revoked) : \E x \in L[i - 1] :
                       x[1] = c.issuer /\ "invite" \in x[2] /\ c.rights \subseteq x[2]}
    BY <1>3, <1>4
  <2>2. At(i) \in Heirs(InForce(revoked), L[i - 1]) BY <2>1 DEF Heirs
  <2> QED BY <1>1, <1>2, <2>2
<1>5. ASSUME Bad # {} PROVE FALSE
  <2>1. Bad \subseteq Nat BY <1>2
  <2>2. PICK i \in Bad : \A j \in Bad : i <= j BY <1>5, <2>1, LeastExists
  <2>3. i \in 1..k /\ At(i) \notin L[i] BY <2>2
  <2>4. CASE i = 1
    <3>1. /\ <<Genesis, Right>> \in L[i - 1] /\ "invite" \in Right
          /\ chain[i].issuer = Genesis /\ chain[i].rights \subseteq Right
      BY <1>1, <1>3, <2>3, <2>4, CertAssumption DEF Holds
    <3> QED BY <1>4, <2>3, <3>1
  <2>5. CASE i > 1
    <3>1. i - 1 \in 1..k /\ i - 1 < i BY <1>2, <2>3, <2>5
    <3>2. At(i - 1) \in L[i - 1] BY <2>2, <2>3, <3>1
    <3>3. Delegated(chain[i - 1], chain[i]) BY <2>3, <2>5 DEF Holds
    <3> QED BY <1>4, <2>3, <3>2, <3>3 DEF Delegated
  <2> QED BY <1>2, <2>3, <2>4, <2>5
<1> QED BY <1>5 DEF L

(* Whatever is in layer d > 0 is at the end of such a chain of d certificates.   *)
LEMMA LayersAreChains ==
  ASSUME NEW revoked
  PROVE  \A d \in 1..MaxChain : \A h \in Layers(InForce(revoked))[d] :
           \E chain \in [1..d -> Cert] :
             Holds(chain, revoked) /\ h = <<chain[d].subject, chain[d].rights>>
<1> DEFINE L == Layers(InForce(revoked))
           Ends(d, h) == \E chain \in [1..d -> Cert] :
                           Holds(chain, revoked) /\ h = <<chain[d].subject, chain[d].rights>>
           Bad == {d \in 1..MaxChain : \E h \in L[d] : ~Ends(d, h)}
<1>1. /\ L[0] = {<<Genesis, Right>>}
      /\ \A d \in 1..MaxChain : L[d] = Heirs(InForce(revoked), L[d - 1])
  BY LayerAt
<1> HIDE DEF L
<1>2. MaxChain \in Nat BY CertAssumption
<1>3. ASSUME Bad # {} PROVE FALSE
  <2>1. Bad \subseteq Nat BY <1>2
  <2>2. PICK d \in Bad : \A j \in Bad : d <= j BY <1>3, <2>1, LeastExists
  <2>3. d \in 1..MaxChain /\ d \in Nat BY <1>2, <2>2
  <2>4. PICK h \in L[d] : ~Ends(d, h) BY <2>2
  <2>5. h \in Heirs(InForce(revoked), L[d - 1]) BY <1>1, <2>3, <2>4
  <2>6. PICK cert \in InForce(revoked) :
          /\ h = <<cert.subject, cert.rights>>
          /\ \E x \in L[d - 1] :
               x[1] = cert.issuer /\ "invite" \in x[2] /\ cert.rights \subseteq x[2]
    BY <2>5 DEF Heirs
  <2>7. PICK x \in L[d - 1] : x[1] = cert.issuer /\ "invite" \in x[2] /\ cert.rights \subseteq x[2]
    BY <2>6
  <2>8. cert \in Cert /\ VerifyCertificate(cert) /\ ~IsCertRevoked(cert, revoked)
    BY DEF InForce
  <2>9. CASE d = 1
    <3> DEFINE chain == [i \in 1..1 |-> cert]
    <3>1. chain \in [1..d -> Cert] /\ chain[d] = cert BY <2>8, <2>9
    <3>2. cert.issuer = Genesis BY <1>1, <2>7, <2>9
    <3>3. Holds(chain, revoked) BY <2>8, <3>2 DEF Holds
    <3>4. Ends(d, h) BY <2>6, <3>1, <3>3
    <3> QED BY <2>4, <3>4
  <2>10. CASE d > 1
    <3>1. d - 1 \in 1..MaxChain /\ d - 1 < d /\ d - 1 \notin Bad
      BY <1>2, <2>2, <2>3, <2>10
    <3>2. Ends(d - 1, x) BY <2>7, <3>1
    <3>3. PICK prev \in [1..(d - 1) -> Cert] :
            Holds(prev, revoked) /\ x = <<prev[d - 1].subject, prev[d - 1].rights>>
      BY <3>2
    <3> DEFINE chain == [i \in 1..d |-> IF i < d THEN prev[i] ELSE cert]
    <3>4. /\ chain[d] = cert /\ chain[1] = prev[1]
          /\ \A i \in 1..(d - 1) : chain[i] = prev[i]
      BY <2>3, <2>10
    <3>5. chain \in [1..d -> Cert] /\ DOMAIN chain = 1..d BY <2>3, <2>8, <3>3
    <3> HIDE DEF chain
    <3>6. chain[1].issuer = Genesis BY <3>3, <3>4 DEF Holds
    <3>7. ASSUME NEW i \in 1..d
          PROVE  /\ VerifyCertificate(chain[i])
                 /\ ~IsCertRevoked(chain[i], revoked)
                 /\ i > 1 => Delegated(chain[i - 1], chain[i])
      <4>1. CASE i = d
        <5>1. chain[i] = cert /\ chain[i - 1] = prev[d - 1] BY <2>3, <2>10, <3>4, <4>1
        <5>2. Delegated(prev[d - 1], cert) BY <2>7, <3>3 DEF Delegated
        <5> QED BY <2>8, <5>1, <5>2
      <4>2. CASE i # d
        <5>1. i \in 1..(d - 1) /\ (i > 1 => i - 1 \in 1..(d - 1)) BY <2>3, <4>2
        <5>2. chain[i] = prev[i] /\ (i > 1 => chain[i - 1] = prev[i - 1]) BY <3>4, <5>1
        <5>3. i \in DOMAIN prev BY <5>1
        <5> QED BY <3>3, <5>2, <5>3 DEF Holds
      <4> QED BY <4>1, <4>2
    <3>8. Holds(chain, revoked) BY <3>5, <3>6, <3>7 DEF Holds
    <3>9. Ends(d, h) BY <2>6, <3>4, <3>5, <3>8
    <3> QED BY <2>4, <3>9
  <2> QED BY <2>3, <2>9, <2>10
<1> QED BY <1>3 DEF L

(* verifyInviteChain, in terms of that.                                        *)
LEMMA Accepted ==
  ASSUME NEW revoked, NEW k, k # Genesis, NEW d \in Nat, NEW chain \in [1..d -> Cert]
  PROVE  VerifyInviteChain(chain, k, revoked) =
           IF /\ d \in 1..MaxChain /\ Holds(chain, revoked)
              /\ chain[d].subject = k /\ "join" \in chain[d].rights
           THEN chain[d].rights ELSE {}
<1>1. Len(chain) = d OBVIOUS
<1> QED BY <1>1 DEF VerifyInviteChain, Holds

(* Whatever revocations it is given, verifyInviteChain finds with some chain that  *)
(* a key has some rights exactly if these have come down to it from the genesis   *)
(* key through holders of the right to invite (identity.ts:166-176, 240-243).     *)
THEOREM ChainsFollowAuthority ==
  ASSUME NEW revoked
  PROVE  {<<k, VerifyInviteChain(chain, k, revoked)>> : k \in Key, chain \in Chain} \ (Key \X {{}})
           = {h \in Authority(InForce(revoked)) :
                "join" \in h[2] /\ (h[1] = Genesis => h[2] = Right)}
<1> DEFINE L == Layers(InForce(revoked))
           V(chain, k) == VerifyInviteChain(chain, k, revoked)
           Found == {<<k, V(chain, k)>> : k \in Key, chain \in Chain} \ (Key \X {{}})
           Due0 == {h \in Authority(InForce(revoked)) :
                      "join" \in h[2] /\ (h[1] = Genesis => h[2] = Right)}
<1>1. /\ L[0] = {<<Genesis, Right>>}
      /\ \A d \in 1..MaxChain : L[d] = Heirs(InForce(revoked), L[d - 1])
      /\ Authority(InForce(revoked)) = UNION {L[d] : d \in 0..MaxChain}
  BY LayerAt, AuthorityLayers
<1>2. MaxChain \in Nat /\ Genesis \in Key /\ "join" \in Right BY CertAssumption
<1>3. ASSUME NEW k \in Key, NEW chain \in Chain, V(chain, k) # {}
      PROVE <<k, V(chain, k)>> \in Due0
  <2>1. CASE k = Genesis
    <3>1. V(chain, k) = Right BY <2>1 DEF VerifyInviteChain
    <3>2. <<Genesis, Right>> \in Authority(InForce(revoked)) BY <1>1, <1>2
    <3> QED BY <1>2, <2>1, <3>1, <3>2
  <2>2. CASE k # Genesis
    <3>1. PICK d \in 0..(MaxChain + 1) : chain \in [1..d -> Cert] BY DEF Chain
    <3>2. d \in Nat BY <1>2
    <3>3. /\ d \in 1..MaxChain /\ Holds(chain, revoked) /\ chain[d].subject = k
          /\ "join" \in chain[d].rights /\ V(chain, k) = chain[d].rights
      BY <1>3, <2>2, <3>1, <3>2, Accepted
    <3>4. <<chain[d].subject, chain[d].rights>> \in L[d]
      <4>1. d \in 1..d BY <3>3
      <4> QED BY <3>1, <3>3, <4>1, ChainInLayers
    <3>5. <<k, V(chain, k)>> \in Authority(InForce(revoked)) BY <1>1, <1>2, <3>3, <3>4
    <3> QED BY <2>2, <3>3, <3>5
  <2> QED BY <2>1, <2>2
<1>4. ASSUME NEW h \in Due0
      PROVE \E k \in Key, chain \in Chain : h = <<k, V(chain, k)>> /\ V(chain, k) # {}
  <2>1. PICK d \in 0..MaxChain : h \in L[d] BY <1>1
  <2>2. CASE h[1] = Genesis
    <3>1. h = <<Genesis, Right>>
      <4>1. CASE d = 0 BY <1>1, <2>1, <4>1
      <4>2. CASE d # 0
        <5>1. h \in Heirs(InForce(revoked), L[d - 1]) BY <1>1, <1>2, <2>1, <4>2
        <5>2. PICK c \in InForce(revoked) : h = <<c.subject, c.rights>> BY <5>1 DEF Heirs
        <5> QED BY <2>2, <5>2
      <4> QED BY <4>1, <4>2
    <3>2. V(<<>>, Genesis) = Right BY DEF VerifyInviteChain
    <3>3. <<>> \in Chain
      <4>1. <<>> \in [1..0 -> Cert] /\ 0 \in 0..(MaxChain + 1) BY <1>2
      <4> QED BY <4>1 DEF Chain
    <3> QED BY <1>2, <3>1, <3>2, <3>3
  <2>3. CASE h[1] # Genesis
    <3>1. d \in 1..MaxChain BY <1>1, <1>2, <2>1, <2>3
    <3>2. PICK chain \in [1..d -> Cert] :
            Holds(chain, revoked) /\ h = <<chain[d].subject, chain[d].rights>>
      BY <2>1, <3>1, LayersAreChains
    <3>3. chain \in Chain BY <1>2, <3>1 DEF Chain
    <3>4. chain[d] \in Cert /\ chain[d].subject \in Key BY <3>1, CertAssumption
    <3>5. V(chain, h[1]) = chain[d].rights
      <4>1. chain[d].subject = h[1] /\ chain[d].rights = h[2] /\ "join" \in h[2] BY <3>2
      <4>2. d \in Nat BY <1>2
      <4> QED BY <2>3, <3>1, <3>2, <4>1, <4>2, Accepted
    <3>6. h = <<h[1], V(chain, h[1])>> /\ V(chain, h[1]) # {} /\ h[1] \in Key
      BY <3>2, <3>4, <3>5
    <3> QED BY <3>3, <3>6
  <2> QED BY <2>2, <2>3
<1> HIDE DEF V, Due0
<1>5. Found \subseteq Due0 BY <1>3
<1>6. Due0 \subseteq Found
  <2> SUFFICES ASSUME NEW h \in Due0 PROVE h \in Found OBVIOUS
  <2>1. PICK k \in Key, chain \in Chain : h = <<k, V(chain, k)>> /\ V(chain, k) # {} BY <1>4
  <2>2. h \in {<<q, V(c, q)>> : q \in Key, c \in Chain} BY <2>1
  <2>3. h \notin Key \X {{}} BY <2>1
  <2> QED BY <2>2, <2>3
<1>7. Found = Due0 BY <1>5, <1>6
<1> QED BY <1>7 DEF V, Due0

(* So it is with the revocations that a page knows, and with none.             *)
THEOREM AuthorityIsFollowed == Spec => []ChainsGrantAuthority
<1>1. ChainsGrantAuthority BY ChainsFollowAuthority DEF ChainsGrantAuthority
<1> QED BY <1>1, PTL
=============================================================================
