----------------------------- MODULE Session_proofs -----------------------------
(***************************************************************************)
(* Theorems about the list of conversations, for any networks, relays and       *)
(* numbers of objects and of restarts that overlap.                           *)
(*                                                                          *)
(* SessionOK is the inductive invariant: who waits for which object (Waits), who  *)
(* has stopped or closed what is still listed (Stops, Closes), why what is listed  *)
(* is or will be stored (Stores), and, as long as nothing has clashed, where everything opened  *)
(* is in each phase of a restart (Whole).                                     *)
(***************************************************************************)
EXTENDS Session, NaturalsInduction, WellFoundedInduction, TLAPS

Object == [net : Net, phase : {"starting", "running", "stopped"}, urls : SUBSET Url]

Boot == [at : {"restoring"}, left : SUBSET Net, cur : 0..MaxConvs]

Round == [at : {"stopping", "adding"}, specs : SUBSET Net, urls : SUBSET Url,
          seen : SUBSET Ids, cur : 0..MaxConvs]

Shapes ==
  /\ conv \in [Ids -> Object \cup {NoConv}]
  /\ listed \subseteq Ids /\ \A i \in listed : conv[i] # NoConv
  /\ relays \subseteq Url /\ saved \subseteq Net /\ opened \subseteq Net
  /\ opening \subseteq Ids
  /\ boot \in Boot \cup {NoTask}
  /\ rejoin \in [1..MaxRejoins -> Round \cup {NoTask, [at |-> "saving"]}]
  /\ \A k \in 1..MaxRejoins : rejoin[k].at = "stopping" => rejoin[k].cur = 0

BootWaits(i) == boot # NoTask /\ boot.cur = i

RoundWaits(k, i) == rejoin[k].at = "adding" /\ rejoin[k].cur = i

Awaited(i) == i \in opening \/ BootWaits(i) \/ \E k \in 1..MaxRejoins : RoundWaits(k, i)

(* Just the objects that are starting are waited for, each by one coroutine.     *)
Waits ==
  \A i \in Ids :
    /\ Awaited(i) <=> conv[i] # NoConv /\ conv[i].phase = "starting"
    /\ ~(i \in opening /\ BootWaits(i))
    /\ \A k \in 1..MaxRejoins : RoundWaits(k, i) =>
         /\ i \notin opening /\ ~BootWaits(i)
         /\ \A j \in 1..MaxRejoins : RoundWaits(j, i) => j = k

(* What is listed and stopped, some restart has stopped that will clear the list. *)
Stops ==
  \A i \in listed : conv[i].phase = "stopped" =>
    \E k \in 1..MaxRejoins : rejoin[k].at = "stopping" /\ i \in rejoin[k].seen

(* ... and so with what was closed while it was starting.                       *)
Closes ==
  \A i \in closed :
    /\ i \in listed
    /\ \E k \in 1..MaxRejoins : rejoin[k].at = "stopping" /\ i \in rejoin[k].seen

Stores == (\E i \in Ids : Awaited(i)) \/ NetsOf(listed) \subseteq saved

Agree == \A i \in Ids : conv[i] # NoConv => conv[i].urls = relays

(* A restart knows what it will open again, and with which relays.               *)
RoundWhole(k) ==
  /\ rejoin[k].at = "saving" => opened \subseteq NetsOf(listed)
  /\ rejoin[k].at = "stopping" =>
       /\ opened \subseteq rejoin[k].specs
       /\ rejoin[k].urls = relays
       /\ \A i \in listed \cap rejoin[k].seen : conv[i].phase = "stopped"
  /\ rejoin[k].at = "adding" =>
       /\ Agree /\ opened \subseteq NetsOf(listed) \cup rejoin[k].specs
       /\ rejoin[k].urls = relays

(* Where the conversations are that the user has opened.                       *)
Whole ==
  /\ \A i \in Ids : conv[i] # NoConv => i \in listed
  /\ Rejoining # {} => opening = {} /\ boot = NoTask
  /\ \A j, k \in Rejoining : j = k
  /\ Rejoining = {} =>
       Agree /\ opened \subseteq NetsOf(listed) \cup (IF boot = NoTask THEN {} ELSE boot.left)
  /\ \A k \in 1..MaxRejoins : RoundWhole(k)

SessionOK == Shapes /\ Waits /\ Stops /\ Stores /\ (~clash => Whole)

-----------------------------------------------------------------------------
(* What coroutines are, and new objects.                                       *)

LEMMA Tasks ==
  ASSUME Shapes
  PROVE  /\ DOMAIN rejoin = 1..MaxRejoins
         /\ \A k \in 1..MaxRejoins :
              /\ rejoin[k].at \in {"none", "saving", "stopping", "adding"}
              /\ rejoin[k].at = "none" <=> rejoin[k] = NoTask
              /\ rejoin[k].at \in {"stopping", "adding"} => rejoin[k] \in Round
              /\ k \in Rejoining <=> rejoin[k].at # "none"
         /\ Rejoining \subseteq 1..MaxRejoins
         /\ boot # NoTask => boot \in Boot
<1>1. NoTask.at = "none" BY DEF NoTask
<1>2. DOMAIN rejoin = 1..MaxRejoins BY DEF Shapes
<1>3. ASSUME NEW k \in 1..MaxRejoins
      PROVE /\ rejoin[k].at \in {"none", "saving", "stopping", "adding"}
            /\ rejoin[k].at = "none" <=> rejoin[k] = NoTask
            /\ rejoin[k].at \in {"stopping", "adding"} => rejoin[k] \in Round
  <2>1. rejoin[k] \in Round \cup {NoTask, [at |-> "saving"]} BY DEF Shapes
  <2>2. rejoin[k] \in Round => rejoin[k].at \in {"stopping", "adding"} BY DEF Round
  <2>3. rejoin[k] = [at |-> "saving"] => rejoin[k].at = "saving" OBVIOUS
  <2> QED BY <1>1, <2>1, <2>2, <2>3
<1> QED BY <1>1, <1>2, <1>3 DEF Rejoining, Shapes

LEMMA LeastExists ==
  ASSUME NEW S \in SUBSET Nat, S # {}
  PROVE  \E i \in S : \A j \in S : i <= j
<1>1. \E u \in S : \A y \in S : ~(<<y, u>> \in OpToRel(<, Nat))
  BY Zenon, WFMin, NatLessThanWellFounded
<1>2. PICK u \in S : \A y \in S : ~(y < u) BY <1>1 DEF OpToRel
<1> QED BY <1>2

LEMMA IdsAreNat == Ids \subseteq Nat \ {0} /\ MaxConvs \in Nat /\ Ids \subseteq 0..MaxConvs
BY SessionAssumption DEF Ids

LEMMA NewIdIsFree ==
  ASSUME \E i \in Ids : conv[i] = NoConv
  PROVE  NewId \in Ids /\ conv[NewId] = NoConv
<1> DEFINE Free == {i \in Ids : conv[i] = NoConv}
<1>1. PICK i \in Free : \A j \in Free : i <= j BY IdsAreNat, LeastExists
<1>2. \A j \in 1..(i - 1) : j \in Ids /\ ~(i <= j) BY SessionAssumption DEF Ids
<1>3. i \in Ids /\ conv[i] = NoConv /\ \A j \in 1..(i - 1) : conv[j] # NoConv
  BY <1>1, <1>2
<1> QED BY <1>3 DEF NewId

(* The object that addConversation makes: nobody waits for it, it is not listed,   *)
(* and all others stay.                                                      *)
LEMMA NewObject ==
  ASSUME SessionOK, NEW net \in Net, NEW urls \in SUBSET Url, Add(net, urls), NEW n, n = NewId
  PROVE  /\ n \in Ids /\ n # 0 /\ n \in 0..MaxConvs
         /\ conv[n] = NoConv /\ ~Awaited(n) /\ n \notin listed
         /\ listed' = listed \cup {n}
         /\ conv' \in [Ids -> Object \cup {NoConv}]
         /\ conv'[n] # NoConv /\ conv'[n].net = net /\ conv'[n].phase = "starting"
         /\ conv'[n].urls = urls
         /\ \A i \in Ids \ {n} : conv'[i] = conv[i]
         /\ NetsOf(listed)' = NetsOf(listed) \cup {net}
<1> DEFINE obj == [net |-> net, phase |-> "starting", urls |-> urls]
<1>1. n \in Ids /\ conv[n] = NoConv BY NewIdIsFree DEF Add
<1>2. conv' = [conv EXCEPT ![n] = obj] /\ listed' = listed \cup {n} BY DEF Add
<1>3. obj \in Object /\ obj.net = net /\ obj.phase = "starting" /\ obj.urls = urls
  BY DEF Object
<1>4. obj # NoConv BY <1>3, SessionAssumption DEF Object
<1> HIDE DEF obj
<1>5. conv \in [Ids -> Object \cup {NoConv}] /\ n \notin listed /\ listed \subseteq Ids
  BY <1>1 DEF SessionOK, Shapes
<1>6. ~Awaited(n) BY <1>1 DEF SessionOK, Waits
<1>7. /\ conv'[n] = obj /\ \A i \in Ids \ {n} : conv'[i] = conv[i]
      /\ conv' \in [Ids -> Object \cup {NoConv}]
  BY <1>1, <1>2, <1>3, <1>5
<1>8. NetsOf(listed)' = NetsOf(listed) \cup {net}
  <2>1. \A i \in listed : conv'[i] = conv[i] BY <1>5, <1>7
  <2> QED BY <1>2, <1>3, <1>7, <2>1 DEF NetsOf
<1> QED BY <1>1, <1>2, <1>3, <1>4, <1>5, <1>6, <1>7, <1>8, IdsAreNat

(* An object starts to run; everything listed is stored.                        *)
LEMMA StartedObject ==
  ASSUME SessionOK, NEW i \in Ids, Awaited(i), Added(i), UNCHANGED listed
  PROVE  /\ conv[i] # NoConv /\ conv[i].phase = "starting"
         /\ conv' \in [Ids -> Object \cup {NoConv}]
         /\ conv'[i] # NoConv /\ conv'[i].phase = "running"
         /\ \A j \in Ids \ {i} : conv'[j] = conv[j]
         /\ \A j \in Ids : /\ conv'[j] = NoConv <=> conv[j] = NoConv
                           /\ conv[j] # NoConv => /\ conv'[j].net = conv[j].net
                                                  /\ conv'[j].urls = conv[j].urls
         /\ NetsOf(listed)' = NetsOf(listed)
         /\ saved' = NetsOf(listed) /\ saved' \subseteq Net
<1>1. conv[i] # NoConv /\ conv[i].phase = "starting" BY DEF SessionOK, Waits
<1>2. conv \in [Ids -> Object \cup {NoConv}] /\ listed \subseteq Ids
      /\ \A j \in listed : conv[j] # NoConv
  BY DEF SessionOK, Shapes
<1> DEFINE obj == [conv[i] EXCEPT !.phase = "running"]
<1>3. conv' = [conv EXCEPT ![i] = obj] BY DEF Added
<1>4. conv[i] \in Object BY <1>1, <1>2
<1>5. /\ obj \in Object /\ obj.net = conv[i].net /\ obj.phase = "running"
      /\ obj.urls = conv[i].urls
  BY <1>4 DEF Object
<1>6. obj # NoConv BY <1>5, SessionAssumption DEF Object
<1> HIDE DEF obj
<1>7. /\ conv'[i] = obj /\ \A j \in Ids \ {i} : conv'[j] = conv[j]
      /\ conv' \in [Ids -> Object \cup {NoConv}]
  BY <1>2, <1>3, <1>5
<1>8. \A j \in Ids : /\ conv'[j] = NoConv <=> conv[j] = NoConv
                     /\ conv[j] # NoConv => /\ conv'[j].net = conv[j].net
                                            /\ conv'[j].urls = conv[j].urls
  BY <1>1, <1>5, <1>6, <1>7
<1>9. NetsOf(listed)' = NetsOf(listed)
  <2>1. ASSUME NEW j \in listed PROVE conv'[j].net = conv[j].net
    <3>1. j \in Ids /\ conv[j] # NoConv BY <1>2
    <3> QED BY <1>8, <3>1
  <2> QED BY <2>1 DEF NetsOf
<1>10. NetsOf(listed) \subseteq Net BY <1>2 DEF NetsOf, Object
<1>11. saved' = NetsOf(listed) BY DEF Added
<1> QED BY <1>1, <1>5, <1>6, <1>7, <1>8, <1>9, <1>10, <1>11

-----------------------------------------------------------------------------
(* The steps.                                                                *)

LEMMA OpenKeeps ==
  ASSUME SessionOK, NEW net \in Net, Open(net)
  PROVE  SessionOK'
<1> USE DEF SessionOK
<1>1. UNCHANGED <<relays, boot, rejoin, saved>> /\ clash' = (clash \/ Rejoining # {})
  BY DEF Open
<1>2. CASE IsListed(net)
  <2>1. opened' = opened \cup {net} /\ UNCHANGED <<conv, listed, opening>> BY <1>2 DEF Open
  <2>2. \A i \in Ids : Awaited(i)' <=> Awaited(i)
    BY <1>1, <2>1 DEF Awaited, BootWaits, RoundWaits
  <2>3. Shapes' BY <1>1, <2>1 DEF Shapes
  <2>4. Waits' BY <1>1, <2>1, <2>2 DEF Waits, BootWaits, RoundWaits
  <2>5. Stops' BY <1>1, <2>1 DEF Stops
  <2>6. Stores' BY <1>1, <2>1, <2>2 DEF Stores, NetsOf
  <2>7. ASSUME ~clash' PROVE Whole'
    <3>1. ~clash /\ Rejoining = {} BY <1>1, <2>7
    <3>2. Rejoining' = {} BY <1>1, <3>1 DEF Rejoining
    <3>3. NetsOf(listed)' = NetsOf(listed) /\ net \in NetsOf(listed)
      BY <1>2, <2>1 DEF NetsOf, IsListed
    <3>4. Agree' <=> Agree BY <1>1, <2>1 DEF Agree
    <3>5. \A k \in 1..MaxRejoins : rejoin'[k].at = "none" BY <1>1, <3>1, Tasks
    <3> QED BY <1>1, <2>1, <3>1, <3>2, <3>3, <3>4, <3>5 DEF Whole, RoundWhole
  <2> QED BY <2>3, <2>4, <2>5, <2>6, <2>7
<1>3. CASE ~IsListed(net)
  <2> PICK n : n = NewId OBVIOUS
  <2>1. /\ Add(net, relays) /\ opening' = opening \cup {n} /\ UNCHANGED opened
    BY <1>3 DEF Open
  <2>2. /\ n \in Ids /\ conv[n] = NoConv /\ ~Awaited(n) /\ n \notin listed
        /\ listed' = listed \cup {n}
        /\ conv' \in [Ids -> Object \cup {NoConv}]
        /\ conv'[n] # NoConv /\ conv'[n].net = net /\ conv'[n].phase = "starting"
        /\ conv'[n].urls = relays
        /\ \A i \in Ids \ {n} : conv'[i] = conv[i]
        /\ NetsOf(listed)' = NetsOf(listed) \cup {net}
    BY <2>1, NewObject DEF Shapes
  <2>3. Shapes' BY <1>1, <2>1, <2>2 DEF Shapes
  <2>4. \A i \in Ids : /\ BootWaits(i)' <=> BootWaits(i)
                       /\ \A k \in 1..MaxRejoins : RoundWaits(k, i)' <=> RoundWaits(k, i)
    BY <1>1 DEF BootWaits, RoundWaits
  <2>5. Waits'
    <3> SUFFICES ASSUME NEW i \in Ids
                 PROVE  /\ Awaited(i)' <=> conv'[i] # NoConv /\ conv'[i].phase = "starting"
                        /\ ~(i \in opening' /\ BootWaits(i)')
                        /\ \A k \in 1..MaxRejoins : RoundWaits(k, i)' =>
                             /\ i \notin opening' /\ ~BootWaits(i)'
                             /\ \A j \in 1..MaxRejoins : RoundWaits(j, i)' => j = k
      BY DEF Waits
    <3>1. CASE i = n BY <2>1, <2>2, <2>4, <3>1 DEF Awaited
    <3>2. CASE i # n BY <2>1, <2>2, <2>4, <3>2 DEF Awaited, Waits
    <3> QED BY <3>1, <3>2
  <2>6. Stops' BY <1>1, <2>2 DEF Stops, Shapes
  <2>7. Stores' BY <2>1, <2>2 DEF Stores, Awaited
  <2>8. ASSUME ~clash' PROVE Whole'
    <3>1. ~clash /\ Rejoining = {} BY <1>1, <2>8
    <3>2. Rejoining' = {} BY <1>1, <3>1 DEF Rejoining
    <3>3. Agree' BY <1>1, <2>2, <3>1 DEF Agree, Whole
    <3>4. \A k \in 1..MaxRejoins : rejoin'[k].at = "none" BY <1>1, <3>1, Tasks
    <3> QED BY <1>1, <2>1, <2>2, <3>1, <3>2, <3>3, <3>4 DEF Whole, RoundWhole
  <2> QED BY <2>3, <2>5, <2>6, <2>7, <2>8
<1> QED BY <1>2, <1>3

LEMMA OpenedKeeps ==
  ASSUME SessionOK, NEW i \in Ids, Opened(i)
  PROVE  SessionOK'
<1> USE DEF SessionOK
<1>1. /\ i \in opening /\ Added(i) /\ opening' = opening \ {i}
      /\ opened' = opened \cup {conv[i].net}
      /\ UNCHANGED <<listed, relays, boot, rejoin, clash, ops>>
  BY DEF Opened
<1>2. Awaited(i) BY <1>1 DEF Awaited
<1>3. /\ conv[i] # NoConv /\ conv[i].phase = "starting"
      /\ conv' \in [Ids -> Object \cup {NoConv}]
      /\ conv'[i] # NoConv /\ conv'[i].phase = "running"
      /\ \A j \in Ids \ {i} : conv'[j] = conv[j]
      /\ \A j \in Ids : /\ conv'[j] = NoConv <=> conv[j] = NoConv
                        /\ conv[j] # NoConv => /\ conv'[j].net = conv[j].net
                                               /\ conv'[j].urls = conv[j].urls
      /\ NetsOf(listed)' = NetsOf(listed)
      /\ saved' = NetsOf(listed) /\ saved' \subseteq Net
  BY <1>1, <1>2, StartedObject
<1>4. conv[i].net \in Net BY <1>3 DEF Shapes, Object
<1>5. Shapes' BY <1>1, <1>3, <1>4 DEF Shapes
<1>6. \A j \in Ids : /\ BootWaits(j)' <=> BootWaits(j)
                     /\ \A k \in 1..MaxRejoins : RoundWaits(k, j)' <=> RoundWaits(k, j)
  BY <1>1 DEF BootWaits, RoundWaits
<1>7. Waits' BY <1>1, <1>3, <1>6 DEF Waits, Awaited
<1>8. Stops' BY <1>1, <1>3 DEF Stops, Shapes
<1>9. Stores' BY <1>3 DEF Stores
<1>10. ASSUME ~clash' PROVE Whole'
  <2>1. Whole /\ Rejoining = {} BY <1>1, <1>10 DEF Whole
  <2>2. Rejoining' = {} BY <1>1, <2>1 DEF Rejoining
  <2>3. conv[i].net \in NetsOf(listed) BY <1>3, <2>1 DEF Whole, NetsOf
  <2>4. Agree' BY <1>1, <1>3, <2>1 DEF Agree, Whole
  <2>5. \A k \in 1..MaxRejoins : rejoin'[k].at = "none" BY <1>1, <2>1, Tasks
  <2> QED BY <1>1, <1>3, <2>1, <2>2, <2>3, <2>4, <2>5 DEF Whole, RoundWhole
<1> QED BY <1>5, <1>7, <1>8, <1>9, <1>10

LEMMA BootAddsKeeps ==
  ASSUME SessionOK, BootAdds
  PROVE  SessionOK'
<1> USE DEF SessionOK
<1>1. /\ boot # NoTask /\ boot.cur = 0 /\ boot \in Boot
      /\ UNCHANGED <<relays, opening, rejoin, saved, opened, clash, ops>>
  BY Tasks DEF BootAdds
<1>2. \A i \in Ids : ~BootWaits(i) /\ i # 0 BY <1>1, IdsAreNat DEF BootWaits
<1>3. \A i \in Ids, k \in 1..MaxRejoins : RoundWaits(k, i)' <=> RoundWaits(k, i)
  BY <1>1 DEF RoundWaits
<1>4. Rejoining' = Rejoining BY <1>1 DEF Rejoining
<1>5. ASSUME ~clash' PROVE Whole /\ Rejoining = {} /\ \A k \in 1..MaxRejoins : rejoin[k].at = "none"
  BY <1>1, <1>5, Tasks DEF Whole
(* What the list has already.                                                 *)
<1>6. ASSUME UNCHANGED <<conv, listed>>, NEW net \in NetsOf(listed),
             boot' = [boot EXCEPT !.left = @ \ {net}]
      PROVE SessionOK'
  <2>1. /\ boot' \in Boot /\ boot'.left = boot.left \ {net} /\ boot'.cur = 0
        /\ boot' # NoTask
    BY <1>1, <1>6 DEF Boot, NoTask
  <2>2. \A i \in Ids : ~BootWaits(i)' BY <1>2, <2>1 DEF BootWaits
  <2>3. Shapes' BY <1>1, <1>6, <2>1 DEF Shapes
  <2>4. Waits' BY <1>1, <1>2, <1>3, <1>6, <2>2 DEF Waits, Awaited
  <2>5. Stops' BY <1>1, <1>6 DEF Stops
  <2>6. Stores' BY <1>1, <1>2, <1>3, <1>6, <2>2 DEF Stores, Awaited, NetsOf
  <2>7. ASSUME ~clash' PROVE Whole'
    <3>1. NetsOf(listed)' = NetsOf(listed) BY <1>6 DEF NetsOf
    <3>2. Agree' <=> Agree BY <1>1, <1>6 DEF Agree
    <3>3. opened \subseteq NetsOf(listed) \cup boot.left BY <1>1, <1>5, <2>7 DEF Whole
    <3>4. opened' \subseteq NetsOf(listed)' \cup boot'.left BY <1>1, <1>6, <2>1, <3>1, <3>3
    <3>5. \A k \in 1..MaxRejoins : rejoin'[k].at = "none" BY <1>1, <1>5, <2>7
    <3>6. Whole /\ Rejoining' = {} BY <1>4, <1>5, <2>7
    <3> QED BY <1>1, <1>6, <2>1, <3>2, <3>4, <3>5, <3>6 DEF Whole, RoundWhole
  <2> QED BY <2>3, <2>4, <2>5, <2>6, <2>7
<1>7. ASSUME NEW net \in Net, NEW n, n = NewId, Add(net, relays),
             boot' = [boot EXCEPT !.left = @ \ {net}, !.cur = n]
      PROVE SessionOK'
  <2>1. /\ n \in Ids /\ n # 0 /\ n \in 0..MaxConvs
        /\ conv[n] = NoConv /\ ~Awaited(n) /\ n \notin listed
        /\ listed' = listed \cup {n}
        /\ conv' \in [Ids -> Object \cup {NoConv}]
        /\ conv'[n] # NoConv /\ conv'[n].net = net /\ conv'[n].phase = "starting"
        /\ conv'[n].urls = relays
        /\ \A i \in Ids \ {n} : conv'[i] = conv[i]
        /\ NetsOf(listed)' = NetsOf(listed) \cup {net}
    BY <1>7, NewObject DEF Shapes
  <2>2. /\ boot' \in Boot /\ boot'.left = boot.left \ {net} /\ boot'.cur = n
        /\ boot' # NoTask
    BY <1>1, <1>7, <2>1 DEF Boot, NoTask
  <2>3. \A i \in Ids : BootWaits(i)' <=> i = n BY <2>2 DEF BootWaits
  <2>4. Shapes' BY <1>1, <2>1, <2>2 DEF Shapes
  <2>5. Waits'
    <3> SUFFICES ASSUME NEW i \in Ids
                 PROVE  /\ Awaited(i)' <=> conv'[i] # NoConv /\ conv'[i].phase = "starting"
                        /\ ~(i \in opening' /\ BootWaits(i)')
                        /\ \A k \in 1..MaxRejoins : RoundWaits(k, i)' =>
                             /\ i \notin opening' /\ ~BootWaits(i)'
                             /\ \A j \in 1..MaxRejoins : RoundWaits(j, i)' => j = k
      BY DEF Waits
    <3>1. CASE i = n BY <1>1, <1>3, <2>1, <2>3, <3>1 DEF Awaited
    <3>2. CASE i # n BY <1>1, <1>2, <1>3, <2>1, <2>3, <3>2 DEF Awaited, Waits
    <3> QED BY <3>1, <3>2
  <2>6. Stops' BY <1>1, <2>1 DEF Stops, Shapes
  <2>7. Stores' BY <2>1, <2>3 DEF Stores, Awaited
  <2>8. ASSUME ~clash' PROVE Whole'
    <3>1. Agree' BY <1>1, <1>5, <2>1, <2>8 DEF Agree, Whole
    <3>2. opened \subseteq NetsOf(listed) \cup boot.left BY <1>1, <1>5, <2>8 DEF Whole
    <3>3. opened' \subseteq NetsOf(listed)' \cup boot'.left BY <1>1, <2>1, <2>2, <3>2
    <3>4. \A i \in Ids : conv'[i] # NoConv => i \in listed' BY <1>5, <2>1, <2>8 DEF Whole
    <3>5. \A k \in 1..MaxRejoins : rejoin'[k].at = "none" BY <1>1, <1>5, <2>8
    <3>6. Rejoining' = {} BY <1>4, <1>5, <2>8
    <3> QED BY <2>2, <3>1, <3>3, <3>4, <3>5, <3>6 DEF Whole, RoundWhole
  <2> QED BY <2>4, <2>5, <2>6, <2>7, <2>8
(* boot() is over.                                                           *)
<1>8. ASSUME boot' = NoTask, boot.left = {}, UNCHANGED <<conv, listed>>
      PROVE SessionOK'
  <2>1. \A i \in Ids : ~BootWaits(i)' BY <1>8 DEF BootWaits
  <2>2. Shapes' BY <1>1, <1>8 DEF Shapes
  <2>3. Waits' BY <1>1, <1>2, <1>3, <1>8, <2>1 DEF Waits, Awaited
  <2>4. Stops' BY <1>1, <1>8 DEF Stops
  <2>5. Stores' BY <1>1, <1>2, <1>3, <1>8, <2>1 DEF Stores, Awaited, NetsOf
  <2>6. ASSUME ~clash' PROVE Whole'
    <3>1. NetsOf(listed)' = NetsOf(listed) BY <1>8 DEF NetsOf
    <3>2. Agree' <=> Agree BY <1>1, <1>8 DEF Agree
    <3> QED BY <1>1, <1>4, <1>5, <1>8, <2>6, <3>1, <3>2 DEF Whole, RoundWhole
  <2> QED BY <2>2, <2>3, <2>4, <2>5, <2>6
<1>9. CASE boot.left # {}
  <2>1. PICK net \in boot.left :
          IF IsListed(net)
          THEN /\ boot' = [boot EXCEPT !.left = @ \ {net}]
               /\ UNCHANGED <<conv, listed>>
          ELSE /\ Add(net, relays)
               /\ boot' = [boot EXCEPT !.left = @ \ {net}, !.cur = NewId]
    BY <1>9 DEF BootAdds
  <2>2. net \in Net BY <1>1 DEF Boot
  <2>3. CASE IsListed(net) BY <1>6, <2>1, <2>3 DEF IsListed
  <2>4. CASE ~IsListed(net) BY <1>7, <2>1, <2>2, <2>4
  <2> QED BY <2>3, <2>4
<1>10. CASE boot.left = {} /\ NetsOf(listed) \cap Channels = {}
  <2>1. Add(General, relays) /\ boot' = [boot EXCEPT !.cur = NewId] BY <1>10 DEF BootAdds
  <2>2. PICK n : n = NewId OBVIOUS
  <2>3. [boot EXCEPT !.cur = n] = [boot EXCEPT !.left = @ \ {General}, !.cur = n]
    BY <1>1, <1>10 DEF Boot
  <2>4. General \in Net BY SessionAssumption
  <2> QED BY <1>7, <2>1, <2>2, <2>3, <2>4
<1>11. CASE boot.left = {} /\ NetsOf(listed) \cap Channels # {}
  BY <1>8, <1>11 DEF BootAdds
<1> QED BY <1>9, <1>10, <1>11

LEMMA BootAddedKeeps ==
  ASSUME SessionOK, BootAdded
  PROVE  SessionOK'
<1> USE DEF SessionOK
<1> PICK i : i = boot.cur OBVIOUS
<1>1. /\ boot # NoTask /\ i = boot.cur /\ i # 0 /\ boot \in Boot /\ Added(i)
      /\ boot' = [boot EXCEPT !.cur = 0]
      /\ UNCHANGED <<listed, relays, opening, rejoin, opened, clash, ops>>
  BY Tasks DEF BootAdded
<1>2. i \in Ids /\ BootWaits(i) /\ Awaited(i)
  BY <1>1, SessionAssumption DEF Boot, Ids, BootWaits, Awaited
<1>3. /\ conv[i] # NoConv /\ conv[i].phase = "starting"
      /\ conv' \in [Ids -> Object \cup {NoConv}]
      /\ conv'[i] # NoConv /\ conv'[i].phase = "running"
      /\ \A j \in Ids \ {i} : conv'[j] = conv[j]
      /\ \A j \in Ids : /\ conv'[j] = NoConv <=> conv[j] = NoConv
                        /\ conv[j] # NoConv => /\ conv'[j].net = conv[j].net
                                               /\ conv'[j].urls = conv[j].urls
      /\ NetsOf(listed)' = NetsOf(listed)
      /\ saved' = NetsOf(listed) /\ saved' \subseteq Net
  BY <1>1, <1>2, StartedObject
<1>4. /\ boot' \in Boot /\ boot'.left = boot.left /\ boot'.cur = 0 /\ boot' # NoTask
  BY <1>1, IdsAreNat DEF Boot, NoTask
<1>5. Shapes' BY <1>1, <1>3, <1>4 DEF Shapes
<1>6. \A j \in Ids : /\ ~BootWaits(j)' /\ (j # i => ~BootWaits(j))
                     /\ \A k \in 1..MaxRejoins : RoundWaits(k, j)' <=> RoundWaits(k, j)
  BY <1>1, <1>4, IdsAreNat DEF BootWaits, RoundWaits
<1>7. Waits' BY <1>1, <1>2, <1>3, <1>6 DEF Waits, Awaited
<1>8. Stops' BY <1>1, <1>3 DEF Stops, Shapes
<1>9. Stores' BY <1>3 DEF Stores
<1>10. ASSUME ~clash' PROVE Whole'
  <2>1. Whole /\ Rejoining = {} BY <1>1, <1>10 DEF Whole
  <2>2. Rejoining' = {} BY <1>1, <2>1 DEF Rejoining
  <2>3. Agree' BY <1>1, <1>3, <2>1 DEF Agree, Whole
  <2>4. \A k \in 1..MaxRejoins : rejoin'[k].at = "none" BY <1>1, <2>1, Tasks
  <2> QED BY <1>1, <1>3, <1>4, <2>1, <2>2, <2>3, <2>4 DEF Whole, RoundWhole
<1> QED BY <1>5, <1>7, <1>8, <1>9, <1>10

(* A restart that goes from task to task; the others are as they were.           *)
LEMMA TaskSet ==
  ASSUME Shapes, NEW k \in 1..MaxRejoins,
         NEW t \in Round \cup {NoTask, [at |-> "saving"]},
         t.at = "stopping" => t.cur = 0,
         rejoin' = [rejoin EXCEPT ![k] = t]
  PROVE  /\ rejoin' \in [1..MaxRejoins -> Round \cup {NoTask, [at |-> "saving"]}]
         /\ rejoin'[k] = t
         /\ \A j \in (1..MaxRejoins) \ {k} : rejoin'[j] = rejoin[j]
         /\ \A j \in 1..MaxRejoins : rejoin'[j].at = "stopping" => rejoin'[j].cur = 0
         /\ \A j \in (1..MaxRejoins) \ {k} : j \in Rejoining' <=> j \in Rejoining
         /\ k \in Rejoining' <=> t # NoTask
         /\ Rejoining' \subseteq 1..MaxRejoins
<1>1. /\ rejoin' \in [1..MaxRejoins -> Round \cup {NoTask, [at |-> "saving"]}]
      /\ rejoin'[k] = t
      /\ \A j \in (1..MaxRejoins) \ {k} : rejoin'[j] = rejoin[j]
      /\ DOMAIN rejoin' = 1..MaxRejoins /\ DOMAIN rejoin = 1..MaxRejoins
  BY DEF Shapes
<1>2. \A j \in 1..MaxRejoins : rejoin'[j].at = "stopping" => rejoin'[j].cur = 0
  BY <1>1 DEF Shapes
<1> QED BY <1>1, <1>2 DEF Rejoining

LEMMA ChangeRelaysKeeps ==
  ASSUME SessionOK, NEW k \in 1..MaxRejoins, ChangeRelays(k)
  PROVE  SessionOK'
<1> USE DEF SessionOK
<1> DEFINE t == [at |-> "saving"]
<1>1. /\ rejoin[k] = NoTask /\ rejoin' = [rejoin EXCEPT ![k] = t]
      /\ clash' = (clash \/ ~Quiet)
      /\ UNCHANGED <<conv, listed, opening, boot, saved, opened>>
  BY DEF ChangeRelays
<1>2. relays' \subseteq Url BY DEF ChangeRelays, Shapes
<1>3. t.at = "saving" /\ t # NoTask /\ t \in Round \cup {NoTask, [at |-> "saving"]} BY DEF NoTask
<1>4. rejoin[k].at = "none" BY <1>1, Tasks
<1> HIDE DEF t
<1>5. /\ rejoin' \in [1..MaxRejoins -> Round \cup {NoTask, [at |-> "saving"]}]
      /\ rejoin'[k] = t
      /\ \A j \in (1..MaxRejoins) \ {k} : rejoin'[j] = rejoin[j]
      /\ \A j \in 1..MaxRejoins : rejoin'[j].at = "stopping" => rejoin'[j].cur = 0
      /\ \A j \in (1..MaxRejoins) \ {k} : j \in Rejoining' <=> j \in Rejoining
      /\ k \in Rejoining' <=> t # NoTask
      /\ Rejoining' \subseteq 1..MaxRejoins
  BY <1>1, <1>3, TaskSet
<1>6. \A i \in Ids : /\ BootWaits(i)' <=> BootWaits(i)
                     /\ \A j \in 1..MaxRejoins : RoundWaits(j, i)' <=> RoundWaits(j, i)
                     /\ Awaited(i)' <=> Awaited(i)
  BY <1>1, <1>3, <1>4, <1>5 DEF BootWaits, RoundWaits, Awaited
<1>7. Shapes' BY <1>1, <1>2, <1>5 DEF Shapes
<1>8. Waits' BY <1>1, <1>6 DEF Waits
<1>9. Stops' BY <1>1, <1>4, <1>5 DEF Stops
<1>10. Stores' BY <1>1, <1>6 DEF Stores, NetsOf
<1>11. ASSUME ~clash' PROVE Whole'
  <2>1. ~clash /\ opening = {} /\ boot = NoTask /\ Rejoining = {} BY <1>1, <1>11 DEF Quiet
  <2>2. \A i, j \in Rejoining' : i = j BY <1>5, <2>1
  <2>3. Rejoining' # {} BY <1>3, <1>5
  <2>4. opened \subseteq NetsOf(listed) BY <2>1 DEF Whole
  <2>5. NetsOf(listed)' = NetsOf(listed) BY <1>1 DEF NetsOf
  <2>6. \A j \in 1..MaxRejoins : rejoin'[j].at \notin {"stopping", "adding"}
    BY <1>3, <1>5, <2>1, Tasks
  <2> QED BY <1>1, <2>1, <2>2, <2>3, <2>4, <2>5, <2>6 DEF Whole, RoundWhole
<1> QED BY <1>7, <1>8, <1>9, <1>10, <1>11

LEMMA CaptureKeeps ==
  ASSUME SessionOK, NEW k \in 1..MaxRejoins, Capture(k)
  PROVE  SessionOK'
<1> USE DEF SessionOK
<1> DEFINE t == [at |-> "stopping", specs |-> NetsOf(listed), urls |-> relays,
                 seen |-> {}, cur |-> 0]
<1>1. /\ rejoin[k].at = "saving" /\ rejoin' = [rejoin EXCEPT ![k] = t]
      /\ UNCHANGED <<conv, listed, relays, opening, boot, saved, opened, clash, ops>>
  BY DEF Capture
<1>2. NetsOf(listed) \subseteq Net BY DEF NetsOf, Shapes, Object
<1>3. /\ t.at = "stopping" /\ t.specs = NetsOf(listed) /\ t.urls = relays /\ t.seen = {}
      /\ t.cur = 0 /\ t \in Round \cup {NoTask, [at |-> "saving"]} /\ t # NoTask
  BY <1>2, IdsAreNat DEF Round, Shapes, NoTask
<1> HIDE DEF t
<1>4. /\ rejoin' \in [1..MaxRejoins -> Round \cup {NoTask, [at |-> "saving"]}]
      /\ rejoin'[k] = t
      /\ \A j \in (1..MaxRejoins) \ {k} : rejoin'[j] = rejoin[j]
      /\ \A j \in 1..MaxRejoins : rejoin'[j].at = "stopping" => rejoin'[j].cur = 0
      /\ \A j \in (1..MaxRejoins) \ {k} : j \in Rejoining' <=> j \in Rejoining
      /\ k \in Rejoining' <=> t # NoTask
      /\ Rejoining' \subseteq 1..MaxRejoins
  BY <1>1, <1>3, TaskSet
<1>5. Rejoining' = Rejoining
  <2>1. k \in Rejoining /\ k \in Rejoining' /\ Rejoining \subseteq 1..MaxRejoins
    BY <1>1, <1>3, <1>4, Tasks
  <2>2. \A j \in 1..MaxRejoins : j \in Rejoining' <=> j \in Rejoining BY <1>4, <2>1
  <2> QED BY <1>4, <2>1, <2>2, Zenon
<1>6. \A i \in Ids : /\ BootWaits(i)' <=> BootWaits(i)
                     /\ \A j \in 1..MaxRejoins : RoundWaits(j, i)' <=> RoundWaits(j, i)
                     /\ Awaited(i)' <=> Awaited(i)
  BY <1>1, <1>3, <1>4 DEF BootWaits, RoundWaits, Awaited
<1>7. Shapes' BY <1>1, <1>4 DEF Shapes
<1>8. Waits' BY <1>1, <1>6 DEF Waits
<1>9. Stops' BY <1>1, <1>4 DEF Stops
<1>10. Stores' BY <1>1, <1>6 DEF Stores, NetsOf
<1>11. ASSUME ~clash' PROVE Whole'
  <2>1. Whole BY <1>1, <1>11
  <2>2. opened \subseteq NetsOf(listed) BY <1>1, <2>1 DEF Whole, RoundWhole
  <2>3. NetsOf(listed)' = NetsOf(listed) BY <1>1 DEF NetsOf
  <2>4. Agree' <=> Agree BY <1>1 DEF Agree
  <2>5. ASSUME NEW j \in 1..MaxRejoins
        PROVE  RoundWhole(j)'
    <3>1. CASE j = k BY <1>1, <1>3, <1>4, <2>2, <3>1 DEF RoundWhole
    <3>2. CASE j # k BY <1>1, <1>4, <2>1, <2>3, <2>4, <3>2 DEF Whole, RoundWhole
    <3> QED BY <3>1, <3>2
  <2>6. Rejoining' # {} BY <1>3, <1>4
  <2> QED BY <1>1, <1>5, <2>1, <2>5, <2>6 DEF Whole
<1> QED BY <1>7, <1>8, <1>9, <1>10, <1>11

LEMMA StopNextKeeps ==
  ASSUME SessionOK, NEW k \in 1..MaxRejoins, StopNext(k)
  PROVE  SessionOK'
<1> USE DEF SessionOK
<1>1. PICK i \in listed \ rejoin[k].seen :
        /\ IF conv[i].phase = "starting" THEN conv' = conv
           ELSE conv' = [conv EXCEPT ![i].phase = "stopped"]
        /\ rejoin' = [rejoin EXCEPT ![k].seen = @ \cup {i}]
  BY DEF StopNext
<1>2. /\ rejoin[k].at = "stopping" /\ rejoin[k] \in Round /\ rejoin[k].cur = 0
      /\ UNCHANGED <<listed, relays, opening, boot, saved, opened, clash, ops>>
  BY Tasks DEF StopNext, Shapes
<1> DEFINE t == [rejoin[k] EXCEPT !.seen = @ \cup {i}]
<1>3. rejoin' = [rejoin EXCEPT ![k] = t] BY <1>1
<1>4. i \in Ids /\ conv[i] # NoConv /\ conv[i] \in Object BY <1>1 DEF Shapes
<1>5. /\ t \in Round \cup {NoTask, [at |-> "saving"]} /\ t.at = "stopping" /\ t.cur = 0
      /\ t.specs = rejoin[k].specs /\ t.urls = rejoin[k].urls
      /\ t.seen = rejoin[k].seen \cup {i}
      /\ t # NoTask
  BY <1>2, <1>4 DEF Round, NoTask
<1> HIDE DEF t
<1>6. /\ rejoin' \in [1..MaxRejoins -> Round \cup {NoTask, [at |-> "saving"]}]
      /\ rejoin'[k] = t
      /\ \A j \in (1..MaxRejoins) \ {k} : rejoin'[j] = rejoin[j]
      /\ \A j \in 1..MaxRejoins : rejoin'[j].at = "stopping" => rejoin'[j].cur = 0
      /\ \A j \in (1..MaxRejoins) \ {k} : j \in Rejoining' <=> j \in Rejoining
      /\ k \in Rejoining' <=> t # NoTask
      /\ Rejoining' \subseteq 1..MaxRejoins
  BY <1>3, <1>5, TaskSet
<1>7. Rejoining' = Rejoining
  <2>1. k \in Rejoining /\ k \in Rejoining' /\ Rejoining \subseteq 1..MaxRejoins
    BY <1>2, <1>5, <1>6, Tasks
  <2>2. \A j \in 1..MaxRejoins : j \in Rejoining' <=> j \in Rejoining BY <1>6, <2>1
  <2> QED BY <1>6, <2>1, <2>2, Zenon
(* The object: stopped, unless it is still starting.                            *)
<1>8. /\ conv' \in [Ids -> Object \cup {NoConv}]
      /\ \A j \in Ids \ {i} : conv'[j] = conv[j]
      /\ conv'[i] # NoConv /\ conv'[i].net = conv[i].net /\ conv'[i].urls = conv[i].urls
      /\ IF conv[i].phase = "starting" THEN conv'[i].phase = "starting"
         ELSE conv'[i].phase = "stopped"
  <2>1. CASE conv[i].phase = "starting" BY <1>1, <1>4, <2>1 DEF Shapes
  <2>2. CASE conv[i].phase # "starting"
    <3> DEFINE obj == [conv[i] EXCEPT !.phase = "stopped"]
    <3>1. conv' = [conv EXCEPT ![i] = obj] BY <1>1, <2>2
    <3>2. /\ obj \in Object /\ obj.phase = "stopped" /\ obj.net = conv[i].net
          /\ obj.urls = conv[i].urls
      BY <1>4 DEF Object
    <3>3. obj # NoConv BY <3>2, SessionAssumption DEF Object
    <3> HIDE DEF obj
    <3> QED BY <1>4, <2>2, <3>1, <3>2, <3>3 DEF Shapes
  <2> QED BY <2>1, <2>2
<1>9. /\ \A j \in Ids : conv'[j] = NoConv <=> conv[j] = NoConv
      /\ \A j \in Ids : conv[j] # NoConv =>
           conv'[j].net = conv[j].net /\ conv'[j].urls = conv[j].urls
  BY <1>4, <1>8
<1>10. \A j \in Ids : /\ BootWaits(j)' <=> BootWaits(j)
                      /\ \A m \in 1..MaxRejoins : RoundWaits(m, j)' <=> RoundWaits(m, j)
                      /\ Awaited(j)' <=> Awaited(j)
  BY <1>2, <1>5, <1>6 DEF BootWaits, RoundWaits, Awaited
<1>11. NetsOf(listed)' = NetsOf(listed)
  <2>1. ASSUME NEW j \in listed PROVE conv'[j].net = conv[j].net
    <3>1. j \in Ids /\ conv[j] # NoConv BY DEF Shapes
    <3> QED BY <1>9, <3>1
  <2> QED BY <1>2, <2>1 DEF NetsOf
<1>12. Shapes' BY <1>2, <1>6, <1>8, <1>9 DEF Shapes
<1>13. Waits' BY <1>2, <1>4, <1>8, <1>10 DEF Waits
<1>14. Stops'
  <2> SUFFICES ASSUME NEW j \in listed, conv'[j].phase = "stopped"
               PROVE \E m \in 1..MaxRejoins :
                       rejoin'[m].at = "stopping" /\ j \in rejoin'[m].seen
    BY <1>2 DEF Stops
  <2>1. j \in Ids BY DEF Shapes
  <2>2. CASE j = i BY <1>5, <1>6, <2>2
  <2>3. CASE j # i
    <3>1. PICK m \in 1..MaxRejoins : rejoin[m].at = "stopping" /\ j \in rejoin[m].seen
      BY <1>8, <2>1, <2>3 DEF Stops
    <3> QED BY <1>5, <1>6, <3>1
  <2> QED BY <2>2, <2>3
<1>15. Stores' BY <1>2, <1>10, <1>11 DEF Stores
<1>16. ASSUME ~clash' PROVE Whole'
  <2>1. Whole BY <1>2, <1>16
  <2>2. Rejoining # {} /\ opening = {} /\ boot = NoTask /\ k \in Rejoining
        /\ \A j \in Rejoining : j = k
    BY <1>2, <2>1, Tasks DEF Whole
  <2>3. conv[i].phase # "starting"
    <3>1. ~Awaited(i)
      <4>1. ASSUME NEW m \in 1..MaxRejoins PROVE ~RoundWaits(m, i)
        <5>1. rejoin[m].at # "none" => m = k BY <2>2, Tasks
        <5> QED BY <1>2, <5>1 DEF RoundWaits
      <4> QED BY <2>2, <4>1 DEF Awaited, BootWaits
    <3> QED BY <1>4, <3>1 DEF Waits
  <2>4. \A j \in listed \cap rejoin[k].seen : conv'[j].phase = "stopped"
    BY <1>1, <1>2, <1>8, <2>1 DEF Whole, RoundWhole, Shapes
  <2>5. \A j \in listed' \cap t.seen : conv'[j].phase = "stopped"
    BY <1>2, <1>5, <1>8, <2>3, <2>4
  <2>6. \A j \in 1..MaxRejoins : j # k => rejoin'[j].at = "none"
    BY <1>6, <2>2, Tasks
  <2>7. opened \subseteq rejoin[k].specs /\ rejoin[k].urls = relays BY <1>2, <2>1 DEF Whole, RoundWhole
  <2>8. \A j \in Ids : conv'[j] # NoConv => j \in listed' BY <1>2, <1>9, <2>1 DEF Whole
  <2>9. ASSUME NEW j \in 1..MaxRejoins
        PROVE  RoundWhole(j)'
    <3>1. CASE j = k BY <1>2, <1>5, <1>6, <2>5, <2>7, <3>1 DEF RoundWhole
    <3>2. CASE j # k BY <2>6, <3>2 DEF RoundWhole
    <3> QED BY <3>1, <3>2
  <2> QED BY <1>2, <1>7, <2>2, <2>8, <2>9 DEF Whole
<1> QED BY <1>12, <1>13, <1>14, <1>15, <1>16

LEMMA ClearKeeps ==
  ASSUME SessionOK, NEW k \in 1..MaxRejoins, Clear(k)
  PROVE  SessionOK'
<1> USE DEF SessionOK
<1> DEFINE Emptied(j) == IF j = k THEN [rejoin[k] EXCEPT !.at = "adding", !.seen = {}]
                         ELSE IF rejoin[j].at = "stopping"
                              THEN [rejoin[j] EXCEPT !.seen = {}] ELSE rejoin[j]
<1>1. /\ rejoin[k].at = "stopping" /\ listed \subseteq rejoin[k].seen /\ listed' = {}
      /\ conv' = [i \in Ids |-> IF conv[i] # NoConv /\ conv[i].phase = "stopped"
                                THEN NoConv ELSE conv[i]]
      /\ UNCHANGED <<relays, opening, boot, saved, opened, clash, ops>>
  BY DEF Clear
<1>2. rejoin' = [j \in 1..MaxRejoins |-> Emptied(j)]
  <2>1. DOMAIN rejoin = 1..MaxRejoins BY Tasks
  <2> QED BY <2>1 DEF Clear
<1>3. rejoin[k] \in Round /\ rejoin[k].cur = 0 BY <1>1, Tasks DEF Shapes
<1>4. /\ Emptied(k) \in Round /\ Emptied(k).at = "adding" /\ Emptied(k).cur = 0
      /\ Emptied(k).specs = rejoin[k].specs /\ Emptied(k).urls = rejoin[k].urls
  BY <1>3 DEF Round
<1>5. ASSUME NEW j \in 1..MaxRejoins, j # k
      PROVE  /\ Emptied(j) \in Round \cup {NoTask, [at |-> "saving"]}
             /\ Emptied(j).at = rejoin[j].at
             /\ rejoin[j].at \in {"stopping", "adding"} => Emptied(j).cur = rejoin[j].cur
             /\ rejoin[j].at # "stopping" => Emptied(j) = rejoin[j]
  <2>1. CASE rejoin[j].at = "stopping"
    <3>1. rejoin[j] \in Round BY <2>1, Tasks
    <3>2. Emptied(j) = [rejoin[j] EXCEPT !.seen = {}] BY <1>5, <2>1
    <3>3. [rejoin[j] EXCEPT !.seen = {}] \in Round BY <3>1 DEF Round
    <3>4. /\ [rejoin[j] EXCEPT !.seen = {}].at = rejoin[j].at
          /\ [rejoin[j] EXCEPT !.seen = {}].cur = rejoin[j].cur
      BY <3>1 DEF Round
    <3> HIDE DEF Emptied
    <3> QED BY <2>1, <3>2, <3>3, <3>4
  <2>2. CASE rejoin[j].at # "stopping" BY <1>5, <2>2 DEF Shapes
  <2> QED BY <2>1, <2>2
<1> HIDE DEF Emptied
<1>6. \A j \in 1..MaxRejoins : rejoin'[j] = Emptied(j) BY <1>2
<1>7. /\ rejoin' \in [1..MaxRejoins -> Round \cup {NoTask, [at |-> "saving"]}]
      /\ \A j \in 1..MaxRejoins : rejoin'[j].at = "stopping" => rejoin'[j].cur = 0
  <2>1. \A j \in 1..MaxRejoins : Emptied(j) \in Round \cup {NoTask, [at |-> "saving"]}
    BY <1>4, <1>5
  <2>2. ASSUME NEW j \in 1..MaxRejoins, rejoin'[j].at = "stopping" PROVE rejoin'[j].cur = 0
    <3>1. j # k BY <1>4, <1>6, <2>2
    <3>2. rejoin[j].at = "stopping" /\ rejoin'[j].cur = rejoin[j].cur BY <1>5, <1>6, <2>2, <3>1
    <3> QED BY <3>2 DEF Shapes
  <2> QED BY <1>2, <2>1, <2>2
<1>8. \A i \in Ids : /\ conv'[i] = IF conv[i] # NoConv /\ conv[i].phase = "stopped"
                                   THEN NoConv ELSE conv[i]
  BY <1>1
<1>9. Shapes' BY <1>1, <1>7, <1>8 DEF Shapes
<1>10. \A i \in Ids : /\ BootWaits(i)' <=> BootWaits(i)
                      /\ \A j \in 1..MaxRejoins : RoundWaits(j, i)' <=> RoundWaits(j, i)
                      /\ Awaited(i)' <=> Awaited(i)
  <2>1. ASSUME NEW i \in Ids, NEW j \in 1..MaxRejoins PROVE RoundWaits(j, i)' <=> RoundWaits(j, i)
    <3>1. CASE j = k BY <1>1, <1>4, <1>6, <3>1, IdsAreNat DEF RoundWaits
    <3>2. CASE j # k BY <1>5, <1>6, <3>2 DEF RoundWaits
    <3> QED BY <3>1, <3>2
  <2>2. \A i \in Ids : BootWaits(i)' <=> BootWaits(i) BY <1>1 DEF BootWaits
  <2> QED BY <1>1, <2>1, <2>2 DEF Awaited
<1>11. Waits' BY <1>1, <1>8, <1>10 DEF Waits
<1>12. Stops' BY <1>1 DEF Stops
<1>13. Stores' BY <1>1 DEF Stores, NetsOf
<1>14. ASSUME ~clash' PROVE Whole'
  <2>1. Whole BY <1>1, <1>14
  <2>2. Rejoining # {} /\ opening = {} /\ boot = NoTask /\ k \in Rejoining
        /\ \A j \in Rejoining : j = k
    BY <1>1, <2>1, Tasks DEF Whole
  <2>3. \A j \in 1..MaxRejoins : j # k => rejoin'[j].at = "none"
    BY <1>5, <1>6, <2>2, Tasks
  <2>4. \A i \in Ids : conv'[i] = NoConv
    <3>1. ASSUME NEW i \in Ids, conv[i] # NoConv PROVE conv[i].phase = "stopped"
      BY <1>1, <2>1, <3>1 DEF Whole, RoundWhole
    <3> QED BY <1>8, <3>1
  <2>5. Agree' BY <2>4 DEF Agree
  <2>6. Rejoining' = {k}
    <3>1. DOMAIN rejoin' = 1..MaxRejoins BY <1>2
    <3>2. rejoin'[k] # NoTask BY <1>4, <1>6 DEF NoTask
    <3>3. \A j \in 1..MaxRejoins : j # k => rejoin'[j] = NoTask
      BY <2>3, <1>5, <1>6, Tasks
    <3> QED BY <3>1, <3>2, <3>3 DEF Rejoining
  <2>7. opened \subseteq rejoin[k].specs /\ rejoin[k].urls = relays BY <1>1, <2>1 DEF Whole, RoundWhole
  <2>8. ASSUME NEW j \in 1..MaxRejoins
        PROVE  RoundWhole(j)'
    <3>1. CASE j = k BY <1>1, <1>4, <1>6, <2>5, <2>7, <3>1 DEF RoundWhole
    <3>2. CASE j # k BY <2>3, <3>2 DEF RoundWhole
    <3> QED BY <3>1, <3>2
  <2> QED BY <1>1, <2>2, <2>4, <2>6, <2>8 DEF Whole
<1> QED BY <1>9, <1>11, <1>12, <1>13, <1>14

LEMMA AddNextKeeps ==
  ASSUME SessionOK, NEW k \in 1..MaxRejoins, AddNext(k)
  PROVE  SessionOK'
<1> USE DEF SessionOK
<1>1. /\ rejoin[k].at = "adding" /\ rejoin[k].cur = 0 /\ rejoin[k] \in Round
      /\ k \in Rejoining
      /\ UNCHANGED <<relays, opening, boot, saved, opened, clash, ops>>
  BY Tasks DEF AddNext
<1>2. \A i \in Ids : ~RoundWaits(k, i) /\ i # 0 BY <1>1, IdsAreNat DEF RoundWaits
<1>3. \A i \in Ids : BootWaits(i)' <=> BootWaits(i) BY <1>1 DEF BootWaits
<1>4. ASSUME ~clash'
      PROVE  /\ Whole /\ opening = {} /\ boot = NoTask /\ \A j \in Rejoining : j = k
             /\ Agree /\ opened \subseteq NetsOf(listed) \cup rejoin[k].specs
             /\ rejoin[k].urls = relays
             /\ \A j \in 1..MaxRejoins : j # k => rejoin[j].at = "none"
  <2>1. Whole BY <1>1, <1>4
  <2>2. \A j \in Rejoining : j = k BY <1>1, <2>1 DEF Whole
  <2>3. \A j \in 1..MaxRejoins : j # k => rejoin[j].at = "none" BY <2>2, Tasks
  <2> QED BY <1>1, <2>1, <2>2, <2>3 DEF Whole, RoundWhole
(* What the list has again already.                                           *)
<1>5. ASSUME UNCHANGED <<conv, listed>>, NEW net \in NetsOf(listed),
             rejoin' = [rejoin EXCEPT ![k].specs = @ \ {net}]
      PROVE SessionOK'
  <2> DEFINE t == [rejoin[k] EXCEPT !.specs = @ \ {net}]
  <2>1. rejoin' = [rejoin EXCEPT ![k] = t] BY <1>5
  <2>2. /\ t \in Round \cup {NoTask, [at |-> "saving"]} /\ t.at = "adding" /\ t.cur = 0
        /\ t.specs = rejoin[k].specs \ {net} /\ t.urls = rejoin[k].urls /\ t # NoTask
    BY <1>1 DEF Round, NoTask
  <2> HIDE DEF t
  <2>3. /\ rejoin' \in [1..MaxRejoins -> Round \cup {NoTask, [at |-> "saving"]}]
        /\ rejoin'[k] = t
        /\ \A j \in (1..MaxRejoins) \ {k} : rejoin'[j] = rejoin[j]
        /\ \A j \in 1..MaxRejoins : rejoin'[j].at = "stopping" => rejoin'[j].cur = 0
        /\ \A j \in (1..MaxRejoins) \ {k} : j \in Rejoining' <=> j \in Rejoining
        /\ k \in Rejoining' <=> t # NoTask
        /\ Rejoining' \subseteq 1..MaxRejoins
    BY <2>1, <2>2, TaskSet
  <2>4. \A i \in Ids : /\ \A j \in 1..MaxRejoins : RoundWaits(j, i)' <=> RoundWaits(j, i)
                       /\ Awaited(i)' <=> Awaited(i)
    BY <1>1, <1>2, <1>3, <2>2, <2>3, IdsAreNat DEF RoundWaits, Awaited
  <2>5. Shapes' BY <1>1, <1>5, <2>3 DEF Shapes
  <2>6. Waits' BY <1>1, <1>3, <1>5, <2>4 DEF Waits
  <2>7. Stops' BY <1>1, <1>5, <2>2, <2>3 DEF Stops
  <2>8. Stores' BY <1>1, <1>5, <2>4 DEF Stores, NetsOf
  <2>9. ASSUME ~clash' PROVE Whole'
    <3>1. NetsOf(listed)' = NetsOf(listed) /\ (Agree' <=> Agree)
      BY <1>1, <1>5 DEF NetsOf, Agree
    <3>2. opened' \subseteq NetsOf(listed)' \cup rejoin'[k].specs
      BY <1>1, <1>4, <1>5, <2>2, <2>3, <2>9, <3>1
    <3>3. k \in Rejoining' /\ \A j \in Rejoining' : j = k
      BY <1>4, <2>2, <2>3, <2>9
    <3>4. ASSUME NEW j \in 1..MaxRejoins
          PROVE  RoundWhole(j)'
      <4>1. CASE j = k BY <1>1, <1>4, <2>2, <2>3, <2>9, <3>1, <3>2, <4>1 DEF RoundWhole
      <4>2. CASE j # k BY <1>4, <2>3, <2>9, <4>2 DEF RoundWhole
      <4> QED BY <4>1, <4>2
    <3>5. \A i \in Ids : conv'[i] # NoConv => i \in listed' BY <1>4, <1>5, <2>9 DEF Whole
    <3>6. opening' = {} /\ boot' = NoTask BY <1>1, <1>4, <2>9
    <3> QED BY <3>3, <3>4, <3>5, <3>6 DEF Whole
  <2> QED BY <2>5, <2>6, <2>7, <2>8, <2>9
<1>6. ASSUME NEW net \in rejoin[k].specs, NEW n, n = NewId, Add(net, rejoin[k].urls),
             rejoin' = [rejoin EXCEPT ![k].specs = @ \ {net}, ![k].cur = n]
      PROVE SessionOK'
  <2>1. net \in Net /\ rejoin[k].urls \in SUBSET Url BY <1>1 DEF Round
  <2>2. /\ n \in Ids /\ n # 0 /\ n \in 0..MaxConvs
        /\ conv[n] = NoConv /\ ~Awaited(n) /\ n \notin listed
        /\ listed' = listed \cup {n}
        /\ conv' \in [Ids -> Object \cup {NoConv}]
        /\ conv'[n] # NoConv /\ conv'[n].net = net /\ conv'[n].phase = "starting"
        /\ conv'[n].urls = rejoin[k].urls
        /\ \A i \in Ids \ {n} : conv'[i] = conv[i]
        /\ NetsOf(listed)' = NetsOf(listed) \cup {net}
    BY <1>6, <2>1, NewObject
  <2> DEFINE t == [rejoin[k] EXCEPT !.specs = @ \ {net}, !.cur = n]
  <2>3. rejoin' = [rejoin EXCEPT ![k] = t] BY <1>1, <1>6 DEF Shapes
  <2>4. /\ t \in Round \cup {NoTask, [at |-> "saving"]} /\ t.at = "adding" /\ t.cur = n
        /\ t.specs = rejoin[k].specs \ {net} /\ t.urls = rejoin[k].urls /\ t # NoTask
    BY <1>1, <2>2 DEF Round, NoTask
  <2> HIDE DEF t
  <2>5. /\ rejoin' \in [1..MaxRejoins -> Round \cup {NoTask, [at |-> "saving"]}]
        /\ rejoin'[k] = t
        /\ \A j \in (1..MaxRejoins) \ {k} : rejoin'[j] = rejoin[j]
        /\ \A j \in 1..MaxRejoins : rejoin'[j].at = "stopping" => rejoin'[j].cur = 0
        /\ \A j \in (1..MaxRejoins) \ {k} : j \in Rejoining' <=> j \in Rejoining
        /\ k \in Rejoining' <=> t # NoTask
        /\ Rejoining' \subseteq 1..MaxRejoins
    BY <2>3, <2>4, TaskSet
  <2>6. \A i \in Ids : /\ \A j \in (1..MaxRejoins) \ {k} : RoundWaits(j, i)' <=> RoundWaits(j, i)
                       /\ RoundWaits(k, i)' <=> i = n
    BY <2>4, <2>5 DEF RoundWaits
  <2>7. Shapes' BY <1>1, <2>2, <2>5 DEF Shapes
  <2>8. Waits'
    <3> SUFFICES ASSUME NEW i \in Ids
                 PROVE  /\ Awaited(i)' <=> conv'[i] # NoConv /\ conv'[i].phase = "starting"
                        /\ ~(i \in opening' /\ BootWaits(i)')
                        /\ \A m \in 1..MaxRejoins : RoundWaits(m, i)' =>
                             /\ i \notin opening' /\ ~BootWaits(i)'
                             /\ \A j \in 1..MaxRejoins : RoundWaits(j, i)' => j = m
      BY DEF Waits
    <3>1. CASE i = n BY <1>1, <1>3, <2>2, <2>6, <3>1 DEF Awaited
    <3>2. CASE i # n
      <4>1. \A j \in 1..MaxRejoins : RoundWaits(j, i)' <=> RoundWaits(j, i)
        BY <1>2, <2>6, <3>2
      <4> QED BY <1>1, <1>3, <2>2, <3>2, <4>1 DEF Awaited, Waits
    <3> QED BY <3>1, <3>2
  <2>9. Stops'
    <3> SUFFICES ASSUME NEW j \in listed', conv'[j].phase = "stopped"
                 PROVE \E m \in 1..MaxRejoins :
                         rejoin'[m].at = "stopping" /\ j \in rejoin'[m].seen
      BY DEF Stops
    <3>1. j \in listed /\ j \in Ids /\ conv[j].phase = "stopped" BY <2>2 DEF Shapes
    <3>2. PICK m \in 1..MaxRejoins : rejoin[m].at = "stopping" /\ j \in rejoin[m].seen
      BY <3>1 DEF Stops
    <3> QED BY <1>1, <2>5, <3>2
  <2>10. Stores' BY <2>2, <2>6 DEF Stores, Awaited
  <2>11. ASSUME ~clash' PROVE Whole'
    <3>1. Agree' BY <1>1, <1>4, <2>2, <2>11 DEF Agree
    <3>2. opened' \subseteq NetsOf(listed)' \cup rejoin'[k].specs
      BY <1>1, <1>4, <2>2, <2>4, <2>5, <2>11
    <3>3. k \in Rejoining' /\ \A j \in Rejoining' : j = k BY <1>4, <2>4, <2>5, <2>11
    <3>4. ASSUME NEW j \in 1..MaxRejoins
          PROVE  RoundWhole(j)'
      <4>1. CASE j = k BY <1>1, <1>4, <2>4, <2>5, <2>11, <3>1, <3>2, <4>1 DEF RoundWhole
      <4>2. CASE j # k BY <1>4, <2>5, <2>11, <4>2 DEF RoundWhole
      <4> QED BY <4>1, <4>2
    <3>5. \A i \in Ids : conv'[i] # NoConv => i \in listed' BY <1>4, <2>2, <2>11 DEF Whole
    <3>6. opening' = {} /\ boot' = NoTask BY <1>1, <1>4, <2>11
    <3> QED BY <3>3, <3>4, <3>5, <3>6 DEF Whole
  <2> QED BY <2>7, <2>8, <2>9, <2>10, <2>11
(* The restart is over.                                                       *)
<1>7. ASSUME UNCHANGED <<conv, listed>>, rejoin[k].specs = {},
             rejoin' = [rejoin EXCEPT ![k] = NoTask]
      PROVE SessionOK'
  <2>1. NoTask.at = "none" BY DEF NoTask
  <2>2. /\ rejoin' \in [1..MaxRejoins -> Round \cup {NoTask, [at |-> "saving"]}]
        /\ rejoin'[k] = NoTask
        /\ \A j \in (1..MaxRejoins) \ {k} : rejoin'[j] = rejoin[j]
        /\ \A j \in 1..MaxRejoins : rejoin'[j].at = "stopping" => rejoin'[j].cur = 0
        /\ \A j \in (1..MaxRejoins) \ {k} : j \in Rejoining' <=> j \in Rejoining
        /\ k \in Rejoining' <=> NoTask # NoTask
        /\ Rejoining' \subseteq 1..MaxRejoins
    BY <1>7, <2>1, TaskSet
  <2>3. \A i \in Ids : /\ \A j \in 1..MaxRejoins : RoundWaits(j, i)' <=> RoundWaits(j, i)
                       /\ Awaited(i)' <=> Awaited(i)
    BY <1>1, <1>2, <1>3, <2>1, <2>2 DEF RoundWaits, Awaited
  <2>4. Shapes' BY <1>1, <1>7, <2>2 DEF Shapes
  <2>5. Waits' BY <1>1, <1>3, <1>7, <2>3 DEF Waits
  <2>6. Stops' BY <1>1, <1>7, <2>2 DEF Stops
  <2>7. Stores' BY <1>1, <1>7, <2>3 DEF Stores, NetsOf
  <2>8. ASSUME ~clash' PROVE Whole'
    <3>1. NetsOf(listed)' = NetsOf(listed) /\ (Agree' <=> Agree)
      BY <1>1, <1>7 DEF NetsOf, Agree
    <3>2. Rejoining' = {} BY <1>4, <2>2, <2>8
    <3>3. \A j \in 1..MaxRejoins : rejoin'[j].at = "none" BY <1>4, <2>1, <2>2, <2>8
    <3>4. \A i \in Ids : conv'[i] # NoConv => i \in listed' BY <1>4, <1>7, <2>8 DEF Whole
    <3>5. opened' \subseteq NetsOf(listed)' /\ Agree' BY <1>1, <1>4, <1>7, <2>8, <3>1
    <3> QED BY <3>2, <3>3, <3>4, <3>5 DEF Whole, RoundWhole
  <2> QED BY <2>4, <2>5, <2>6, <2>7, <2>8
<1>8. CASE rejoin[k].specs = {} BY <1>7, <1>8 DEF AddNext
<1>9. CASE rejoin[k].specs # {}
  <2>1. PICK net \in rejoin[k].specs :
          IF IsListed(net)
          THEN /\ rejoin' = [rejoin EXCEPT ![k].specs = @ \ {net}]
               /\ UNCHANGED <<conv, listed>>
          ELSE /\ Add(net, rejoin[k].urls)
               /\ rejoin' = [rejoin EXCEPT ![k].specs = @ \ {net}, ![k].cur = NewId]
    BY <1>9 DEF AddNext
  <2>2. CASE IsListed(net) BY <1>5, <2>1, <2>2 DEF IsListed
  <2>3. CASE ~IsListed(net) BY <1>6, <2>1, <2>3
  <2> QED BY <2>2, <2>3
<1> QED BY <1>8, <1>9

LEMMA AddedNextKeeps ==
  ASSUME SessionOK, NEW k \in 1..MaxRejoins, AddedNext(k)
  PROVE  SessionOK'
<1> USE DEF SessionOK
<1> PICK i : i = rejoin[k].cur OBVIOUS
<1>1. /\ rejoin[k].at = "adding" /\ i = rejoin[k].cur /\ i # 0 /\ rejoin[k] \in Round
      /\ k \in Rejoining
      /\ Added(i)
      /\ rejoin' = [rejoin EXCEPT ![k].cur = 0]
      /\ UNCHANGED <<listed, relays, opening, boot, opened, clash, ops>>
  BY Tasks DEF AddedNext
<1>2. i \in Ids /\ RoundWaits(k, i) /\ Awaited(i)
  BY <1>1, SessionAssumption DEF Round, Ids, RoundWaits, Awaited
<1>3. /\ conv[i] # NoConv /\ conv[i].phase = "starting"
      /\ conv' \in [Ids -> Object \cup {NoConv}]
      /\ conv'[i] # NoConv /\ conv'[i].phase = "running"
      /\ \A j \in Ids \ {i} : conv'[j] = conv[j]
      /\ \A j \in Ids : /\ conv'[j] = NoConv <=> conv[j] = NoConv
                        /\ conv[j] # NoConv => /\ conv'[j].net = conv[j].net
                                               /\ conv'[j].urls = conv[j].urls
      /\ NetsOf(listed)' = NetsOf(listed)
      /\ saved' = NetsOf(listed) /\ saved' \subseteq Net
  BY <1>1, <1>2, StartedObject
<1> DEFINE t == [rejoin[k] EXCEPT !.cur = 0]
<1>4. rejoin' = [rejoin EXCEPT ![k] = t] BY <1>1
<1>5. /\ t \in Round \cup {NoTask, [at |-> "saving"]} /\ t.at = "adding" /\ t.cur = 0
      /\ t.specs = rejoin[k].specs /\ t.urls = rejoin[k].urls /\ t # NoTask
  BY <1>1, IdsAreNat DEF Round, NoTask
<1> HIDE DEF t
<1>6. /\ rejoin' \in [1..MaxRejoins -> Round \cup {NoTask, [at |-> "saving"]}]
      /\ rejoin'[k] = t
      /\ \A j \in (1..MaxRejoins) \ {k} : rejoin'[j] = rejoin[j]
      /\ \A j \in 1..MaxRejoins : rejoin'[j].at = "stopping" => rejoin'[j].cur = 0
      /\ \A j \in (1..MaxRejoins) \ {k} : j \in Rejoining' <=> j \in Rejoining
      /\ k \in Rejoining' <=> t # NoTask
      /\ Rejoining' \subseteq 1..MaxRejoins
  BY <1>4, <1>5, TaskSet
<1>7. Shapes' BY <1>1, <1>3, <1>6 DEF Shapes
<1>8. \A j \in Ids : /\ BootWaits(j)' <=> BootWaits(j)
                     /\ \A m \in (1..MaxRejoins) \ {k} : RoundWaits(m, j)' <=> RoundWaits(m, j)
                     /\ ~RoundWaits(k, j)'
                     /\ j # i => ~RoundWaits(k, j)
  BY <1>1, <1>5, <1>6, IdsAreNat DEF BootWaits, RoundWaits
<1>9. Waits' BY <1>1, <1>2, <1>3, <1>8 DEF Waits, Awaited
<1>10. Stops'
  <2> SUFFICES ASSUME NEW j \in listed, conv'[j].phase = "stopped"
               PROVE \E m \in 1..MaxRejoins :
                       rejoin'[m].at = "stopping" /\ j \in rejoin'[m].seen
    BY <1>1 DEF Stops
  <2>1. j \in Ids /\ conv[j].phase = "stopped" BY <1>3 DEF Shapes
  <2>2. PICK m \in 1..MaxRejoins : rejoin[m].at = "stopping" /\ j \in rejoin[m].seen
    BY <2>1 DEF Stops
  <2> QED BY <1>1, <1>6, <2>2
<1>11. Stores' BY <1>3 DEF Stores
<1>12. ASSUME ~clash' PROVE Whole'
  <2>1. Whole BY <1>1, <1>12
  <2>2. opening = {} /\ boot = NoTask /\ \A j \in Rejoining : j = k BY <1>1, <2>1 DEF Whole
  <2>3. /\ Agree /\ opened \subseteq NetsOf(listed) \cup rejoin[k].specs
        /\ rejoin[k].urls = relays
    BY <1>1, <2>1 DEF Whole, RoundWhole
  <2>4. Agree' BY <1>1, <1>3, <2>3 DEF Agree
  <2>5. k \in Rejoining' /\ \A j \in Rejoining' : j = k BY <1>5, <1>6, <2>2
  <2>6. \A j \in 1..MaxRejoins : j # k => rejoin'[j].at = "none" BY <1>6, <2>2, Tasks
  <2>7. ASSUME NEW j \in 1..MaxRejoins PROVE RoundWhole(j)'
    <3>1. CASE j = k BY <1>1, <1>3, <1>5, <1>6, <2>3, <2>4, <3>1 DEF RoundWhole
    <3>2. CASE j # k BY <2>6, <3>2 DEF RoundWhole
    <3> QED BY <3>1, <3>2
  <2>8. \A j \in Ids : conv'[j] # NoConv => j \in listed' BY <1>1, <1>3, <2>1 DEF Whole
  <2> QED BY <1>1, <2>2, <2>5, <2>7, <2>8 DEF Whole
<1> QED BY <1>7, <1>9, <1>10, <1>11, <1>12

LEMMA AdoptKeeps ==
  ASSUME SessionOK, NEW u \in Url, Adopt(u)
  PROVE  SessionOK'
<1> USE DEF SessionOK
<1>1. /\ relays' = relays \cup {u}
      /\ conv' = [i \in Ids |-> IF i \in listed THEN [conv[i] EXCEPT !.urls = @ \cup {u}]
                                ELSE conv[i]]
      /\ clash' = (clash \/ Rejoining # {})
      /\ UNCHANGED <<listed, opening, boot, rejoin, saved, opened>>
  BY DEF Adopt
<1>2. ASSUME NEW i \in listed
      PROVE  /\ i \in Ids /\ conv'[i] # NoConv /\ conv'[i] \in Object
             /\ conv[i] # NoConv
             /\ conv'[i].net = conv[i].net /\ conv'[i].phase = conv[i].phase
             /\ conv'[i].urls = conv[i].urls \cup {u}
  <2> DEFINE obj == [conv[i] EXCEPT !.urls = @ \cup {u}]
  <2>1. i \in Ids /\ conv[i] \in Object /\ conv[i] # NoConv BY DEF Shapes
  <2>2. conv'[i] = obj BY <1>1, <2>1
  <2>3. /\ obj \in Object /\ obj.net = conv[i].net /\ obj.phase = conv[i].phase
        /\ obj.urls = conv[i].urls \cup {u}
    BY <2>1 DEF Object
  <2>4. obj # NoConv BY <2>3, SessionAssumption DEF Object
  <2> HIDE DEF obj
  <2> QED BY <2>1, <2>2, <2>3, <2>4
<1>3. \A i \in Ids \ listed : conv'[i] = conv[i] BY <1>1
<1>4. conv' \in [Ids -> Object \cup {NoConv}]
  <2>1. \A i \in Ids : conv'[i] \in Object \cup {NoConv} BY <1>2, <1>3 DEF Shapes
  <2>2. conv' = [i \in Ids |-> conv'[i]] BY <1>1
  <2> QED BY <2>1, <2>2
<1>5. Shapes' BY <1>1, <1>2, <1>4 DEF Shapes
<1>6. \A i \in Ids : /\ BootWaits(i)' <=> BootWaits(i)
                     /\ \A j \in 1..MaxRejoins : RoundWaits(j, i)' <=> RoundWaits(j, i)
                     /\ Awaited(i)' <=> Awaited(i)
  BY <1>1 DEF BootWaits, RoundWaits, Awaited
<1>7. \A i \in Ids : /\ conv'[i] = NoConv <=> conv[i] = NoConv
                     /\ conv[i] # NoConv => conv'[i].phase = conv[i].phase
  BY <1>2, <1>3
<1>8. Waits' BY <1>1, <1>6, <1>7 DEF Waits
<1>9. Stops' BY <1>1, <1>2 DEF Stops
<1>10. NetsOf(listed)' = NetsOf(listed) BY <1>1, <1>2 DEF NetsOf
<1>11. Stores' BY <1>1, <1>6, <1>10 DEF Stores
<1>12. ASSUME ~clash' PROVE Whole'
  <2>1. Whole /\ Rejoining = {} BY <1>1, <1>12
  <2>2. Rejoining' = {} BY <1>1, <2>1 DEF Rejoining
  <2>3. \A i \in Ids : conv'[i] # NoConv => i \in listed' BY <1>1, <1>7, <2>1 DEF Whole
  <2>4. Agree'
    <3> SUFFICES ASSUME NEW i \in Ids, conv'[i] # NoConv PROVE conv'[i].urls = relays'
      BY DEF Agree
    <3>1. i \in listed /\ conv[i] # NoConv BY <1>1, <1>7, <2>3
    <3>2. conv[i].urls = relays BY <2>1, <3>1 DEF Whole, Agree
    <3> QED BY <1>1, <1>2, <3>1, <3>2
  <2>5. \A k \in 1..MaxRejoins : rejoin'[k].at = "none" BY <1>1, <2>1, Tasks
  <2>6. \A k \in 1..MaxRejoins : RoundWhole(k)' BY <2>5 DEF RoundWhole
  <2>7. opened' \subseteq NetsOf(listed)' \cup (IF boot' = NoTask THEN {} ELSE boot'.left)
    BY <1>1, <1>10, <2>1 DEF Whole
  <2> QED BY <2>2, <2>3, <2>4, <2>6, <2>7 DEF Whole
<1> QED BY <1>5, <1>8, <1>9, <1>11, <1>12

(* A page that has just been loaded: nothing is there but what boot() will restore. *)
LEMMA LoadKeeps ==
  ASSUME Shapes, NEW nets \in SUBSET Net, NEW urls \in SUBSET Url, Load(nets, urls),
         opened' \subseteq Net
  PROVE  /\ Shapes' /\ Waits' /\ Stops' /\ Stores'
         /\ opened' \subseteq nets => Whole'
<1>1. /\ conv' = [i \in Ids |-> NoConv] /\ listed' = {} /\ relays' = urls
      /\ opening' = {} /\ boot' = Restoring(nets) /\ saved' = nets
      /\ rejoin' = [k \in 1..MaxRejoins |-> NoTask]
  <2>1. DOMAIN rejoin = 1..MaxRejoins BY Tasks
  <2> QED BY <2>1 DEF Load
<1>2. boot' \in Boot /\ boot'.left = nets /\ boot'.cur = 0 /\ boot' # NoTask
  BY <1>1, IdsAreNat DEF Restoring, Boot, NoTask
<1>3. NoTask.at = "none" BY DEF NoTask
<1>4. Shapes' BY <1>1, <1>2, <1>3 DEF Shapes
<1>5. \A i \in Ids : /\ ~BootWaits(i)' /\ ~Awaited(i)'
                     /\ \A j \in 1..MaxRejoins : ~RoundWaits(j, i)'
  BY <1>1, <1>2, <1>3, IdsAreNat DEF BootWaits, RoundWaits, Awaited
<1>6. Waits' BY <1>1, <1>5 DEF Waits
<1>7. Stops' BY <1>1 DEF Stops
<1>8. Stores' BY <1>1 DEF Stores, NetsOf
<1>9. ASSUME opened' \subseteq nets PROVE Whole'
  <2>1. Rejoining' = {} BY <1>1 DEF Rejoining
  <2>2. Agree' BY <1>1 DEF Agree
  <2>3. \A k \in 1..MaxRejoins : RoundWhole(k)' BY <1>1, <1>3 DEF RoundWhole
  <2> QED BY <1>1, <1>2, <1>9, <2>1, <2>2, <2>3 DEF Whole
<1> QED BY <1>4, <1>6, <1>7, <1>8, <1>9

LEMMA ReloadKeeps ==
  ASSUME SessionOK, Reload
  PROVE  SessionOK'
<1>1. PICK nets \in SUBSET Net :
        Load(nets, relays) /\ clash' = (clash \/ ~Quiet \/ nets # saved)
  BY DEF Reload
<1>2. opened' = opened BY DEF Reload
<1>3. Shapes /\ saved \subseteq Net /\ opened \subseteq Net /\ relays \subseteq Url
  BY DEF SessionOK, Shapes
<1>4. ASSUME ~clash' PROVE opened' \subseteq nets
  <2>1. ~clash /\ opening = {} /\ boot = NoTask /\ Rejoining = {} /\ nets = saved
    BY <1>1, <1>4 DEF Quiet
  <2>2. opened \subseteq NetsOf(listed) BY <2>1 DEF SessionOK, Whole
  <2>3. \A i \in Ids : ~Awaited(i)
    <3>1. \A k \in 1..MaxRejoins : rejoin[k].at = "none" BY <1>3, <2>1, Tasks
    <3> QED BY <2>1, <3>1 DEF Awaited, BootWaits, RoundWaits
  <2>4. NetsOf(listed) \subseteq saved BY <2>3 DEF SessionOK, Stores
  <2> QED BY <1>2, <2>1, <2>2, <2>4
<1> QED BY <1>1, <1>2, <1>3, <1>4, LoadKeeps DEF SessionOK

LEMMA ResetAllKeeps ==
  ASSUME SessionOK, ResetAll
  PROVE  SessionOK'
<1>1. Load({}, {}) /\ opened' = {} BY DEF ResetAll
<1>2. Shapes BY DEF SessionOK
<1> QED BY <1>1, <1>2, LoadKeeps DEF SessionOK

-----------------------------------------------------------------------------
LEMMA InitOK ==
  ASSUME Init PROVE SessionOK
<1> USE DEF Init
<1>1. boot \in Boot /\ boot.left = {} /\ boot.cur = 0 /\ boot # NoTask
  BY IdsAreNat DEF Restoring, Boot, NoTask
<1>2. NoTask.at = "none" BY DEF NoTask
<1>3. Shapes BY <1>1, <1>2 DEF Shapes
<1>4. \A i \in Ids : ~BootWaits(i) /\ \A j \in 1..MaxRejoins : ~RoundWaits(j, i)
  BY <1>1, <1>2, IdsAreNat DEF BootWaits, RoundWaits
<1>5. Waits BY <1>4 DEF Waits, Awaited
<1>6. Stops /\ Stores BY DEF Stops, Stores, NetsOf
<1>7. Whole
  <2>1. Rejoining = {} BY DEF Rejoining
  <2>2. Agree BY DEF Agree
  <2>3. \A k \in 1..MaxRejoins : RoundWhole(k) BY <1>2 DEF RoundWhole
  <2> QED BY <1>1, <2>1, <2>2, <2>3 DEF Whole
<1> QED BY <1>3, <1>5, <1>6, <1>7 DEF SessionOK

LEMMA StepKeeps ==
  ASSUME SessionOK, [Next]_vars PROVE SessionOK'
<1>1. DOMAIN rejoin = 1..MaxRejoins BY Tasks DEF SessionOK
<1>2. CASE \E net \in Net : Open(net) BY <1>2, OpenKeeps
<1>3. CASE \E i \in Ids : Opened(i) BY <1>3, OpenedKeeps
<1>4. CASE BootAdds BY <1>4, BootAddsKeeps
<1>5. CASE BootAdded BY <1>5, BootAddedKeeps
<1>6. CASE \E k \in DOMAIN rejoin : ChangeRelays(k) \/ RejoinStep(k)
  <2>1. PICK k \in 1..MaxRejoins : ChangeRelays(k) \/ RejoinStep(k) BY <1>1, <1>6
  <2> QED BY <2>1, ChangeRelaysKeeps, CaptureKeeps, StopNextKeeps, ClearKeeps, AddNextKeeps,
             AddedNextKeeps DEF RejoinStep
<1>7. CASE \E u \in Url : Adopt(u) BY <1>7, AdoptKeeps
<1>8. CASE Reload BY <1>8, ReloadKeeps
<1>9. CASE ResetAll BY <1>9, ResetAllKeeps
<1>10. CASE UNCHANGED vars
  <2>1. UNCHANGED <<conv, listed, relays, opening, boot, rejoin, saved, opened, clash>>
    BY <1>10 DEF vars
  <2>2. Rejoining' = Rejoining /\ NetsOf(listed)' = NetsOf(listed) /\ (Agree' <=> Agree)
    BY <2>1 DEF Rejoining, NetsOf, Agree
  <2>3. Shapes' BY <2>1 DEF SessionOK, Shapes
  <2>4. \A i \in Ids : /\ BootWaits(i)' <=> BootWaits(i)
                       /\ \A j \in 1..MaxRejoins : RoundWaits(j, i)' <=> RoundWaits(j, i)
                       /\ Awaited(i)' <=> Awaited(i)
    BY <2>1 DEF BootWaits, RoundWaits, Awaited
  <2>5. Waits' BY <2>1, <2>4 DEF SessionOK, Waits
  <2>6. Stops' BY <2>1 DEF SessionOK, Stops
  <2>7. Stores' BY <2>1, <2>2, <2>4 DEF SessionOK, Stores
  <2>8. ASSUME ~clash PROVE Whole'
    <3>1. \A k \in 1..MaxRejoins : RoundWhole(k)' <=> RoundWhole(k)
      BY <2>1, <2>2 DEF RoundWhole
    <3> QED BY <2>1, <2>2, <2>8, <3>1 DEF SessionOK, Whole
  <2> QED BY <2>1, <2>3, <2>5, <2>6, <2>7, <2>8 DEF SessionOK
<1> QED BY <1>2, <1>3, <1>4, <1>5, <1>6, <1>7, <1>8, <1>9, <1>10 DEF Next

(* What stop() has closed stays until that restart clears the list, or until all is    *)
(* gone.                                                                      *)
LEMMA ClosesStays ==
  ASSUME Shapes, Closes, [Next]_vars PROVE Closes'
<1>1. DOMAIN rejoin = 1..MaxRejoins BY Tasks
(* It holds whenever nothing leaves the list or is closed, and no restart leaves the *)
(* phase.                                                                     *)
<1>2. ASSUME closed' = closed, listed \subseteq listed',
             \A k \in 1..MaxRejoins : rejoin[k].at = "stopping" => rejoin'[k] = rejoin[k]
      PROVE  Closes'
  BY <1>2 DEF Closes
<1>3. ASSUME closed' = {} PROVE Closes' BY <1>3 DEF Closes
<1>4. CASE \E net \in Net : Open(net) BY <1>2, <1>4 DEF Open, Add
<1>5. CASE \E i \in Ids : Opened(i) BY <1>2, <1>5 DEF Opened
<1>6. CASE BootAdds BY <1>2, <1>6 DEF BootAdds, Add
<1>7. CASE BootAdded BY <1>2, <1>7 DEF BootAdded
<1>8. ASSUME NEW k \in 1..MaxRejoins, ChangeRelays(k) PROVE Closes'
  <2>1. rejoin[k].at # "stopping" BY <1>8 DEF ChangeRelays, NoTask
  <2>2. /\ closed' = closed /\ listed' = listed
        /\ \A j \in (1..MaxRejoins) \ {k} : rejoin'[j] = rejoin[j]
    BY <1>1, <1>8 DEF ChangeRelays, Shapes
  <2> QED BY <1>2, <2>1, <2>2
<1>9. ASSUME NEW k \in 1..MaxRejoins, RejoinStep(k) PROVE Closes'
  <2>1. ASSUME closed' = closed, listed \subseteq listed', rejoin[k].at # "stopping",
               NEW t, rejoin' = [rejoin EXCEPT ![k] = t]
        PROVE  Closes'
    <3>1. \A j \in (1..MaxRejoins) \ {k} : rejoin'[j] = rejoin[j] BY <1>1, <2>1
    <3> QED BY <1>2, <2>1, <3>1
  <2>2. CASE Capture(k) BY <2>1, <2>2 DEF Capture
  <2>3. CASE StopNext(k)
    <3>1. PICK i \in listed \ rejoin[k].seen :
            /\ closed' \in {closed, closed \cup {i}}
            /\ rejoin' = [rejoin EXCEPT ![k].seen = @ \cup {i}]
      BY <2>3 DEF StopNext
    <3>2. listed' = listed /\ rejoin[k].at = "stopping" BY <2>3 DEF StopNext
    <3>3. rejoin[k] \in Round BY <3>2, Tasks
    <3> DEFINE t == [rejoin[k] EXCEPT !.seen = @ \cup {i}]
    <3>4. rejoin' = [rejoin EXCEPT ![k] = t] BY <3>1
    <3>5. t.at = "stopping" /\ t.seen = rejoin[k].seen \cup {i} BY <3>2, <3>3 DEF Round
    <3> HIDE DEF t
    <3>6. rejoin'[k] = t /\ \A j \in (1..MaxRejoins) \ {k} : rejoin'[j] = rejoin[j]
      BY <1>1, <3>4 DEF Shapes
    <3> SUFFICES ASSUME NEW j \in closed'
                 PROVE  /\ j \in listed'
                        /\ \E m \in 1..MaxRejoins :
                             rejoin'[m].at = "stopping" /\ j \in rejoin'[m].seen
      BY DEF Closes
    <3>7. CASE j = i BY <3>1, <3>2, <3>5, <3>6, <3>7
    <3>8. CASE j # i
      <4>1. j \in closed BY <3>1, <3>8
      <4>2. j \in listed BY <4>1 DEF Closes
      <4>3. PICK m \in 1..MaxRejoins : rejoin[m].at = "stopping" /\ j \in rejoin[m].seen
        BY <4>1 DEF Closes
      <4> QED BY <3>2, <3>5, <3>6, <4>2, <4>3
    <3> QED BY <3>7, <3>8
  <2>4. CASE Clear(k) BY <1>3, <2>4 DEF Clear
  <2>5. CASE AddNext(k)
    <3>1. rejoin[k].at # "stopping" /\ closed' = closed BY <2>5 DEF AddNext
    <3>2. listed \subseteq listed' BY <2>5 DEF AddNext, Add
    <3>3. \A j \in (1..MaxRejoins) \ {k} : rejoin'[j] = rejoin[j]
      BY <1>1, <2>5 DEF AddNext, Shapes
    <3> QED BY <1>2, <3>1, <3>2, <3>3
  <2>6. CASE AddedNext(k)
    <3>1. /\ rejoin[k].at # "stopping" /\ closed' = closed /\ listed' = listed
          /\ \A j \in (1..MaxRejoins) \ {k} : rejoin'[j] = rejoin[j]
      BY <1>1, <2>6 DEF AddedNext, Shapes
    <3> QED BY <1>2, <3>1
  <2> QED BY <1>9, <2>2, <2>3, <2>4, <2>5, <2>6 DEF RejoinStep
<1>10. CASE \E u \in Url : Adopt(u) BY <1>2, <1>10 DEF Adopt
<1>11. CASE Reload BY <1>3, <1>11 DEF Reload, Load
<1>12. CASE ResetAll BY <1>3, <1>12 DEF ResetAll, Load
<1>13. CASE UNCHANGED vars BY <1>2, <1>13 DEF vars
<1>14. CASE \E k \in DOMAIN rejoin : ChangeRelays(k) \/ RejoinStep(k)
  BY <1>1, <1>8, <1>9, <1>14
<1> QED BY <1>4, <1>5, <1>6, <1>7, <1>10, <1>11, <1>12, <1>13, <1>14 DEF Next

(* All that is reachable satisfies the inductive invariant.                    *)
LEMMA AlwaysOK == Spec => [](SessionOK /\ Closes)
<1>1. Init => SessionOK /\ Closes BY InitOK DEF Init, Closes
<1>2. SessionOK /\ Closes /\ [Next]_vars => SessionOK' /\ Closes'
  BY StepKeeps, ClosesStays DEF SessionOK
<1> QED BY <1>1, <1>2, PTL DEF Spec

(* When every operation is over, nobody waits and nothing is being restarted.     *)
LEMMA NobodyWaits ==
  ASSUME SessionOK, Quiet
  PROVE  /\ \A i \in Ids : ~Awaited(i)
         /\ \A k \in 1..MaxRejoins : rejoin[k].at = "none"
         /\ Rejoining = {} /\ boot = NoTask
<1>1. opening = {} /\ boot = NoTask /\ Rejoining = {} BY DEF Quiet
<1>2. \A k \in 1..MaxRejoins : rejoin[k].at = "none" BY <1>1, Tasks DEF SessionOK
<1> QED BY <1>1, <1>2 DEF Awaited, BootWaits, RoundWaits

(* Once every operation is over each conversation in the list runs, however they    *)
(* overlapped (main.ts:416-422): what was starting somebody waited for, and what   *)
(* a restart had stopped or closed went when it cleared the list.              *)
THEOREM ListedAreRunning == Spec => []ListedRuns
<1>1. ASSUME SessionOK, Closes PROVE ListedRuns
  <2> SUFFICES ASSUME Quiet, NEW i \in listed
               PROVE  conv[i].phase = "running" /\ i \notin closed
    BY DEF ListedRuns
  <2>1. i \in Ids /\ conv[i] # NoConv /\ conv[i] \in Object BY <1>1 DEF SessionOK, Shapes
  <2>2. conv[i].phase # "starting" BY <1>1, <2>1, NobodyWaits DEF SessionOK, Waits
  <2>3. conv[i].phase # "stopped" BY <1>1, NobodyWaits DEF SessionOK, Stops
  <2>4. i \notin closed BY <1>1, NobodyWaits DEF Closes
  <2> QED BY <2>1, <2>2, <2>3, <2>4 DEF Object
<1> QED BY <1>1, AlwaysOK, PTL

(* ... and is stored, for a reload after the commit (main.ts:149-158): the last      *)
(* start to return stores all that is listed by then.                           *)
THEOREM ListedAreSaved == Spec => []ListSaved
<1>1. ASSUME SessionOK PROVE ListSaved
  BY <1>1, NobodyWaits DEF ListSaved, SessionOK, Stores
<1> QED BY <1>1, AlwaysOK, PTL

(* As long as nothing overlaps a restart and no reload cuts off an operation or comes  *)
(* before its commit, what the user has opened is listed, nothing else runs, and all have every relay      *)
(* (main.ts:395-399).                                                        *)
THEOREM NothingIsLost == Spec => []NothingLost
<1>1. ASSUME SessionOK PROVE NothingLost
  <2> SUFFICES ASSUME Quiet, ~clash
               PROVE  /\ opened \subseteq NetsOf(listed)
                      /\ \A i \in Ids : conv[i] # NoConv => i \in listed /\ conv[i].urls = relays
    BY DEF NothingLost
  <2> QED BY <1>1, NobodyWaits DEF SessionOK, Whole, Agree
<1> QED BY <1>1, AlwaysOK, PTL
=============================================================================
