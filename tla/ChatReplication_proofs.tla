------------------------ MODULE ChatReplication_proofs ------------------------
(***************************************************************************)
(* Proofs about ChatReplication, for any set of browsers, any topology and   *)
(* any bounds.                                                               *)
(*                                                                          *)
(* Sound strengthens TypeOK: every copy of an entry, in a log, on a disk, in  *)
(* a delta, in a job or in a put, is one that was posted. It needs to know    *)
(* that finitely many entries were posted, with numbers under some bound, so  *)
(* that the maxima of merge() and the counts of penalties are numbers.        *)
(* Unique, on top of it, says why ids are not reused: what was posted under   *)
(* the replica id a node uses now is at most at the mark of its own log; and  *)
(* Ascending, why clocks rise with the numbers. Both hold as long as a tab    *)
(* that reopens finds all it posted under the id it keeps (ReopensWhole).     *)
(*                                                                          *)
(* Saved says that the disk, the puts that have not ended and the log, in this *)
(* order, lose neither entries nor signatures; it needs no premise. What       *)
(* sendChat returned for is then saved, the disk only grows, and the steps of  *)
(* ChatPromise follow from it and from Clocked, that no entry of a log is      *)
(* ahead of its clock.                                                         *)
(***************************************************************************)
EXTENDS ChatReplication, GSetLog_proofs, SequenceTheorems

(* The copies of what was posted.                                            *)
Known == {e \in Entry : Content(e) \in posted}

KnownFrame == [t : {"SYNC_REQ"}, chat_vv : [Origin -> Nat]]
                \cup [t : {"CHAT_DELTA"}, entries : SUBSET Known]

KnownWrite == [snapshot : SUBSET Known, out : SUBSET Known, except : Node, resolved : BOOLEAN]

KnownJob == [from : Node, batch : SUBSET Known]

KnownLog == [entries : SUBSET Known, vv : [Origin -> Nat], lamport : Nat]

Bounded == \E b \in Nat : \A c \in posted : c.seq <= b /\ c.lamport <= b

Sound ==
  /\ log \in [Node -> KnownLog]
  /\ epoch \in [Node -> 0..MaxWipes]
  /\ disk \in [Node -> SUBSET Known]
  /\ signing \in [Node -> SUBSET Known]
  /\ verifying \in [Node -> SUBSET KnownJob]
  /\ writes \in [Node -> Seq(KnownWrite)]
  /\ links \subseteq Topology
  /\ chan \in [Node -> [Node -> Seq(KnownFrame)]]
  /\ score \in [Node -> [Node -> ScoreMin..ScoreMax]]
  /\ posts \in [Node -> Nat]
  /\ acked \in [Node -> SUBSET ContentType]
  /\ posted \subseteq ContentType
  /\ faults \in [drops : Nat, reloads : Nat, aborts : Nat]
  /\ IsFiniteSet(posted)
  /\ Bounded

-----------------------------------------------------------------------------
(* Entries and sequences                                                     *)

LEMMA EntryIsEntryType == Entry = EntryType(Origin)
BY DEF Entry, EntryType

LEMMA ContentTyped == \A e \in Entry : Content(e) \in ContentType
BY DEF Entry, Content, ContentType

LEMMA SeqMonotone ==
  ASSUME NEW S, NEW T, S \subseteq T
  PROVE  Seq(S) \subseteq Seq(T)
OBVIOUS

(* A set of copies of what was posted is finite, since posted is.             *)
LEMMA KnownFinite ==
  ASSUME IsFiniteSet(posted), NEW S \in SUBSET Known
  PROVE  IsFiniteSet(S)
<1> DEFINE f == [e \in Known |-> <<Content(e), e.signed>>]
<1>1. IsFiniteSet(BOOLEAN)
  <2>1. BOOLEAN = {TRUE} \cup {FALSE}
    OBVIOUS
  <2>2. IsFiniteSet({TRUE})
    BY FS_Singleton
  <2>3. IsFiniteSet({TRUE} \cup {FALSE})
    BY <2>2, FS_AddElement
  <2> QED
    BY <2>1, <2>3
<1>2. IsFiniteSet(posted \X BOOLEAN)
  BY <1>1, FS_Product
<1>3. f \in Injection(Known, posted \X BOOLEAN)
  <2>1. f \in [Known -> posted \X BOOLEAN]
    BY DEF Known, Entry
  <2>2. ASSUME NEW e \in Known, NEW g \in Known, f[e] = f[g] PROVE e = g
    <3>1. Content(e) = Content(g) /\ e.signed = g.signed
      BY <2>2
    <3> QED
      BY <3>1 DEF Known, Entry, Content
  <2> QED
    BY <2>1, <2>2 DEF Injection, IsInjective
<1>4. IsFiniteSet(Known)
  BY <1>2, <1>3, FS_Injection
<1> QED
  BY <1>4, FS_Subset

LEMMA ClampTyped ==
  ASSUME NEW s \in Int
  PROVE  Clamp(s) \in ScoreMin..ScoreMax
BY DEF Clamp, ScoreMin, ScoreMax

LEMMA ScoreTyped ==
  ASSUME NEW s \in ScoreMin..ScoreMax, NEW k \in Nat,
         NEW ev \in {"connect", "forged_entry", "keepalive_timeout", "pc_failed"}
  PROVE  RecordTimes(s, ev, k) \in ScoreMin..ScoreMax
<1>1. EventDeltas[ev] \in {20, -50, -20, -10}
  BY DEF EventDeltas
<1>2. k * EventDeltas[ev] \in Int
  BY <1>1
<1>3. s + k * EventDeltas[ev] \in Int
  BY <1>2 DEF ScoreMin, ScoreMax
<1> QED
  BY <1>3, ClampTyped DEF RecordTimes

LEMMA RecordTyped ==
  ASSUME NEW s \in ScoreMin..ScoreMax,
         NEW ev \in {"connect", "keepalive_timeout", "pc_failed"}
  PROVE  Record(s, ev) \in ScoreMin..ScoreMax
BY ScoreTyped DEF Record

LEMMA ReloadedTyped ==
  ASSUME NEW s \in ScoreMin..ScoreMax
  PROVE  Reloaded(s) \in ScoreMin..ScoreMax
BY DEF Reloaded, Decayed, ScoreMin, ScoreMax

(* Marking an entry of a log as signed keeps the content of the log.          *)
LEMMA SignedKnown ==
  ASSUME NEW e \in Known
  PROVE  [e EXCEPT !.signed = TRUE] \in Known
BY DEF Known, Entry, Content

-----------------------------------------------------------------------------
(* Sound is inductive                                                        *)

(* Updating one cell of a table, and two.                                     *)
LEMMA CellTyped ==
  ASSUME NEW T, NEW f \in [Node -> [Node -> T]], NEW n \in Node, NEW m \in Node, NEW x \in T
  PROVE  [f EXCEPT ![n][m] = x] \in [Node -> [Node -> T]]
OBVIOUS

LEMMA CellsTyped ==
  ASSUME NEW T, NEW f \in [Node -> [Node -> T]], NEW n \in Node, NEW m \in Node,
         NEW x \in T, NEW y \in T
  PROVE  [f EXCEPT ![n][m] = x, ![m][n] = y] \in [Node -> [Node -> T]]
<1>1. [f EXCEPT ![n][m] = x] \in [Node -> [Node -> T]]
  BY CellTyped
<1> QED
  BY <1>1

(* Cutting channels leaves them as they were, or empty.                        *)
LEMMA CutTyped ==
  ASSUME NEW F, NEW c \in [Node -> [Node -> Seq(F)]], NEW pairs
  PROVE  Cut(c, pairs) \in [Node -> [Node -> Seq(F)]]
BY DEF Cut

LEMMA SoundType ==
  ASSUME Sound PROVE TypeOK
<1>1. Known \subseteq Entry
  BY DEF Known
<1>2. KnownFrame \subseteq Frame
  BY <1>1 DEF KnownFrame, Frame
<1>3. KnownWrite \subseteq Write
  BY <1>1 DEF KnownWrite, Write
<1>4. KnownJob \subseteq Job /\ KnownLog \subseteq LogType
  BY <1>1 DEF KnownJob, Job, KnownLog, LogType
<1>5. Seq(KnownFrame) \subseteq Seq(Frame) /\ Seq(KnownWrite) \subseteq Seq(Write)
  BY <1>2, <1>3, SeqMonotone
<1>6. chan \in [Node -> [Node -> Seq(Frame)]]
  BY <1>5 DEF Sound
<1>7. writes \in [Node -> Seq(Write)]
  BY <1>5 DEF Sound
<1>8. verifying \in [Node -> SUBSET Job]
  BY <1>4 DEF Sound
<1>9. log \in [Node -> LogType]
  BY <1>4 DEF Sound
<1> QED
  BY <1>1, <1>6, <1>7, <1>8, <1>9 DEF Sound, TypeOK

LEMMA SoundInit == Init => Sound
<1> SUFFICES ASSUME Init PROVE Sound
  OBVIOUS
<1>1. EmptyLog(Origin) \in KnownLog
  BY DEF EmptyLog, KnownLog
<1>2. IsFiniteSet(posted)
  BY FS_EmptySet DEF Init
<1>3. Bounded
  BY DEF Init, Bounded
<1>4. /\ score \in [Node -> [Node -> ScoreMin..ScoreMax]]
      /\ chan \in [Node -> [Node -> Seq(KnownFrame)]]
      /\ writes \in [Node -> Seq(KnownWrite)]
  BY DEF Init, ScoreMin, ScoreMax
<1>5. epoch \in [Node -> 0..MaxWipes]
  BY BoundsAssumption DEF Init
<1> QED
  BY <1>1, <1>2, <1>3, <1>4, <1>5 DEF Init, Sound

(* Only sendChat posts; the other steps leave what is known as it is.          *)
LEMMA KnownStable ==
  ASSUME posted' = posted
  PROVE  /\ Known' = Known /\ KnownFrame' = KnownFrame /\ KnownWrite' = KnownWrite
         /\ KnownJob' = KnownJob /\ KnownLog' = KnownLog
         /\ Bounded' = Bounded
BY DEF Known, KnownFrame, KnownWrite, KnownJob, KnownLog, Bounded

LEMMA SyncReqKnown ==
  ASSUME Sound, NEW n \in Node
  PROVE  SyncReq(n) \in KnownFrame
BY DEF Sound, SyncReq, KnownFrame, KnownLog

LEMMA ConnectSound ==
  ASSUME Sound, NEW n \in Node, NEW m \in Node, Connect(n, m)
  PROVE  Sound'
<1>1. SyncReq(n) \in KnownFrame /\ SyncReq(m) \in KnownFrame
  BY SyncReqKnown
<1>2. chan' \in [Node -> [Node -> Seq(KnownFrame)]]
  <2>1. chan \in [Node -> [Node -> Seq(KnownFrame)]]
    BY DEF Sound
  <2>2. /\ Append(chan[n][m], SyncReq(n)) \in Seq(KnownFrame)
        /\ Append(chan[m][n], SyncReq(m)) \in Seq(KnownFrame)
    BY <1>1, <2>1
  <2>3. chan' = [chan EXCEPT ![n][m] = Append(chan[n][m], SyncReq(n)),
                             ![m][n] = Append(chan[m][n], SyncReq(m))]
    BY DEF Connect
  <2> QED
    BY <2>1, <2>2, <2>3, CellsTyped
<1>3. score' \in [Node -> [Node -> ScoreMin..ScoreMax]]
  BY RecordTyped DEF Sound, Connect
<1> QED
  BY <1>2, <1>3, KnownStable DEF Sound, Connect

LEMMA DisconnectSound ==
  ASSUME Sound, NEW n \in Node, NEW m \in Node, Disconnect(n, m)
  PROVE  Sound'
<1>1. chan' \in [Node -> [Node -> Seq(KnownFrame)]]
  BY CutTyped DEF Sound, Disconnect
<1>2. faults' \in [drops : Nat, reloads : Nat, aborts : Nat]
  <2>1. faults \in [drops : Nat, reloads : Nat, aborts : Nat]
    BY DEF Sound
  <2>2. faults' = [faults EXCEPT !.drops = faults.drops + 1]
    BY DEF Disconnect
  <2> QED
    BY <2>1, <2>2
<1>3. score' \in [Node -> [Node -> ScoreMin..ScoreMax]]
  <2>1. score \in [Node -> [Node -> ScoreMin..ScoreMax]]
    BY DEF Sound
  <2>2. PICK hn \in Notices, hm \in Notices :
          score' = [score EXCEPT ![n][m] = AfterClose(score[n][m], hn),
                                 ![m][n] = AfterClose(score[m][n], hm)]
    BY DEF Disconnect
  <2>3. ASSUME NEW s \in ScoreMin..ScoreMax, NEW how \in Notices
        PROVE  AfterClose(s, how) \in ScoreMin..ScoreMax
    <3>1. Record(s, how) \in ScoreMin..ScoreMax \/ how = "closed"
      BY RecordTyped, BoundsAssumption
    <3> QED
      BY <3>1 DEF AfterClose
  <2> QED
    BY <2>1, <2>2, <2>3
<1> QED
  BY <1>1, <1>2, <1>3, KnownStable DEF Sound, Disconnect

LEMMA RemovePeerSound ==
  ASSUME Sound, NEW n \in Node, NEW m \in Node, RemovePeer(n, m)
  PROVE  Sound'
<1>1. chan' \in [Node -> [Node -> Seq(KnownFrame)]]
  BY CutTyped DEF Sound, RemovePeer
<1> QED
  BY <1>1, KnownStable DEF Sound, RemovePeer

(* The new entry is known, and so is all that was; its numbers raise the bound. *)
LEMMA SendChatSound ==
  ASSUME Sound, NEW n \in Node, SendChat(n)
  PROVE  Sound'
<1> DEFINE e == NewEntry(log[n], Self(n), posts[n])
<1>1. Self(n) \in Origin
  BY DEF Sound, Self, Origin
<1>2. e \in Entry
  BY <1>1 DEF NewEntry, Entry, Sound, KnownLog
<1>3. posted' = posted \cup {Content(e)} /\ Content(e) \in ContentType
  BY <1>2, ContentTyped DEF SendChat
<1>4. e \in Known' /\ Known \subseteq Known'
  BY <1>2, <1>3 DEF Known
<1>5. /\ KnownFrame \subseteq KnownFrame' /\ KnownWrite \subseteq KnownWrite'
      /\ KnownJob \subseteq KnownJob' /\ KnownLog \subseteq KnownLog'
  BY <1>4 DEF KnownFrame, KnownWrite, KnownJob, KnownLog
<1>6. Append1(log[n], e) \in KnownLog'
  BY <1>1, <1>2, <1>4 DEF Append1, KnownLog, Sound, NewEntry, Entry
<1>7. log' \in [Node -> KnownLog']
  BY <1>5, <1>6 DEF Sound, SendChat
<1>8. signing' \in [Node -> SUBSET Known']
  BY <1>4 DEF Sound, SendChat
<1>9. disk' \in [Node -> SUBSET Known'] /\ verifying' \in [Node -> SUBSET KnownJob']
  BY <1>4, <1>5 DEF Sound, SendChat
<1>10. writes' \in [Node -> Seq(KnownWrite')]
  BY <1>5, SeqMonotone DEF Sound, SendChat
<1>11. chan' \in [Node -> [Node -> Seq(KnownFrame')]]
  <2>1. Seq(KnownFrame) \subseteq Seq(KnownFrame')
    BY <1>5, SeqMonotone
  <2> QED
    BY <2>1 DEF Sound, SendChat
<1>12. IsFiniteSet(posted')
  BY <1>3, FS_AddElement DEF Sound
<1>13. Bounded'
  <2>1. PICK b \in Nat : \A c \in posted : c.seq <= b /\ c.lamport <= b
    BY DEF Sound, Bounded
  <2> DEFINE top == b + Content(e).seq + Content(e).lamport
  <2>2. Content(e).seq \in Nat /\ Content(e).lamport \in Nat
    BY <1>3 DEF ContentType
  <2>3. \A c \in posted' : c.seq \in Nat /\ c.lamport \in Nat
    BY <1>3 DEF Sound, ContentType
  <2>4. \A c \in posted' : c.seq <= top /\ c.lamport <= top
    <3> HIDE DEF e
    <3> QED
      BY <1>3, <2>1, <2>2, <2>3
  <2>5. top \in Nat
    <3> HIDE DEF e
    <3> QED
      BY <2>2
  <2> QED
    BY <2>4, <2>5 DEF Bounded
<1>14. posted' \subseteq ContentType
  BY <1>3 DEF Sound
<1>15. posts' \in [Node -> Nat]
  BY DEF Sound, SendChat
<1> QED
  BY <1>7, <1>8, <1>9, <1>10, <1>11, <1>12, <1>13, <1>14, <1>15 DEF Sound, SendChat

LEMMA SetSignedKnown ==
  ASSUME Sound, NEW n \in Node, NEW e \in signing[n]
  PROVE  /\ SetSigned(log[n], e) \in KnownLog
         /\ [e EXCEPT !.signed = TRUE] \in Known
<1>1. e \in Known
  BY DEF Sound
<1>2. [e EXCEPT !.signed = TRUE] \in Known
  BY <1>1, SignedKnown
<1>3. log[n] \in KnownLog
  BY DEF Sound
<1> QED
  BY <1>2, <1>3 DEF SetSigned, KnownLog

LEMMA SignDoneSound ==
  ASSUME Sound, NEW n \in Node, NEW e \in signing[n], SignDone(n, e)
  PROVE  Sound'
<1> DEFINE l == SetSigned(log[n], e)
           w == [snapshot |-> l.entries, out |-> {[e EXCEPT !.signed = TRUE]}, except |-> n,
                resolved |-> FALSE]
<1>1. l \in KnownLog /\ [e EXCEPT !.signed = TRUE] \in Known
  BY SetSignedKnown
<1>2. w \in KnownWrite
  BY <1>1 DEF KnownWrite, KnownLog
<1>3. writes' = [writes EXCEPT ![n] = Append(@, w)]
  BY DEF SignDone, Put
<1>4. writes' \in [Node -> Seq(KnownWrite)]
  BY <1>2, <1>3 DEF Sound
<1>5. log' \in [Node -> KnownLog]
  BY <1>1 DEF Sound, SignDone
<1>6. signing' \in [Node -> SUBSET Known]
  BY DEF Sound, SignDone
<1> QED
  BY <1>4, <1>5, <1>6, KnownStable DEF Sound, SignDone

(* A put that resolves stays what it is.                                       *)
LEMMA ResolveShape ==
  ASSUME NEW puts \in Seq(KnownWrite), puts # <<>>
  PROVE  /\ Resolve(puts) \in Seq(KnownWrite) /\ Len(Resolve(puts)) = Len(puts)
         /\ DOMAIN Resolve(puts) = DOMAIN puts /\ 1 \in DOMAIN puts
         /\ Head(puts) = puts[1] /\ Resolve(puts)[1].resolved
         /\ \A i \in DOMAIN puts : /\ Resolve(puts)[i].snapshot = puts[i].snapshot
                                   /\ Resolve(puts)[i].out = puts[i].out
<1> DEFINE w == [puts[1] EXCEPT !.resolved = TRUE]
<1>1. 1 \in 1..Len(puts) /\ Len(puts) \in Nat /\ DOMAIN puts = 1..Len(puts) /\ Head(puts) = puts[1]
  OBVIOUS
<1>2. puts[1] \in KnownWrite
  BY <1>1
<1>3. w \in KnownWrite /\ w.resolved /\ w.snapshot = puts[1].snapshot /\ w.out = puts[1].out
  BY <1>2 DEF KnownWrite
<1>4. Resolve(puts) = [puts EXCEPT ![1] = w]
  BY DEF Resolve
<1> HIDE DEF w
<1>5. /\ Resolve(puts) \in Seq(KnownWrite) /\ Len(Resolve(puts)) = Len(puts)
      /\ DOMAIN Resolve(puts) = DOMAIN puts
      /\ \A i \in DOMAIN puts : Resolve(puts)[i] = IF i = 1 THEN w ELSE puts[i]
  BY <1>1, <1>3, <1>4, ExceptSeq
<1> QED
  BY <1>1, <1>3, <1>5

LEMMA WriteDoneSound ==
  ASSUME Sound, NEW n \in Node, WriteDone(n)
  PROVE  Sound'
<1> DEFINE w == Head(writes[n])
<1>0. writes[n] \in Seq(KnownWrite) /\ writes[n] # <<>>
  BY DEF Sound, WriteDone
<1>1. w \in KnownWrite
  BY <1>0
<1>2. writes' \in [Node -> Seq(KnownWrite)]
  <2>1. Resolve(writes[n]) \in Seq(KnownWrite)
    BY <1>0, ResolveShape
  <2>2. writes' = [writes EXCEPT ![n] = Resolve(writes[n])]
    BY DEF WriteDone
  <2> QED
    BY <2>1, <2>2 DEF Sound
<1>4. ChatDelta(w.out) \in KnownFrame
  BY <1>1 DEF ChatDelta, KnownFrame, KnownWrite
<1>5. chan' \in [Node -> [Node -> Seq(KnownFrame)]]
  <2> DEFINE row == [m \in Node |-> IF m \in Peers(n) \ {w.except}
                                    THEN Append(chan[n][m], ChatDelta(w.out))
                                    ELSE chan[n][m]]
  <2>1. chan \in [Node -> [Node -> Seq(KnownFrame)]]
    BY DEF Sound
  <2>2. row \in [Node -> Seq(KnownFrame)]
    <3> HIDE DEF w
    <3> QED
      BY <1>4, <2>1
  <2>3. chan' = [chan EXCEPT ![n] = row]
    BY DEF WriteDone, Broadcast
  <2> HIDE DEF row
  <2> QED
    BY <2>1, <2>2, <2>3
<1>6. acked' \in [Node -> SUBSET ContentType]
  <2>1. Contents(w.out) \in SUBSET ContentType
    BY <1>1, ContentTyped DEF Contents, KnownWrite, Known
  <2> QED
    BY <2>1 DEF Sound, WriteDone
<1> QED
  BY <1>2, <1>5, <1>6, KnownStable DEF Sound, WriteDone

LEMMA CommitSound ==
  ASSUME Sound, NEW n \in Node, Commit(n)
  PROVE  Sound'
<1>1. Head(writes[n]) \in KnownWrite /\ Tail(writes[n]) \in Seq(KnownWrite)
  BY DEF Sound, Commit
<1>2. writes' \in [Node -> Seq(KnownWrite)]
  BY <1>1 DEF Sound, Commit
<1>3. disk' \in [Node -> SUBSET Known]
  BY <1>1 DEF Sound, Commit, KnownWrite
<1> QED
  BY <1>2, <1>3, KnownStable DEF Sound, Commit

LEMMA AbortSound ==
  ASSUME Sound, NEW n \in Node, Abort(n)
  PROVE  Sound'
<1>1. Tail(writes[n]) \in Seq(KnownWrite)
  BY DEF Sound, Abort
<1>2. writes' \in [Node -> Seq(KnownWrite)]
  BY <1>1 DEF Sound, Abort
<1>3. faults' \in [drops : Nat, reloads : Nat, aborts : Nat]
  <2>1. faults \in [drops : Nat, reloads : Nat, aborts : Nat]
    BY DEF Sound
  <2>2. faults' = [faults EXCEPT !.aborts = faults.aborts + 1]
    BY DEF Abort
  <2> QED
    BY <2>1, <2>2
<1>4. acked' \in [Node -> SUBSET ContentType]
  BY DEF Sound, Abort
<1> QED
  BY <1>2, <1>3, <1>4, KnownStable DEF Sound, Abort

LEMMA HeadKnown ==
  ASSUME Sound, NEW n \in Node, NEW m \in Node, chan[m][n] # <<>>
  PROVE  /\ Head(chan[m][n]) \in KnownFrame
         /\ Tail(chan[m][n]) \in Seq(KnownFrame)
         /\ Head(chan[m][n]).t = "CHAT_DELTA" => Head(chan[m][n]).entries \in SUBSET Known
<1>1. chan[m][n] \in Seq(KnownFrame)
  BY DEF Sound
<1>2. Head(chan[m][n]) \in KnownFrame /\ Tail(chan[m][n]) \in Seq(KnownFrame)
  BY <1>1
<1> QED
  BY <1>2 DEF KnownFrame

LEMMA HandleSyncReqSound ==
  ASSUME Sound, NEW n \in Node, NEW m \in Node, HandleSyncReq(n, m)
  PROVE  Sound'
<1> DEFINE delta == ChatDelta(EntriesMissingFrom(log[n], Head(chan[m][n]).chat_vv))
<1>1. delta \in KnownFrame
  BY DEF Sound, KnownLog, EntriesMissingFrom, ChatDelta, KnownFrame
<1>2. Tail(chan[m][n]) \in Seq(KnownFrame)
  BY HeadKnown DEF HandleSyncReq
<1>3. Append(chan[n][m], delta) \in Seq(KnownFrame)
  <2>1. chan[n][m] \in Seq(KnownFrame)
    BY DEF Sound
  <2> HIDE DEF delta
  <2> QED
    BY <1>1, <2>1
<1>4. chan' \in [Node -> [Node -> Seq(KnownFrame)]]
  <2>1. chan' = [chan EXCEPT ![m][n] = Tail(chan[m][n]),
                             ![n][m] = Append(chan[n][m], delta)]
    BY DEF HandleSyncReq
  <2> HIDE DEF delta
  <2> QED
    BY <1>2, <1>3, <2>1, CellsTyped DEF Sound
<1> QED
  BY <1>4, KnownStable DEF Sound, HandleSyncReq

LEMMA HandleChatDeltaSound ==
  ASSUME Sound, NEW n \in Node, NEW m \in Node, HandleChatDelta(n, m)
  PROVE  Sound'
<1>1. /\ Tail(chan[m][n]) \in Seq(KnownFrame)
      /\ Head(chan[m][n]).entries \in SUBSET Known
  BY HeadKnown DEF HandleChatDelta
<1>2. chan' \in [Node -> [Node -> Seq(KnownFrame)]]
  <2>1. chan \in [Node -> [Node -> Seq(KnownFrame)]]
    BY DEF Sound
  <2>2. chan' = [chan EXCEPT ![m][n] = Tail(chan[m][n])]
    BY DEF HandleChatDelta
  <2> QED
    BY <1>1, <2>1, <2>2, CellTyped
<1>3. verifying' \in [Node -> SUBSET KnownJob]
  <2>1. PICK batch \in FirstEntries(Head(chan[m][n]).entries, MaxDelta) :
          verifying' = [verifying EXCEPT ![n] =
                          @ \cup IF batch = {} THEN {} ELSE {[from |-> m, batch |-> batch]}]
    BY DEF HandleChatDelta
  <2>2. batch \in SUBSET Known
    BY <1>1, <2>1, FirstEntriesSubset
  <2>3. [from |-> m, batch |-> batch] \in KnownJob
    BY <2>2 DEF KnownJob
  <2> QED
    BY <2>1, <2>3 DEF Sound
<1> QED
  BY <1>2, <1>3, KnownStable DEF Sound, HandleChatDelta

LEMMA DropLongFrameSound ==
  ASSUME Sound, NEW n \in Node, NEW m \in Node, DropLongFrame(n, m)
  PROVE  Sound'
<1>1. Tail(chan[m][n]) \in Seq(KnownFrame)
  BY HeadKnown DEF DropLongFrame
<1>2. chan' \in [Node -> [Node -> Seq(KnownFrame)]]
  <2>1. chan \in [Node -> [Node -> Seq(KnownFrame)]]
    BY DEF Sound
  <2>2. chan' = [chan EXCEPT ![m][n] = Tail(chan[m][n])]
    BY DEF DropLongFrame
  <2> QED
    BY <1>1, <2>1, <2>2, CellTyped
<1> QED
  BY <1>2, KnownStable DEF Sound, DropLongFrame

LEMMA AntiEntropySound ==
  ASSUME Sound, NEW n \in Node, NEW m \in Node, AntiEntropy(n, m)
  PROVE  Sound'
<1>1. Append(chan[n][m], SyncReq(n)) \in Seq(KnownFrame)
  <2>1. chan[n][m] \in Seq(KnownFrame) /\ SyncReq(n) \in KnownFrame
    BY SyncReqKnown DEF Sound
  <2> QED
    BY <2>1
<1>2. chan' \in [Node -> [Node -> Seq(KnownFrame)]]
  BY <1>1, CellTyped DEF Sound, AntiEntropy
<1> QED
  BY <1>2, KnownStable DEF Sound, AntiEntropy

(* A set of known entries has numbers under one bound.                         *)
LEMMA KnownBounded ==
  ASSUME Sound
  PROVE  \E b \in Nat : \A e \in Known : e.seq <= b /\ e.lamport <= b
<1>1. PICK b \in Nat : \A c \in posted : c.seq <= b /\ c.lamport <= b
  BY DEF Sound, Bounded
<1>2. \A e \in Known : e.seq <= b /\ e.lamport <= b
  BY <1>1 DEF Known, Content
<1> QED
  BY <1>2

(* MergeShape, for a log and a delta of known entries.                         *)
LEMMA MergeKnown ==
  ASSUME Sound, NEW l \in KnownLog, NEW delta \in SUBSET Known
  PROVE  /\ Merge(l, delta) \in KnownLog
         /\ Merge(l, delta).entries = l.entries \cup Fresh(l, delta)
         /\ Fresh(l, delta) \subseteq delta
         /\ \A o \in Origin : Merge(l, delta).vv[o] >= l.vv[o]
         /\ \A e \in Fresh(l, delta) : e.seq <= Merge(l, delta).vv[e.origin]
         /\ \A o \in Origin : \/ Merge(l, delta).vv[o] = l.vv[o]
                              \/ \E e \in Fresh(l, delta) :
                                   e.origin = o /\ e.seq = Merge(l, delta).vv[o]
<1>1. PICK b \in Nat : \A e \in Known : e.seq <= b /\ e.lamport <= b
  BY KnownBounded
<1>2. Known \subseteq EntryType(Origin)
  BY EntryIsEntryType DEF Known
<1>3. l \in LogShape(Origin) /\ delta \in SUBSET EntryType(Origin)
  BY <1>2 DEF KnownLog, LogShape
<1>4. \A e \in delta : e.seq <= b /\ e.lamport <= b
  BY <1>1
<1>5. /\ Merge(l, delta) \in LogShape(Origin)
      /\ Merge(l, delta).entries = l.entries \cup Fresh(l, delta)
      /\ Fresh(l, delta) \subseteq delta
      /\ \A o \in Origin : Merge(l, delta).vv[o] >= l.vv[o]
      /\ \A e \in Fresh(l, delta) : e.seq <= Merge(l, delta).vv[e.origin]
      /\ \A o \in Origin : \/ Merge(l, delta).vv[o] = l.vv[o]
                           \/ \E e \in Fresh(l, delta) :
                                e.origin = o /\ e.seq = Merge(l, delta).vv[o]
  BY <1>3, <1>4, MergeShape
<1>6. Merge(l, delta) \in KnownLog
  BY <1>5 DEF KnownLog, LogShape
<1> QED
  BY <1>5, <1>6

LEMMA VerifyDoneSound ==
  ASSUME Sound, NEW n \in Node, NEW job \in verifying[n], VerifyDone(n, job)
  PROVE  Sound'
<1> DEFINE good == {e \in job.batch : e.signed}
           added == Fresh(log[n], good)
           l == Merge(log[n], good)
           w == [snapshot |-> l.entries, out |-> added, except |-> job.from, resolved |-> FALSE]
<1>1. job.from \in Node /\ job.batch \in SUBSET Known /\ good \in SUBSET Known
  BY DEF Sound, KnownJob
<1>2. l \in KnownLog /\ added \subseteq good
  BY <1>1, MergeKnown DEF Sound
<1>3. log' \in [Node -> KnownLog]
  BY <1>2 DEF Sound, VerifyDone
<1>4. verifying' \in [Node -> SUBSET KnownJob]
  BY DEF Sound, VerifyDone
<1>5. writes' \in [Node -> Seq(KnownWrite)]
  <2>1. w \in KnownWrite
    BY <1>1, <1>2 DEF KnownWrite, KnownLog
  <2>2. writes' = writes \/ writes' = [writes EXCEPT ![n] = Append(writes[n], w)]
    BY DEF VerifyDone, Put
  <2>3. writes \in [Node -> Seq(KnownWrite)]
    BY DEF Sound
  <2>4. Append(writes[n], w) \in Seq(KnownWrite)
    <3> HIDE DEF w
    <3> QED
      BY <2>1, <2>3
  <2> HIDE DEF w
  <2> QED
    BY <2>2, <2>3, <2>4
<1>6. score' \in [Node -> [Node -> ScoreMin..ScoreMax]]
  <2> DEFINE k == Cardinality(job.batch \ good)
             s == RecordTimes(score[n][job.from], "forged_entry", k)
  <2>1. IsFiniteSet(job.batch \ good)
    <3>1. job.batch \ good \in SUBSET Known
      BY <1>1
    <3> QED
      BY <3>1, KnownFinite DEF Sound
  <2>2. k \in Nat
    BY <2>1, FS_CardinalityType
  <2>3. score[n][job.from] \in ScoreMin..ScoreMax
    BY <1>1 DEF Sound
  <2>4. s \in ScoreMin..ScoreMax
    <3> HIDE DEF k
    <3> QED
      BY <2>2, <2>3, ScoreTyped
  <2>5. score' = [score EXCEPT ![n][job.from] = s]
    BY DEF VerifyDone
  <2> HIDE DEF s
  <2> QED
    BY <1>1, <2>4, <2>5, CellTyped DEF Sound
<1> QED
  BY <1>3, <1>4, <1>5, <1>6, KnownStable DEF Sound, VerifyDone

LEMMA RestartSound ==
  ASSUME Sound, NEW n \in Node, NEW stored \in SUBSET Known, NEW ep \in 0..MaxWipes,
         Restart(n, stored, ep)
  PROVE  /\ log' \in [Node -> KnownLog]
         /\ disk' \in [Node -> SUBSET Known]
         /\ epoch' \in [Node -> 0..MaxWipes]
         /\ signing' \in [Node -> SUBSET Known]
         /\ verifying' \in [Node -> SUBSET KnownJob]
         /\ writes' \in [Node -> Seq(KnownWrite)]
         /\ links' \subseteq Topology
         /\ chan' \in [Node -> [Node -> Seq(KnownFrame)]]
<1>1. EmptyLog(Origin) \in KnownLog
  BY DEF EmptyLog, KnownLog
<1>2. FromJSON(Origin, stored) \in KnownLog
  BY <1>1, MergeKnown DEF FromJSON
<1>3. log' \in [Node -> KnownLog]
  BY <1>2 DEF Sound, Restart
<1>4. chan' \in [Node -> [Node -> Seq(KnownFrame)]]
  BY CutTyped DEF Sound, Restart
<1>5. writes' \in [Node -> Seq(KnownWrite)]
  BY DEF Sound, Restart
<1>6. /\ disk' \in [Node -> SUBSET Known]
      /\ epoch' \in [Node -> 0..MaxWipes]
      /\ signing' \in [Node -> SUBSET Known]
      /\ verifying' \in [Node -> SUBSET KnownJob]
      /\ links' \subseteq Topology
  BY DEF Sound, Restart
<1> QED
  BY <1>3, <1>4, <1>5, <1>6

LEMMA ReloadSound ==
  ASSUME Sound, NEW n \in Node, Reload(n)
  PROVE  Sound'
<1>1. PICK stored \in Committed(n) :
        /\ Restart(n, stored, epoch[n])
        /\ acked' = [acked EXCEPT ![n] = @ \cap SignedContents(stored)]
  BY DEF Reload
<1>2. stored \in SUBSET Known
  <2>1. disk[n] \in SUBSET Known /\ writes[n] \in Seq(KnownWrite)
    BY DEF Sound
  <2>2. \A i \in DOMAIN writes[n] : writes[n][i] \in KnownWrite
    BY <2>1
  <2> QED
    BY <2>1, <2>2 DEF Committed, KnownWrite
<1>3. epoch[n] \in 0..MaxWipes
  BY DEF Sound
<1>4. score' \in [Node -> [Node -> ScoreMin..ScoreMax]]
  <2>1. \A m \in Node : score[n][m] \in ScoreMin..ScoreMax
    BY DEF Sound
  <2>2. \A m \in Node : Reloaded(score[n][m]) \in ScoreMin..ScoreMax
    BY <2>1, ReloadedTyped
  <2>3. score' = [score EXCEPT ![n] = [m \in Node |-> Reloaded(score[n][m])]]
    BY DEF Reload
  <2> QED
    BY <2>2, <2>3 DEF Sound
<1>5. faults' \in [drops : Nat, reloads : Nat, aborts : Nat]
  <2>1. faults \in [drops : Nat, reloads : Nat, aborts : Nat]
    BY DEF Sound
  <2>2. faults' = [faults EXCEPT !.reloads = faults.reloads + 1]
    BY DEF Reload
  <2> QED
    BY <2>1, <2>2
<1>6. posted' = posted /\ posts' = posts /\ acked' \in [Node -> SUBSET ContentType]
  BY <1>1 DEF Restart, Sound
<1> QED
  BY <1>1, <1>2, <1>3, <1>4, <1>5, <1>6, RestartSound, KnownStable DEF Sound

LEMMA WipeSound ==
  ASSUME Sound, NEW n \in Node, Wipe(n)
  PROVE  Sound'
<1>1. epoch[n] + 1 \in 0..MaxWipes
  BY BoundsAssumption DEF Sound, Wipe
<1>2. Restart(n, {}, epoch[n] + 1)
  BY DEF Wipe
<1>3. score' \in [Node -> [Node -> ScoreMin..ScoreMax]]
  <2>1. [m \in Node |-> 0] \in [Node -> ScoreMin..ScoreMax]
    BY DEF ScoreMin, ScoreMax
  <2> QED
    BY <2>1 DEF Sound, Wipe
<1>4. acked' \in [Node -> SUBSET ContentType]
  BY DEF Sound, Wipe
<1>5. posted' = posted /\ posts' = posts /\ faults' = faults
  BY <1>2 DEF Restart, Wipe
<1> QED
  BY <1>1, <1>2, <1>3, <1>4, <1>5, RestartSound, KnownStable DEF Sound

LEMMA SoundStutter ==
  ASSUME Sound, UNCHANGED vars
  PROVE  Sound'
BY KnownStable DEF Sound, vars

LEMMA SoundNext == Sound /\ [Next]_vars => Sound'
<1> SUFFICES ASSUME Sound, [Next]_vars PROVE Sound'
  OBVIOUS
<1>1. ASSUME NEW n \in Node, NEW m \in Node, LinkStep(n, m) PROVE Sound'
  BY <1>1, ConnectSound, DisconnectSound, RemovePeerSound DEF LinkStep
<1>2. ASSUME NEW n \in Node, NEW m \in Node, SyncStep(n, m) PROVE Sound'
  BY <1>2, HandleSyncReqSound, HandleChatDeltaSound, DropLongFrameSound,
     AntiEntropySound DEF SyncStep
<1>3. ASSUME NEW n \in Node, WriteStep(n) PROVE Sound'
  BY <1>3, SendChatSound, SignDoneSound, WriteDoneSound, CommitSound, AbortSound DEF WriteStep
<1>4. ASSUME NEW n \in Node, Reload(n) \/ Wipe(n) PROVE Sound'
  BY <1>4, ReloadSound, WipeSound
<1>5. ASSUME NEW n \in Node, NEW job \in verifying[n], VerifyDone(n, job) PROVE Sound'
  BY <1>5, VerifyDoneSound
<1>6. CASE UNCHANGED vars
  BY <1>6, SoundStutter
<1> QED
  BY <1>1, <1>2, <1>3, <1>4, <1>5, <1>6 DEF Next

LEMMA SoundAlways == Spec => []Sound
BY SoundInit, SoundNext, PTL DEF Spec

(* Every variable of the chat keeps its shape, in every behaviour.             *)
THEOREM TypeCorrect == Spec => []TypeOK
BY SoundAlways, SoundType, PTL

-----------------------------------------------------------------------------
(* What a step can do to the log of one node                                 *)

Unchanged1(n) == log'[n] = log[n] /\ signing'[n] = signing[n]

Appends(n) ==
  LET e == NewEntry(log[n], Self(n), posts[n])
  IN  log'[n] = Append1(log[n], e) /\ signing'[n] = signing[n] \cup {e}

Signs(n) ==
  \E e \in signing[n] : log'[n] = SetSigned(log[n], e) /\ signing'[n] = signing[n] \ {e}

Merges(n) ==
  /\ \E delta \in SUBSET Known : /\ \A e \in delta : e.signed
                                 /\ log'[n] = Merge(log[n], delta)
  /\ signing'[n] = signing[n]

Loads(n) ==
  /\ \E stored \in Committed(n) \cup {{}} :
        stored \in SUBSET Known /\ log'[n] = FromJSON(Origin, stored)
  /\ signing'[n] = {}

LogStep(n) == Unchanged1(n) \/ Appends(n) \/ Signs(n) \/ Merges(n) \/ Loads(n)

LEMMA SendChatLog ==
  ASSUME Sound, NEW n \in Node, NEW k \in Node, SendChat(k)
  PROVE  LogStep(n)
<1>1. CASE n = k
  BY <1>1 DEF Sound, SendChat, LogStep, Appends
<1>2. CASE n # k
  BY <1>2 DEF Sound, SendChat, LogStep, Unchanged1
<1> QED
  BY <1>1, <1>2

LEMMA SignDoneLog ==
  ASSUME Sound, NEW n \in Node, NEW k \in Node, NEW e \in signing[k], SignDone(k, e)
  PROVE  LogStep(n)
<1>1. CASE n = k
  BY <1>1 DEF Sound, SignDone, LogStep, Signs
<1>2. CASE n # k
  BY <1>2 DEF Sound, SignDone, LogStep, Unchanged1
<1> QED
  BY <1>1, <1>2

LEMMA VerifyDoneLog ==
  ASSUME Sound, NEW n \in Node, NEW k \in Node, NEW job \in verifying[k], VerifyDone(k, job)
  PROVE  LogStep(n)
<1>1. CASE n = k
  <2> DEFINE good == {e \in job.batch : e.signed}
  <2>1. good \in SUBSET Known /\ \A e \in good : e.signed
    BY DEF Sound, KnownJob
  <2>2. log'[n] = Merge(log[n], good) /\ signing'[n] = signing[n]
    BY <1>1 DEF VerifyDone, Sound
  <2> QED
    BY <2>1, <2>2 DEF LogStep, Merges
<1>2. CASE n # k
  BY <1>2 DEF Sound, VerifyDone, LogStep, Unchanged1
<1> QED
  BY <1>1, <1>2

LEMMA CommittedKnown ==
  ASSUME Sound, NEW n \in Node
  PROVE  Committed(n) \subseteq SUBSET Known
<1>1. disk[n] \in SUBSET Known /\ writes[n] \in Seq(KnownWrite)
  BY DEF Sound
<1>2. \A i \in DOMAIN writes[n] : writes[n][i] \in KnownWrite
  BY <1>1
<1> QED
  BY <1>1, <1>2 DEF Committed, KnownWrite

LEMMA RestartLog ==
  ASSUME Sound, NEW n \in Node, NEW k \in Node, NEW ep,
         NEW stored \in Committed(k) \cup {{}}, Restart(k, stored, ep)
  PROVE  LogStep(n)
<1>1. CASE n = k
  <2>1. stored \in SUBSET Known
    BY CommittedKnown
  <2>2. log'[n] = FromJSON(Origin, stored) /\ signing'[n] = {}
    BY <1>1 DEF Restart, Sound
  <2> QED
    BY <1>1, <2>1, <2>2 DEF LogStep, Loads
<1>2. CASE n # k
  BY <1>2 DEF Sound, Restart, LogStep, Unchanged1
<1> QED
  BY <1>1, <1>2

LEMMA LogSteps ==
  ASSUME Sound, [Next]_vars, NEW n \in Node
  PROVE  LogStep(n)
<1>1. ASSUME log' = log, signing' = signing PROVE LogStep(n)
  BY <1>1 DEF LogStep, Unchanged1
<1>2. ASSUME NEW k \in Node, NEW m \in Node, LinkStep(k, m) \/ SyncStep(k, m) PROVE LogStep(n)
  BY <1>1, <1>2 DEF LinkStep, Connect, Disconnect, RemovePeer,
     SyncStep, HandleSyncReq, HandleChatDelta, DropLongFrame, AntiEntropy
<1>3. ASSUME NEW k \in Node, WriteStep(k) PROVE LogStep(n)
  <2>1. CASE WriteDone(k) \/ Commit(k) \/ Abort(k)
    BY <1>1, <2>1 DEF WriteDone, Commit, Abort
  <2> QED
    BY <1>3, <2>1, SendChatLog, SignDoneLog DEF WriteStep
<1>4. ASSUME NEW k \in Node, Reload(k) PROVE LogStep(n)
  BY <1>4, RestartLog DEF Reload
<1>5. ASSUME NEW k \in Node, Wipe(k) PROVE LogStep(n)
  BY <1>5, RestartLog DEF Wipe
<1>6. ASSUME NEW k \in Node, NEW job \in verifying[k], VerifyDone(k, job) PROVE LogStep(n)
  BY <1>6, VerifyDoneLog
<1>7. CASE UNCHANGED vars
  BY <1>1, <1>7 DEF vars
<1> QED
  BY <1>2, <1>3, <1>4, <1>5, <1>6, <1>7 DEF Next

-----------------------------------------------------------------------------
(* The version vector                                                        *)

(* An entry being signed is one of the log, so that signing adds no number.    *)
Exact ==
  /\ VersionVectorExact
  /\ \A n \in Node : signing[n] \subseteq log[n].entries

Marks(l) ==
  \A o \in Origin :
    /\ \A e \in l.entries : e.origin = o => e.seq <= l.vv[o]
    /\ l.vv[o] > 0 => \E e \in l.entries : e.origin = o /\ e.seq = l.vv[o]

LEMMA ExactInit == Init => Exact
BY DEF Init, Exact, VersionVectorExact, EmptyLog

LEMMA MergeMarks ==
  ASSUME Sound, NEW l \in KnownLog, NEW delta \in SUBSET Known, Marks(l)
  PROVE  Marks(Merge(l, delta))
<1> DEFINE r == Merge(l, delta)
<1>1. /\ r \in KnownLog
      /\ r.entries = l.entries \cup Fresh(l, delta)
      /\ \A o \in Origin : r.vv[o] >= l.vv[o]
      /\ \A e \in Fresh(l, delta) : e.seq <= r.vv[e.origin]
      /\ \A o \in Origin : \/ r.vv[o] = l.vv[o]
                           \/ \E e \in Fresh(l, delta) : e.origin = o /\ e.seq = r.vv[o]
  BY MergeKnown
<1> HIDE DEF r
<1>2. ASSUME NEW o \in Origin, NEW e \in r.entries, e.origin = o
      PROVE  e.seq <= r.vv[o]
  <2>1. CASE e \in Fresh(l, delta)
    BY <1>1, <1>2, <2>1
  <2>2. CASE e \in l.entries
    <3>1. e.seq <= l.vv[o] /\ l.vv[o] <= r.vv[o]
      BY <1>1, <1>2, <2>2 DEF Marks
    <3>2. e.seq \in Nat /\ l.vv[o] \in Nat /\ r.vv[o] \in Nat
      BY <1>1, <2>2 DEF KnownLog, Known, Entry
    <3> QED
      BY <3>1, <3>2
  <2> QED
    BY <1>1, <2>1, <2>2
<1>3. ASSUME NEW o \in Origin, r.vv[o] > 0
      PROVE  \E e \in r.entries : e.origin = o /\ e.seq = r.vv[o]
  BY <1>1, <1>3 DEF Marks
<1> QED
  BY <1>2, <1>3 DEF Marks, r

LEMMA ExactNext == Sound /\ Sound' /\ Exact /\ [Next]_vars => Exact'
<1> SUFFICES ASSUME Sound, Sound', Exact, [Next]_vars, NEW n \in Node
             PROVE  Marks(log'[n]) /\ signing'[n] \subseteq log'[n].entries
  BY DEF Exact, VersionVectorExact, Marks
<1>1. Marks(log[n]) /\ signing[n] \subseteq log[n].entries /\ log[n] \in KnownLog
  BY DEF Exact, VersionVectorExact, Marks, Sound
<1>2. CASE Unchanged1(n)
  BY <1>1, <1>2 DEF Unchanged1
<1>3. CASE Appends(n)
  <2> DEFINE e == NewEntry(log[n], Self(n), posts[n])
  <2>1. /\ log'[n].entries = log[n].entries \cup {e}
        /\ log'[n].vv = [log[n].vv EXCEPT ![e.origin] = e.seq]
    BY <1>3 DEF Appends, Append1
  <2>2. Self(n) \in Origin
    BY DEF Sound, Self, Origin
  <2>3. e.origin = Self(n) /\ e.seq = log[n].vv[Self(n)] + 1
    BY DEF NewEntry
  <2>4. log[n].vv \in [Origin -> Nat] /\ \A f \in log[n].entries : f.seq \in Nat
    BY <1>1 DEF KnownLog, Known, Entry
  <2>5. signing'[n] \subseteq log'[n].entries
    BY <1>1, <1>3, <2>1 DEF Appends
  <2> HIDE DEF e
  <2>6. Marks(log'[n])
    BY <1>1, <2>1, <2>2, <2>3, <2>4 DEF Marks
  <2> QED
    BY <2>5, <2>6
<1>4. CASE Signs(n)
  <2>1. PICK e \in signing[n] : /\ log'[n] = SetSigned(log[n], e)
                                /\ signing'[n] = signing[n] \ {e}
    BY <1>4 DEF Signs
  <2> DEFINE g == [e EXCEPT !.signed = TRUE]
  <2>2. e \in Entry
    BY <1>1, <2>1 DEF KnownLog, Known
  <2>3. g.origin = e.origin /\ g.seq = e.seq
    BY <2>2 DEF Entry
  <2>4. /\ log'[n].entries = (log[n].entries \ {e}) \cup {g}
        /\ log'[n].vv = log[n].vv
    BY <1>1, <2>1 DEF SetSigned, KnownLog
  <2>5. e \in log[n].entries
    BY <1>1
  <2> HIDE DEF g
  <2>6. Marks(log'[n])
    BY <1>1, <2>3, <2>4, <2>5 DEF Marks
  <2>7. signing'[n] \subseteq log'[n].entries
    BY <1>1, <2>1, <2>4
  <2> QED
    BY <2>6, <2>7
<1>5. CASE Merges(n)
  <2>1. PICK delta \in SUBSET Known : log'[n] = Merge(log[n], delta)
    BY <1>5 DEF Merges
  <2>2. Marks(log'[n])
    BY <1>1, <2>1, MergeMarks
  <2>3. log[n].entries \subseteq log'[n].entries
    BY <1>1, <2>1, MergeKnown
  <2> QED
    BY <1>1, <1>5, <2>2, <2>3 DEF Merges
<1>6. CASE Loads(n)
  <2>1. PICK stored \in SUBSET Known : log'[n] = FromJSON(Origin, stored)
    BY <1>6 DEF Loads
  <2>2. EmptyLog(Origin) \in KnownLog /\ Marks(EmptyLog(Origin))
    BY DEF EmptyLog, KnownLog, Marks
  <2>3. Marks(log'[n])
    BY <2>1, <2>2, MergeMarks DEF FromJSON
  <2> QED
    BY <1>6, <2>3 DEF Loads
<1> QED
  BY <1>2, <1>3, <1>4, <1>5, <1>6, LogSteps DEF LogStep

(* What a node advertises is what it holds, whatever is lost, delivered late,   *)
(* rejected or reloaded.                                                       *)
THEOREM AdvertisesWhatItHolds == Spec => []VersionVectorExact
<1>1. Sound /\ Exact /\ [Next]_vars => Exact'
  BY SoundNext, ExactNext
<1>2. Exact => VersionVectorExact
  BY DEF Exact
<1> QED
  BY <1>1, <1>2, ExactInit, SoundAlways, PTL DEF Spec

-----------------------------------------------------------------------------
(* Ids                                                                       *)

(* Nothing was posted under an epoch still to come; what was posted under the  *)
(* epoch of today is at most at the author's own mark; ids are not repeated.   *)
Unique ==
  /\ \A c \in posted : c.origin[2] <= epoch[c.origin[1]]
  /\ \A n \in Node : \A c \in posted : c.origin = Self(n) => c.seq <= log[n].vv[Self(n)]
  /\ \A c, d \in posted : c.origin = d.origin /\ c.seq = d.seq => c = d

LEMMA UniqueInit == Init => Unique
BY DEF Init, Unique

(* A tab that reopens under the replica id it had finds a log whose mark covers  *)
(* all that it posted under that id. Its first entry after that then gets a new  *)
(* number. What breaks this is a tab closed before the put of sendChat commits.  *)
ReopensWhole ==
  \A n \in Node :
    Reload(n) => \A c \in posted : c.origin = Self(n) => c.seq <= log'[n].vv[Self(n)]

(* Steps other than Restart load nothing.                                      *)
LEMMA UniqueKept ==
  ASSUME Sound, Sound', Unique, posted' = posted, epoch' = epoch,
         \A n \in Node : \A o \in Origin : log'[n].vv[o] >= log[n].vv[o]
  PROVE  Unique'
<1>1. \A n \in Node : Self(n)' = Self(n) /\ Self(n) \in Origin
  BY DEF Self, Sound, Origin
<1>2. ASSUME NEW n \in Node, NEW c \in posted, c.origin = Self(n)
      PROVE  c.seq <= log'[n].vv[Self(n)]
  <2>1. c.seq <= log[n].vv[Self(n)] /\ log[n].vv[Self(n)] <= log'[n].vv[Self(n)]
    BY <1>1, <1>2 DEF Unique
  <2>2. c \in ContentType /\ log[n] \in KnownLog /\ log'[n] \in KnownLog'
    BY DEF Sound
  <2>3. log[n].vv \in [Origin -> Nat] /\ log'[n].vv \in [Origin -> Nat]
    BY <2>2 DEF KnownLog
  <2>4. c.seq \in Nat /\ log[n].vv[Self(n)] \in Nat /\ log'[n].vv[Self(n)] \in Nat
    BY <1>1, <2>2, <2>3 DEF ContentType
  <2> QED
    BY <2>1, <2>4
<1> QED
  BY <1>1, <1>2 DEF Unique

LEMMA SameLogUnique ==
  ASSUME Sound, Sound', Unique, posted' = posted, epoch' = epoch, log' = log
  PROVE  Unique'
<1>1. \A n \in Node : \A o \in Origin : log[n].vv[o] \in Nat
  BY DEF Sound, KnownLog
<1> QED
  BY <1>1, UniqueKept

LEMMA SendChatUnique ==
  ASSUME Sound, Sound', Unique, NEW n \in Node, SendChat(n)
  PROVE  Unique'
<1> DEFINE e == NewEntry(log[n], Self(n), posts[n])
           c == Content(e)
<1>1. /\ posted' = posted \cup {c} /\ epoch' = epoch
      /\ log' = [log EXCEPT ![n] = Append1(log[n], e)]
  BY DEF SendChat
<1>2. c.origin = Self(n) /\ c.seq = log[n].vv[Self(n)] + 1
  BY DEF NewEntry, Content
<1>3. \A k \in Node : /\ Self(k) \in Origin /\ Self(k)' = Self(k)
                      /\ Self(k)[1] = k /\ Self(k)[2] = epoch[k]
  BY <1>1 DEF Self, Sound, Origin
<1>4. \A k \in Node, o \in Origin : log[k].vv[o] \in Nat
  BY DEF Sound, KnownLog
<1>5. \A d \in posted : d.seq \in Nat /\ d.origin \in Origin
  BY DEF Sound, ContentType
<1>6. log'[n].vv = [log[n].vv EXCEPT ![Self(n)] = c.seq]
  BY <1>1, <1>2 DEF Sound, Append1, NewEntry
<1>7. \A k \in Node \ {n} : log'[k] = log[k]
  BY <1>1 DEF Sound
<1>8. log[n].vv \in [Origin -> Nat]
  BY DEF Sound, KnownLog
<1> HIDE DEF e, c
<1>9. \A d \in posted' : d.origin[2] <= epoch'[d.origin[1]]
  <2>1. c.origin[2] <= epoch[c.origin[1]]
    <3>1. epoch[n] \in Nat
      BY DEF Sound
    <3>2. c.origin[2] = epoch[n] /\ c.origin[1] = n
      BY <1>2, <1>3
    <3> QED
      BY <3>1, <3>2
  <2> QED
    BY <1>1, <2>1 DEF Unique
<1>10. ASSUME NEW k \in Node, NEW d \in posted', d.origin = Self(k)
       PROVE  d.seq <= log'[k].vv[Self(k)]
  <2>1. CASE k = n
    <3>1. log'[n].vv[Self(n)] = log[n].vv[Self(n)] + 1
      BY <1>2, <1>3, <1>6, <1>8
    <3>2. d = c \/ d.seq <= log[n].vv[Self(n)]
      BY <1>1, <1>10, <2>1 DEF Unique
    <3> QED
      BY <1>2, <1>3, <1>4, <1>5, <1>1, <2>1, <3>1, <3>2
  <2>2. CASE k # n
    <3>1. d # c
      BY <1>2, <1>3, <1>10, <2>2
    <3> QED
      BY <1>1, <1>7, <1>10, <2>2, <3>1 DEF Unique
  <2> QED
    BY <2>1, <2>2
<1>11. \A d \in posted : d.origin = c.origin => d.seq # c.seq
  BY <1>2, <1>3, <1>4, <1>5 DEF Unique
<1>12. \A d, f \in posted' : d.origin = f.origin /\ d.seq = f.seq => d = f
  BY <1>1, <1>11 DEF Unique
<1> QED
  BY <1>3, <1>9, <1>10, <1>12 DEF Unique

LEMMA WipeUnique ==
  ASSUME Sound, Sound', Unique, NEW n \in Node, Wipe(n)
  PROVE  Unique'
<1>1. /\ posted' = posted
      /\ epoch' = [epoch EXCEPT ![n] = epoch[n] + 1]
      /\ \A k \in Node \ {n} : log'[k] = log[k]
  BY DEF Wipe, Restart, Sound
<1>2. \A k \in Node : epoch[k] \in Nat
  BY DEF Sound
<1>3. \A d \in posted : d.origin[1] \in Node /\ d.origin[2] \in Nat
  <2>1. \A d \in posted : d.origin \in Origin
    BY DEF Sound, ContentType
  <2>2. \A o \in Origin : o[1] \in Node /\ o[2] \in Nat
    BY DEF Origin
  <2> QED
    BY <2>1, <2>2
<1>4. \A d \in posted' : d.origin[2] <= epoch'[d.origin[1]]
  <2>1. \A k \in Node : epoch'[k] \in Nat /\ epoch[k] <= epoch'[k]
    <3>1. epoch \in [Node -> 0..MaxWipes]
      BY DEF Sound
    <3>2. \A k \in Node : epoch'[k] = IF k = n THEN epoch[n] + 1 ELSE epoch[k]
      BY <1>1, <3>1
    <3>3. \A k \in Node : epoch[k] <= epoch[k] + 1 /\ epoch[k] + 1 \in Nat /\ epoch[k] <= epoch[k]
      BY <1>2
    <3> QED
      BY <1>2, <3>2, <3>3
  <2> TAKE d \in posted'
  <2>2. d \in posted /\ d.origin[2] <= epoch[d.origin[1]]
    BY <1>1 DEF Unique
  <2> QED
    BY <1>2, <1>3, <2>1, <2>2
<1>5. ASSUME NEW k \in Node, NEW d \in posted', d.origin = Self(k)'
      PROVE  d.seq <= log'[k].vv[Self(k)']
  <2>1. CASE k = n
    <3>1. d.origin[1] = n /\ d.origin[2] = epoch[n] + 1
      BY <1>1, <1>5, <2>1 DEF Self, Sound
    <3>2. d.origin[2] <= epoch[n]
      BY <1>1, <3>1 DEF Unique
    <3> QED
      BY <1>2, <3>1, <3>2
  <2>2. CASE k # n
    <3>1. Self(k)' = Self(k) /\ log'[k] = log[k]
      BY <1>1, <2>2 DEF Self, Sound
    <3> QED
      BY <1>1, <1>5, <3>1 DEF Unique
  <2> QED
    BY <2>1, <2>2
<1> QED
  BY <1>1, <1>4, <1>5 DEF Unique

LEMMA ReloadUnique ==
  ASSUME Sound, Unique, ReopensWhole, NEW k \in Node, Reload(k)
  PROVE  Unique'
<1>1. posted' = posted /\ epoch' = epoch /\ \A n \in Node \ {k} : log'[n] = log[n]
  BY DEF Reload, Restart, Sound
<1>2. \A n \in Node : Self(n)' = Self(n)
  BY <1>1 DEF Self
<1>3. ASSUME NEW n \in Node, NEW c \in posted, c.origin = Self(n)
      PROVE  c.seq <= log'[n].vv[Self(n)]
  <2>1. CASE n = k
    BY <1>3, <2>1 DEF ReopensWhole
  <2>2. CASE n # k
    BY <1>1, <1>3, <2>2 DEF Unique
  <2> QED
    BY <2>1, <2>2
<1> QED
  BY <1>1, <1>2, <1>3 DEF Unique

LEMMA UniqueNext ==
  ASSUME Sound, Sound', Unique, [ReopensWhole]_vars, [Next]_vars
  PROVE  Unique'
<1>1. ASSUME NEW k \in Node, NEW m \in Node, LinkStep(k, m) \/ SyncStep(k, m) PROVE Unique'
  BY <1>1, SameLogUnique DEF LinkStep, Connect, Disconnect, RemovePeer,
     SyncStep, HandleSyncReq, HandleChatDelta, DropLongFrame, AntiEntropy
<1>2. ASSUME NEW k \in Node, WriteDone(k) \/ Commit(k) \/ Abort(k) PROVE Unique'
  BY <1>2, SameLogUnique DEF WriteDone, Commit, Abort
<1>3. ASSUME NEW k \in Node, NEW e \in signing[k], SignDone(k, e) PROVE Unique'
  <2>1. \A n \in Node : log'[n].vv = log[n].vv
    BY <1>3 DEF SignDone, SetSigned, Sound, KnownLog
  <2>2. \A n \in Node : \A o \in Origin : log[n].vv[o] \in Nat
    BY DEF Sound, KnownLog
  <2>3. posted' = posted /\ epoch' = epoch
    BY <1>3 DEF SignDone
  <2> QED
    BY <2>1, <2>2, <2>3, UniqueKept
<1>4. ASSUME NEW k \in Node, NEW job \in verifying[k], VerifyDone(k, job) PROVE Unique'
  <2> DEFINE good == {e \in job.batch : e.signed}
  <2>1. good \in SUBSET Known
    BY DEF Sound, KnownJob
  <2>2. log' = [log EXCEPT ![k] = Merge(log[k], good)]
    BY <1>4 DEF VerifyDone
  <2>3. \A n \in Node : log[n] \in KnownLog
    BY DEF Sound
  <2>4. \A o \in Origin : Merge(log[k], good).vv[o] >= log[k].vv[o]
    BY <2>1, <2>3, MergeKnown
  <2>5. \A n \in Node : \A o \in Origin : log[n].vv[o] \in Nat
    BY DEF Sound, KnownLog
  <2>6. ASSUME NEW n \in Node, NEW o \in Origin PROVE log'[n].vv[o] >= log[n].vv[o]
    <3>1. log'[n] = IF n = k THEN Merge(log[k], good) ELSE log[n]
      BY <2>2 DEF Sound
    <3> QED
      BY <2>4, <2>5, <3>1
  <2>7. posted' = posted /\ epoch' = epoch
    BY <1>4 DEF VerifyDone
  <2> QED
    BY <2>6, <2>7, UniqueKept
<1>6. CASE UNCHANGED vars
  BY <1>6, SameLogUnique DEF vars
<1>5. ASSUME NEW k \in Node, Reload(k) PROVE Unique'
  BY <1>5, <1>6, ReloadUnique
<1> QED
  BY <1>1, <1>2, <1>3, <1>4, <1>5, <1>6, SendChatUnique, WipeUnique DEF Next, WriteStep

(* As long as tabs reopen whole, no two replicas ever hold different entries      *)
(* under one id, even when stores are lost: the epoch sees to it. The premise   *)
(* is needed: see found_id_reused.                                            *)
THEOREM EpochsKeepIdsUnique == Spec /\ [][ReopensWhole]_vars => []IdsUnique
<1>1. Sound /\ Unique => IdsUnique
  <2> SUFFICES ASSUME Sound, Unique, NEW n \in Node, NEW m \in Node,
                      NEW e \in log[n].entries, NEW f \in log[m].entries, Id(e) = Id(f)
               PROVE  Content(e) = Content(f)
    BY DEF IdsUnique
  <2>1. Content(e) \in posted /\ Content(f) \in posted
    BY DEF Sound, KnownLog, Known
  <2>2. /\ Content(e).origin = Content(f).origin
        /\ Content(e).seq = Content(f).seq
    BY DEF Id, Content
  <2> QED
    BY <2>1, <2>2 DEF Unique
<1>2. Sound /\ Unique /\ [ReopensWhole]_vars /\ [Next]_vars => Unique'
  BY SoundNext, UniqueNext
<1> QED
  BY <1>1, <1>2, UniqueInit, SoundAlways, PTL DEF Spec

-----------------------------------------------------------------------------
(* Signatures                                                                *)

(* Whatever a node holds of others is signed, in memory, on disk and on its way *)
(* there; what it signs is its own.                                           *)
Held(n, S) == \A e \in S : e.signed \/ e.origin[1] = n

Checked ==
  \A n \in Node :
    /\ Held(n, log[n].entries)
    /\ \A S \in Committed(n) : Held(n, S)
    /\ \A e \in signing[n] : e.origin[1] = n

LEMMA CheckedInit == Init => Checked
BY DEF Init, Checked, Held, Committed, EmptyLog

LEMMA LogChecked ==
  ASSUME Sound, Checked, NEW n \in Node, LogStep(n)
  PROVE  Held(n, log'[n].entries) /\ \A e \in signing'[n] : e.origin[1] = n
<1>1. log[n] \in KnownLog /\ Held(n, log[n].entries) /\ \A e \in signing[n] : e.origin[1] = n
  BY DEF Checked, Sound
<1>2. CASE Unchanged1(n)
  BY <1>1, <1>2 DEF Unchanged1
<1>3. CASE Appends(n)
  <2>1. NewEntry(log[n], Self(n), posts[n]).origin[1] = n
    BY DEF NewEntry, Self
  <2>2. log'[n].entries = log[n].entries \cup {NewEntry(log[n], Self(n), posts[n])}
    BY <1>3 DEF Appends, Append1
  <2> QED
    BY <1>1, <1>3, <2>1, <2>2 DEF Appends, Held
<1>4. CASE Signs(n)
  <2>1. PICK e \in signing[n] : /\ log'[n] = SetSigned(log[n], e)
                                /\ signing'[n] = signing[n] \ {e}
    BY <1>4 DEF Signs
  <2>2. [e EXCEPT !.signed = TRUE].signed
    BY <2>1 DEF Sound, Known, Entry
  <2>3. log'[n].entries = (log[n].entries \ {e}) \cup {[e EXCEPT !.signed = TRUE]}
    BY <1>1, <2>1 DEF SetSigned, KnownLog
  <2> QED
    BY <1>1, <2>1, <2>2, <2>3 DEF Held
<1>5. CASE Merges(n)
  <2>1. PICK delta \in SUBSET Known : (\A e \in delta : e.signed) /\ log'[n] = Merge(log[n], delta)
    BY <1>5 DEF Merges
  <2>2. log'[n].entries \subseteq log[n].entries \cup delta
    BY <1>1, <2>1, MergeKnown
  <2> QED
    BY <1>1, <1>5, <2>1, <2>2 DEF Merges, Held
<1>6. CASE Loads(n)
  <2>1. PICK stored \in Committed(n) \cup {{}} :
          stored \in SUBSET Known /\ log'[n] = FromJSON(Origin, stored)
    BY <1>6 DEF Loads
  <2>2. EmptyLog(Origin) \in KnownLog /\ EmptyLog(Origin).entries = {}
    BY DEF EmptyLog, KnownLog
  <2>3. log'[n].entries \subseteq stored
    BY <2>1, <2>2, MergeKnown DEF FromJSON
  <2>4. Held(n, stored)
    BY <2>1 DEF Checked, Held
  <2> QED
    BY <1>6, <2>3, <2>4 DEF Loads, Held
<1> QED
  BY <1>2, <1>3, <1>4, <1>5, <1>6 DEF LogStep

(* A put clones the log of the step: nothing else gets to the disk.            *)
LEMMA CommittedSteps ==
  ASSUME Sound, [Next]_vars, NEW n \in Node
  PROVE  \A S \in Committed(n)' : S \in Committed(n) \/ S = log'[n].entries \/ S = {}
<1> DEFINE Goal == \A S \in Committed(n)' : S \in Committed(n) \/ S = log'[n].entries \/ S = {}
<1>1. ASSUME disk'[n] = disk[n], writes'[n] = writes[n] PROVE Goal
  BY <1>1 DEF Committed
<1>2. ASSUME NEW w, w.snapshot = log'[n].entries, disk'[n] = disk[n],
             writes'[n] = Append(writes[n], w)
      PROVE  Goal
  <2>1. writes[n] \in Seq(KnownWrite)
    BY DEF Sound
  <2>2. \A i \in DOMAIN writes'[n] : \/ i \in DOMAIN writes[n] /\ writes'[n][i] = writes[n][i]
                                     \/ writes'[n][i] = w
    BY <1>2, <2>1
  <2> QED
    BY <1>2, <2>2 DEF Committed
<1>3. ASSUME NEW k \in Node, WriteDone(k) \/ Commit(k) \/ Abort(k) PROVE Goal
  <2>1. CASE n = k
    <3>1. writes[n] \in Seq(KnownWrite) /\ writes[n] # <<>>
      BY <1>3, <2>1 DEF Sound, WriteDone, Commit, Abort
    <3>2. /\ Head(writes[n]) = writes[n][1] /\ 1 \in DOMAIN writes[n]
          /\ \A i \in DOMAIN Tail(writes[n]) : /\ Tail(writes[n])[i] = writes[n][i + 1]
                                               /\ i + 1 \in DOMAIN writes[n]
      BY <3>1
    <3>3. CASE WriteDone(k)
      <4>1. disk'[n] = disk[n] /\ writes'[n] = Resolve(writes[n])
        BY <2>1, <3>3 DEF WriteDone, Sound
      <4> QED
        BY <3>1, <4>1, ResolveShape DEF Committed
    <3>4. CASE Commit(k) \/ Abort(k)
      <4>1. /\ disk'[n] \in {disk[n], writes[n][1].snapshot}
            /\ writes'[n] = Tail(writes[n])
        BY <2>1, <3>2, <3>4 DEF Commit, Abort, Sound
      <4> QED
        BY <3>2, <4>1 DEF Committed
    <3> QED
      BY <1>3, <3>3, <3>4
  <2>2. CASE n # k
    BY <1>1, <1>3, <2>2 DEF WriteDone, Commit, Abort, Sound
  <2> QED
    BY <2>1, <2>2
<1>4. ASSUME NEW k \in Node, NEW e \in signing[k], SignDone(k, e) PROVE Goal
  <2>1. CASE n = k
    <3> DEFINE w == [snapshot |-> SetSigned(log[n], e).entries,
                     out |-> {[e EXCEPT !.signed = TRUE]}, except |-> n,
                     resolved |-> FALSE]
    <3>1. log'[n] = SetSigned(log[n], e) /\ disk'[n] = disk[n]
      BY <1>4, <2>1 DEF SignDone, Sound
    <3>2. writes'[n] = Append(writes[n], w)
      BY <1>4, <2>1 DEF SignDone, Put, Sound
    <3>3. w.snapshot = log'[n].entries
      BY <3>1
    <3> HIDE DEF w
    <3> QED
      BY <1>2, <3>1, <3>2, <3>3
  <2>2. CASE n # k
    BY <1>1, <1>4, <2>2 DEF SignDone, Put, Sound
  <2> QED
    BY <2>1, <2>2
<1>5. ASSUME NEW k \in Node, NEW job \in verifying[k], VerifyDone(k, job) PROVE Goal
  <2>1. CASE writes' = writes
    BY <1>1, <1>5, <2>1 DEF VerifyDone
  <2>2. CASE n # k
    BY <1>1, <1>5, <2>2 DEF VerifyDone, Put, Sound
  <2>3. CASE n = k /\ writes' # writes
    BY <1>2, <1>5, <2>3 DEF VerifyDone, Put, Sound
  <2> QED
    BY <2>1, <2>2, <2>3
<1>6. ASSUME NEW k \in Node, NEW ep, NEW stored \in Committed(k) \cup {{}}, Restart(k, stored, ep)
      PROVE  Goal
  <2>1. CASE n = k
    <3>1. disk'[n] = stored /\ writes'[n] = <<>>
      BY <1>6, <2>1 DEF Restart, Sound
    <3> QED
      BY <1>6, <2>1, <3>1 DEF Committed
  <2>2. CASE n # k
    BY <1>1, <1>6, <2>2 DEF Restart, Sound
  <2> QED
    BY <2>1, <2>2
<1>7. ASSUME disk' = disk, writes' = writes PROVE Goal
  BY <1>1, <1>7
<1>8. ASSUME NEW k \in Node, NEW m \in Node, LinkStep(k, m) \/ SyncStep(k, m) PROVE Goal
  BY <1>7, <1>8 DEF LinkStep, Connect, Disconnect, RemovePeer,
     SyncStep, HandleSyncReq, HandleChatDelta, DropLongFrame, AntiEntropy
<1>9. ASSUME NEW k \in Node, SendChat(k) PROVE Goal
  BY <1>7, <1>9 DEF SendChat
<1>10. ASSUME NEW k \in Node, Reload(k) \/ Wipe(k) PROVE Goal
  BY <1>6, <1>10 DEF Reload, Wipe
<1>11. CASE UNCHANGED vars
  BY <1>7, <1>11 DEF vars
<1>12. ASSUME Next PROVE Goal
  <2>1. CASE \E k, m \in Node : LinkStep(k, m) \/ SyncStep(k, m)
    BY <2>1, <1>8
  <2>2. CASE \E k \in Node : WriteStep(k) \/ Reload(k) \/ Wipe(k)
    BY <2>2, <1>3, <1>4, <1>9, <1>10 DEF WriteStep
  <2>3. CASE \E k \in Node : \E job \in verifying[k] : VerifyDone(k, job)
    BY <2>3, <1>5
  <2> QED
    BY <1>12, <2>1, <2>2, <2>3 DEF Next
<1> QED
  BY <1>11, <1>12

LEMMA CheckedNext == Sound /\ Checked /\ [Next]_vars => Checked'
<1> SUFFICES ASSUME Sound, Checked, [Next]_vars, NEW n \in Node
             PROVE  /\ Held(n, log'[n].entries)
                    /\ \A S \in Committed(n)' : Held(n, S)
                    /\ \A e \in signing'[n] : e.origin[1] = n
  BY DEF Checked, Held
<1>1. Held(n, log'[n].entries) /\ \A e \in signing'[n] : e.origin[1] = n
  BY LogSteps, LogChecked
<1>2. \A S \in Committed(n)' : Held(n, S)
  BY <1>1, CommittedSteps DEF Checked, Held
<1> QED
  BY <1>1, <1>2

(* A replica shows only what was written, as it was written, and of others only *)
(* what they signed, through any loss, reordering, restart or loss of a store.  *)
THEOREM NothingIsInvented == Spec => []NothingInvented
<1>1. Sound /\ Checked => NothingInvented
  BY DEF Sound, Checked, Held, KnownLog, Known, NothingInvented
<1>2. Sound /\ Checked /\ [Next]_vars => Checked'
  BY CheckedNext
<1> QED
  BY <1>1, <1>2, CheckedInit, SoundAlways, PTL DEF Spec

-----------------------------------------------------------------------------
(* Clocks                                                                    *)

(* The clock of a replica is at least that of every entry it holds.            *)
Clocked == \A n \in Node : \A e \in log[n].entries : e.lamport <= log[n].lamport

LEMMA KnownClock ==
  ASSUME Sound, NEW l \in KnownLog, NEW delta \in SUBSET Known
  PROVE  /\ Merge(l, delta).lamport >= l.lamport
         /\ \A e \in Fresh(l, delta) : e.lamport <= Merge(l, delta).lamport
<1>1. PICK b \in Nat : \A e \in Known : e.seq <= b /\ e.lamport <= b
  BY KnownBounded
<1>2. Known \subseteq EntryType(Origin)
  BY EntryIsEntryType DEF Known
<1>3. l \in LogShape(Origin) /\ delta \in SUBSET EntryType(Origin)
  BY <1>2 DEF KnownLog, LogShape
<1>4. \A e \in delta : e.seq <= b /\ e.lamport <= b
  BY <1>1
<1> QED
  BY <1>3, <1>4, MergeClock

LEMMA ClockedMerge ==
  ASSUME Sound, NEW l \in KnownLog, NEW delta \in SUBSET Known,
         \A e \in l.entries : e.lamport <= l.lamport
  PROVE  \A e \in Merge(l, delta).entries : e.lamport <= Merge(l, delta).lamport
<1> DEFINE r == Merge(l, delta)
<1>1. /\ r \in KnownLog /\ r.entries = l.entries \cup Fresh(l, delta)
      /\ r.lamport >= l.lamport /\ \A e \in Fresh(l, delta) : e.lamport <= r.lamport
  BY MergeKnown, KnownClock
<1> HIDE DEF r
<1>2. l.lamport \in Nat /\ r.lamport \in Nat /\ \A e \in r.entries : e.lamport \in Nat
  BY <1>1 DEF KnownLog, Known, Entry
<1>3. \A e \in r.entries : e.lamport <= r.lamport
  BY <1>1, <1>2
<1> QED
  BY <1>3 DEF r

LEMMA ClockedNext == Sound /\ Exact /\ Clocked /\ [Next]_vars => Clocked'
<1> SUFFICES ASSUME Sound, Exact, Clocked, [Next]_vars, NEW n \in Node
             PROVE  \A e \in log'[n].entries : e.lamport <= log'[n].lamport
  BY DEF Clocked
<1>1. /\ log[n] \in KnownLog /\ \A e \in log[n].entries : e.lamport <= log[n].lamport
      /\ log[n].lamport \in Nat /\ \A e \in log[n].entries : e.lamport \in Nat
  BY DEF Clocked, Sound, KnownLog, Known, Entry
<1>2. CASE Unchanged1(n)
  BY <1>1, <1>2 DEF Unchanged1
<1>3. CASE Appends(n)
  <2> DEFINE e == NewEntry(log[n], Self(n), posts[n])
  <2>1. log'[n].entries = log[n].entries \cup {e} /\ log'[n].lamport = e.lamport
    BY <1>3 DEF Appends, Append1
  <2>2. e.lamport = log[n].lamport + 1
    BY DEF NewEntry
  <2> HIDE DEF e
  <2> QED
    BY <1>1, <2>1, <2>2
<1>4. CASE Signs(n)
  <2>1. PICK e \in signing[n] : log'[n] = SetSigned(log[n], e)
    BY <1>4 DEF Signs
  <2>2. e \in log[n].entries /\ [e EXCEPT !.signed = TRUE].lamport = e.lamport
    BY DEF Exact, Sound, Known, Entry
  <2>3. /\ log'[n].entries = (log[n].entries \ {e}) \cup {[e EXCEPT !.signed = TRUE]}
        /\ log'[n].lamport = log[n].lamport
    BY <1>1, <2>1 DEF SetSigned, KnownLog
  <2> QED
    BY <1>1, <2>2, <2>3
<1>5. CASE Merges(n)
  BY <1>1, <1>5, ClockedMerge DEF Merges
<1>6. CASE Loads(n)
  <2>1. PICK stored \in SUBSET Known : log'[n] = FromJSON(Origin, stored)
    BY <1>6 DEF Loads
  <2>2. EmptyLog(Origin) \in KnownLog /\ EmptyLog(Origin).entries = {}
    BY DEF EmptyLog, KnownLog
  <2> QED
    BY <2>1, <2>2, ClockedMerge DEF FromJSON
<1> QED
  BY <1>2, <1>3, <1>4, <1>5, <1>6, LogSteps DEF LogStep

(* A step posts, loses a store, reloads, or moves on in some logs.               *)
LEMMA CalmSteps ==
  ASSUME Sound, [Next]_vars
  PROVE  \/ \E k \in Node : SendChat(k) \/ Wipe(k)
         \/ \E k \in Node : Reload(k) /\ ~UNCHANGED vars
         \/ /\ posted' = posted /\ epoch' = epoch
            /\ \A n \in Node : Unchanged1(n) \/ Signs(n) \/ Merges(n)
<1> DEFINE Goes(n) == Unchanged1(n) \/ Signs(n) \/ Merges(n)
<1>1. ASSUME posted' = posted, epoch' = epoch, log' = log, signing' = signing
      PROVE  posted' = posted /\ epoch' = epoch /\ \A n \in Node : Goes(n)
  BY <1>1 DEF Unchanged1
<1>2. ASSUME NEW k \in Node, NEW m \in Node, LinkStep(k, m) \/ SyncStep(k, m)
      PROVE  posted' = posted /\ epoch' = epoch /\ \A n \in Node : Goes(n)
  BY <1>1, <1>2 DEF LinkStep, Connect, Disconnect, RemovePeer,
     SyncStep, HandleSyncReq, HandleChatDelta, DropLongFrame, AntiEntropy
<1>3. ASSUME NEW k \in Node, WriteDone(k) \/ Commit(k) \/ Abort(k)
      PROVE  posted' = posted /\ epoch' = epoch /\ \A n \in Node : Goes(n)
  BY <1>1, <1>3 DEF WriteDone, Commit, Abort
<1>4. ASSUME NEW k \in Node, NEW e \in signing[k], SignDone(k, e)
      PROVE  posted' = posted /\ epoch' = epoch /\ \A n \in Node : Goes(n)
  <2>1. ASSUME NEW n \in Node PROVE Goes(n)
    <3>1. CASE n = k
      BY <1>4, <3>1 DEF Sound, SignDone, Signs
    <3>2. CASE n # k
      BY <1>4, <3>2 DEF Sound, SignDone, Unchanged1
    <3> QED
      BY <3>1, <3>2
  <2> QED
    BY <1>4, <2>1 DEF SignDone
<1>5. ASSUME NEW k \in Node, NEW job \in verifying[k], VerifyDone(k, job)
      PROVE  posted' = posted /\ epoch' = epoch /\ \A n \in Node : Goes(n)
  <2>1. ASSUME NEW n \in Node PROVE Goes(n)
    <3>1. CASE n = k
      <4> DEFINE good == {e \in job.batch : e.signed}
      <4>1. good \in SUBSET Known /\ \A e \in good : e.signed
        BY DEF Sound, KnownJob
      <4>2. log'[n] = Merge(log[n], good) /\ signing'[n] = signing[n]
        BY <1>5, <3>1 DEF VerifyDone, Sound
      <4> QED
        BY <4>1, <4>2 DEF Merges
    <3>2. CASE n # k
      BY <1>5, <3>2 DEF Sound, VerifyDone, Unchanged1
    <3> QED
      BY <3>1, <3>2
  <2> QED
    BY <1>5, <2>1 DEF VerifyDone
<1>6. CASE UNCHANGED vars
  BY <1>1, <1>6 DEF vars
<1> QED
  BY <1>2, <1>3, <1>4, <1>5, <1>6 DEF Next, WriteStep

(* Of two entries posted under one replica id, the later has the larger clock;   *)
(* the clock of the replica is at least that of all it posted under its id.    *)
Ascending ==
  /\ \A c, d \in posted : c.origin = d.origin /\ c.seq < d.seq => c.lamport < d.lamport
  /\ \A n \in Node : \A c \in posted : c.origin = Self(n) => c.lamport <= log[n].lamport

LEMMA AscendingInit == Init => Ascending
BY DEF Init, Ascending

LEMMA SendChatAscending ==
  ASSUME Sound, Unique, Ascending, NEW k \in Node, SendChat(k)
  PROVE  Ascending'
<1> DEFINE e == NewEntry(log[k], Self(k), posts[k])
           p == Content(e)
<1>1. /\ posted' = posted \cup {p} /\ epoch' = epoch
      /\ log' = [log EXCEPT ![k] = Append1(log[k], e)]
  BY DEF SendChat
<1>2. p.origin = Self(k) /\ p.seq = log[k].vv[Self(k)] + 1 /\ p.lamport = log[k].lamport + 1
  BY DEF NewEntry, Content
<1>3. log'[k].lamport = p.lamport
  BY <1>1, <1>2 DEF Sound, Append1, NewEntry
<1>4. \A n \in Node \ {k} : log'[n] = log[n]
  BY <1>1 DEF Sound
<1>5. /\ \A n \in Node : Self(n) \in Origin /\ Self(n)' = Self(n) /\ Self(n)[1] = n
      /\ log[k].lamport \in Nat /\ log[k].vv[Self(k)] \in Nat
  BY <1>1 DEF Sound, Self, Origin, KnownLog
<1>6. \A d \in posted : d.seq \in Nat /\ d.lamport \in Nat
  BY DEF Sound, ContentType
<1> HIDE DEF e, p
<1>7. \A d \in posted : d.origin = p.origin => d.seq < p.seq /\ d.lamport < p.lamport
  BY <1>2, <1>5, <1>6 DEF Unique, Ascending
<1>8. ASSUME NEW c \in posted', NEW d \in posted', c.origin = d.origin, c.seq < d.seq
      PROVE  c.lamport < d.lamport
  <2>1. CASE c \in posted /\ d \in posted
    BY <1>8, <2>1 DEF Ascending
  <2>2. CASE c \in posted /\ d = p
    BY <1>7, <1>8, <2>2
  <2>3. CASE c = p
    <3>1. d # p
      BY <1>2, <1>5, <1>8, <2>3
    <3>2. d \in posted /\ d.seq < p.seq /\ d.seq \in Nat /\ p.seq \in Nat
      BY <1>1, <1>2, <1>5, <1>6, <1>7, <1>8, <2>3, <3>1
    <3> QED
      BY <1>8, <2>3, <3>2
  <2> QED
    BY <1>1, <2>1, <2>2, <2>3
<1>9. ASSUME NEW n \in Node, NEW c \in posted', c.origin = Self(n)
      PROVE  c.lamport <= log'[n].lamport
  <2>1. CASE n = k
    BY <1>1, <1>2, <1>3, <1>5, <1>6, <1>7, <1>9, <2>1
  <2>2. CASE n # k
    <3>1. c # p
      BY <1>2, <1>5, <1>9, <2>2
    <3> QED
      BY <1>1, <1>4, <1>9, <2>2, <3>1 DEF Ascending
  <2> QED
    BY <2>1, <2>2
<1> QED
  BY <1>5, <1>8, <1>9 DEF Ascending

LEMMA WipeAscending ==
  ASSUME Sound, Unique, Ascending, NEW k \in Node, Wipe(k)
  PROVE  Ascending'
<1>1. /\ posted' = posted
      /\ epoch' = [epoch EXCEPT ![k] = epoch[k] + 1]
      /\ \A n \in Node \ {k} : log'[n] = log[n]
  BY DEF Wipe, Restart, Sound
<1>2. ASSUME NEW n \in Node, NEW c \in posted', c.origin = Self(n)'
      PROVE  c.lamport <= log'[n].lamport
  <2>1. CASE n = k
    <3>1. c.origin[1] = n /\ c.origin[2] = epoch[n] + 1 /\ epoch[n] \in Nat
      BY <1>1, <1>2, <2>1 DEF Self, Sound
    <3>2. c.origin[2] <= epoch[n]
      BY <1>1, <3>1 DEF Unique
    <3> QED
      BY <3>1, <3>2
  <2>2. CASE n # k
    <3>1. Self(n)' = Self(n) /\ log'[n] = log[n]
      BY <1>1, <2>2 DEF Self, Sound
    <3> QED
      BY <1>1, <1>2, <3>1 DEF Ascending
  <2> QED
    BY <2>1, <2>2
<1> QED
  BY <1>1, <1>2 DEF Ascending

(* The last entry that a tab finds of its own has the largest clock.             *)
LEMMA ReloadAscending ==
  ASSUME Sound, Sound', Unique, Ascending, Exact', Clocked', ReopensWhole,
         NEW k \in Node, Reload(k)
  PROVE  Ascending'
<1>1. posted' = posted /\ epoch' = epoch /\ \A n \in Node \ {k} : log'[n] = log[n]
  BY DEF Reload, Restart, Sound
<1>2. \A n \in Node : Self(n)' = Self(n) /\ Self(n) \in Origin
  BY <1>1 DEF Self, Sound, Origin
<1>3. ASSUME NEW c \in posted, c.origin = Self(k)
      PROVE  c.lamport <= log'[k].lamport
  <2>1. c.seq <= log'[k].vv[Self(k)]
    BY <1>3 DEF ReopensWhole
  <2>2. log'[k] \in KnownLog'
    BY DEF Sound
  <2>3. log'[k].vv[Self(k)] \in Nat /\ log'[k].lamport \in Nat /\ c.seq \in Nat \ {0}
    BY <1>2, <2>2 DEF KnownLog, Sound, ContentType
  <2>4. PICK e \in log'[k].entries : e.origin = Self(k) /\ e.seq = log'[k].vv[Self(k)]
    BY <1>2, <2>1, <2>3 DEF Exact, VersionVectorExact
  <2>5. Content(e) \in posted
    BY <1>1, <2>2 DEF KnownLog, Known
  <2>6. /\ Content(e).origin = Self(k) /\ Content(e).seq = log'[k].vv[Self(k)]
        /\ Content(e).lamport = e.lamport
    BY <2>4 DEF Content
  <2>7. e.lamport <= log'[k].lamport
    BY DEF Clocked
  <2>8. c.lamport \in Nat /\ e.lamport \in Nat
    BY <2>5, <2>6 DEF Sound, ContentType
  <2>9. CASE c.seq = Content(e).seq
    <3>1. c = Content(e)
      BY <1>3, <2>5, <2>6, <2>9 DEF Unique
    <3> QED
      BY <2>6, <2>7, <3>1
  <2>10. CASE c.seq < Content(e).seq
    <3>1. c.lamport < Content(e).lamport
      BY <1>3, <2>5, <2>6, <2>10 DEF Ascending
    <3> QED
      BY <2>3, <2>6, <2>7, <2>8, <3>1
  <2> QED
    BY <2>1, <2>3, <2>6, <2>9, <2>10
<1>4. ASSUME NEW n \in Node, NEW c \in posted, c.origin = Self(n)
      PROVE  c.lamport <= log'[n].lamport
  <2>1. CASE n = k
    BY <1>3, <1>4, <2>1
  <2>2. CASE n # k
    BY <1>1, <1>4, <2>2 DEF Ascending
  <2> QED
    BY <2>1, <2>2
<1> QED
  BY <1>1, <1>2, <1>4 DEF Ascending

LEMMA AscendingNext ==
  ASSUME Sound, Sound', Unique, Ascending, Exact', Clocked',
         [ReopensWhole]_vars, [Next]_vars
  PROVE  Ascending'
<1>1. ASSUME posted' = posted, epoch' = epoch,
             \A n \in Node : Unchanged1(n) \/ Signs(n) \/ Merges(n)
      PROVE  Ascending'
  <2>1. ASSUME NEW n \in Node PROVE log'[n].lamport >= log[n].lamport /\ log'[n].lamport \in Int
    <3>1. log[n] \in KnownLog /\ log[n].lamport \in Nat
      BY DEF Sound, KnownLog
    <3>2. CASE Unchanged1(n)
      BY <3>1, <3>2 DEF Unchanged1
    <3>3. CASE Signs(n)
      BY <3>1, <3>3 DEF Signs, SetSigned, KnownLog
    <3>4. CASE Merges(n)
      <4>1. PICK delta \in SUBSET Known : log'[n] = Merge(log[n], delta)
        BY <3>4 DEF Merges
      <4>2. Merge(log[n], delta) \in KnownLog /\ Merge(log[n], delta).lamport >= log[n].lamport
        BY <3>1, MergeKnown, KnownClock
      <4> QED
        BY <4>1, <4>2 DEF KnownLog
    <3> QED
      BY <1>1, <3>2, <3>3, <3>4
  <2>2. \A n \in Node : Self(n)' = Self(n)
    BY <1>1 DEF Self
  <2>3. ASSUME NEW n \in Node, NEW c \in posted, c.origin = Self(n)
        PROVE  c.lamport <= log'[n].lamport
    <3>1. c.lamport <= log[n].lamport
      BY <2>3 DEF Ascending
    <3>2. c.lamport \in Nat /\ log[n].lamport \in Nat
      BY DEF Sound, ContentType, KnownLog
    <3> QED
      BY <2>1, <3>1, <3>2
  <2> QED
    BY <1>1, <2>2, <2>3 DEF Ascending
<1>2. ASSUME NEW k \in Node, Reload(k), ~UNCHANGED vars PROVE Ascending'
  BY <1>2, ReloadAscending
<1> QED
  BY <1>1, <1>2, CalmSteps, SendChatAscending, WipeAscending

(* As long as tabs reopen whole, the clock orders the entries of every replica    *)
(* as their sequence numbers do, whoever holds them: the oldest entries of a     *)
(* long delta are then a prefix of each replica.                               *)
THEOREM ClockFollowsSeq == Spec /\ [][ReopensWhole]_vars => []SeqFollowsClock
<1>1. Sound /\ Ascending => SeqFollowsClock
  <2> SUFFICES ASSUME Sound, Ascending, NEW n \in Node, NEW m \in Node,
                      NEW e \in log[n].entries, NEW f \in log[m].entries,
                      e.origin = f.origin, e.seq < f.seq
               PROVE  e.lamport < f.lamport
    BY DEF SeqFollowsClock
  <2>1. Content(e) \in posted /\ Content(f) \in posted
    BY DEF Sound, KnownLog, Known
  <2>2. Content(e).lamport < Content(f).lamport
    BY <2>1 DEF Ascending, Content
  <2> QED
    BY <2>2 DEF Content
<1>2. Sound /\ Unique /\ [ReopensWhole]_vars /\ [Next]_vars => Unique'
  BY SoundNext, UniqueNext
<1>3. Sound /\ Exact /\ Clocked /\ [Next]_vars => Exact' /\ Clocked'
  BY SoundNext, ExactNext, ClockedNext
<1>4. Sound /\ Unique /\ Ascending /\ Exact /\ Clocked /\ [ReopensWhole]_vars /\ [Next]_vars
        => Ascending'
  BY <1>3, SoundNext, AscendingNext
<1>5. Init => Unique /\ Exact /\ Clocked /\ Ascending
  BY UniqueInit, ExactInit, AscendingInit DEF Init, Clocked, EmptyLog
<1> QED
  BY <1>1, <1>2, <1>3, <1>4, <1>5, SoundAlways, PTL DEF Spec

-----------------------------------------------------------------------------
(* What has been saved stays                                                 *)

(* T has all that S has, and all signatures of S.                             *)
Covers(T, S) ==
  Contents(S) \subseteq Contents(T) /\ SignedContents(S) \subseteq SignedContents(T)

LEMMA CoversItself == \A S : Covers(S, S)
BY DEF Covers

LEMMA CoversMore ==
  ASSUME NEW R, NEW S, NEW T, Covers(S, R), Covers(T, S)
  PROVE  Covers(T, R)
BY DEF Covers

LEMMA CoversSubset ==
  ASSUME NEW S, NEW T, S \subseteq T
  PROVE  Covers(T, S)
BY DEF Covers, Contents, SignedContents

(* What a step can do to the store of one node, and to its log with it.        *)
Idle(n) ==
  /\ log'[n] = log[n] /\ signing'[n] = signing[n]
  /\ disk'[n] = disk[n] /\ writes'[n] = writes[n] /\ acked'[n] = acked[n]

Posts(n) ==
  Appends(n) /\ disk'[n] = disk[n] /\ writes'[n] = writes[n] /\ acked'[n] = acked[n]

(* The put of the step, if there is one, clones the log of the step.            *)
Puts(n) ==
  /\ \E w : /\ w.snapshot = log'[n].entries
            /\ Contents(w.out) \subseteq SignedContents(log'[n].entries)
            /\ writes'[n] = Append(writes[n], w)
  /\ disk'[n] = disk[n] /\ acked'[n] = acked[n]

SignsAndPuts(n) == Signs(n) /\ Puts(n)

MergesAndPuts(n) ==
  /\ Merges(n)
  /\ \/ Puts(n)
     \/ writes'[n] = writes[n] /\ disk'[n] = disk[n] /\ acked'[n] = acked[n]

(* The transaction of the oldest put moves on.                                 *)
Stores(n) ==
  LET w == Head(writes[n]) IN
  /\ log'[n] = log[n] /\ signing'[n] = signing[n] /\ writes[n] # <<>>
  /\ \/ /\ writes'[n] = Resolve(writes[n]) /\ disk'[n] = disk[n]
        /\ acked'[n] \subseteq acked[n] \cup Contents(w.out)
     \/ writes'[n] = Tail(writes[n]) /\ disk'[n] = w.snapshot /\ acked'[n] = acked[n]
     \/ /\ writes'[n] = Tail(writes[n]) /\ disk'[n] = disk[n]
        /\ acked'[n] \subseteq SignedContents(disk[n])

Reopens(n, stored) ==
  /\ log'[n] = FromJSON(Origin, stored) /\ signing'[n] = {}
  /\ disk'[n] = stored /\ writes'[n] = <<>>
  /\ acked'[n] \subseteq SignedContents(stored)

StoreStep(n) ==
  \/ Idle(n) \/ Posts(n) \/ SignsAndPuts(n) \/ MergesAndPuts(n) \/ Stores(n)
  \/ \E stored \in Committed(n) : Reopens(n, stored)
  \/ Reopens(n, {}) /\ epoch'[n] # epoch[n]

LEMMA NodeSteps ==
  ASSUME Sound, [Next]_vars, NEW n \in Node
  PROVE  StoreStep(n)
<1>0. /\ log \in [Node -> KnownLog] /\ signing \in [Node -> SUBSET Known]
      /\ disk \in [Node -> SUBSET Known] /\ writes \in [Node -> Seq(KnownWrite)]
      /\ acked \in [Node -> SUBSET ContentType] /\ epoch \in [Node -> 0..MaxWipes]
  BY DEF Sound
<1>1. ASSUME log' = log, signing' = signing, disk' = disk, writes' = writes, acked' = acked
      PROVE  StoreStep(n)
  BY <1>1 DEF StoreStep, Idle
<1>2. ASSUME NEW k \in Node, NEW m \in Node, LinkStep(k, m) \/ SyncStep(k, m) PROVE StoreStep(n)
  BY <1>1, <1>2 DEF LinkStep, Connect, Disconnect, RemovePeer,
     SyncStep, HandleSyncReq, HandleChatDelta, DropLongFrame, AntiEntropy
<1>3. ASSUME NEW k \in Node, SendChat(k) PROVE StoreStep(n)
  <2>1. CASE n = k
    <3>1. Appends(n)
      BY <1>0, <1>3, <2>1 DEF SendChat, Appends
    <3> QED
      BY <1>3, <3>1 DEF SendChat, StoreStep, Posts
  <2>2. CASE n # k
    BY <1>0, <1>3, <2>2 DEF SendChat, StoreStep, Idle
  <2> QED
    BY <2>1, <2>2
<1>4. ASSUME NEW k \in Node, NEW e \in signing[k], SignDone(k, e) PROVE StoreStep(n)
  <2>1. CASE n = k
    <3> DEFINE g == [e EXCEPT !.signed = TRUE]
               w == [snapshot |-> SetSigned(log[n], e).entries, out |-> {g},
                     except |-> n, resolved |-> FALSE]
    <3>1. /\ log'[n] = SetSigned(log[n], e) /\ signing'[n] = signing[n] \ {e}
          /\ disk'[n] = disk[n] /\ acked'[n] = acked[n]
      BY <1>0, <1>4, <2>1 DEF SignDone
    <3>2. writes'[n] = Append(writes[n], w)
      BY <1>0, <1>4, <2>1 DEF SignDone, Put
    <3>3. Signs(n)
      BY <2>1, <3>1 DEF Signs
    <3>4. g \in log'[n].entries /\ g.signed
      BY <1>0, <2>1, <3>1 DEF SetSigned, KnownLog, Known, Entry
    <3>5. w.snapshot = log'[n].entries /\ w.out = {g}
      BY <3>1
    <3> HIDE DEF g, w
    <3>6. Contents(w.out) \subseteq SignedContents(log'[n].entries)
      BY <3>4, <3>5 DEF Contents, SignedContents
    <3> QED
      BY <3>1, <3>2, <3>3, <3>5, <3>6 DEF SignsAndPuts, Puts, StoreStep
  <2>2. CASE n # k
    BY <1>0, <1>4, <2>2 DEF SignDone, Put, StoreStep, Idle
  <2> QED
    BY <2>1, <2>2
<1>5. ASSUME NEW k \in Node, NEW job \in verifying[k], VerifyDone(k, job) PROVE StoreStep(n)
  <2>1. CASE n = k
    <3> DEFINE good == {e \in job.batch : e.signed}
               w == [snapshot |-> Merge(log[n], good).entries, out |-> Fresh(log[n], good),
                     except |-> job.from, resolved |-> FALSE]
    <3>1. good \in SUBSET Known /\ \A e \in good : e.signed
      BY DEF Sound, KnownJob
    <3>2. log'[n] = Merge(log[n], good) /\ signing'[n] = signing[n]
      BY <1>0, <1>5, <2>1 DEF VerifyDone
    <3>3. Merges(n)
      BY <3>1, <3>2 DEF Merges
    <3>4. Fresh(log[n], good) \subseteq good /\ Fresh(log[n], good) \subseteq log'[n].entries
      <4>1. log[n] \in KnownLog
        BY <1>0
      <4>2. /\ Fresh(log[n], good) \subseteq good
            /\ Merge(log[n], good).entries = log[n].entries \cup Fresh(log[n], good)
        BY <3>1, <4>1, MergeKnown
      <4> HIDE DEF good
      <4> QED
        BY <3>2, <4>2
    <3>5. w.snapshot = log'[n].entries /\ w.out = Fresh(log[n], good)
      BY <3>2
    <3>6. writes'[n] = writes[n] \/ writes'[n] = Append(writes[n], w)
      BY <1>0, <1>5, <2>1 DEF VerifyDone, Put
    <3>7. disk'[n] = disk[n] /\ acked'[n] = acked[n]
      BY <1>5 DEF VerifyDone
    <3> HIDE DEF w
    <3>8. Contents(w.out) \subseteq SignedContents(log'[n].entries)
      BY <3>1, <3>4, <3>5 DEF Contents, SignedContents
    <3>9. MergesAndPuts(n)
      BY <3>3, <3>5, <3>6, <3>7, <3>8 DEF MergesAndPuts, Puts
    <3> QED
      BY <3>9 DEF StoreStep
  <2>2. CASE n # k
    BY <1>0, <1>5, <2>2 DEF VerifyDone, Put, StoreStep, Idle
  <2> QED
    BY <2>1, <2>2
<1>6. ASSUME NEW k \in Node, WriteDone(k) \/ Commit(k) \/ Abort(k) PROVE StoreStep(n)
  <2>1. CASE n = k
    <3>1. CASE WriteDone(k)
      BY <1>0, <2>1, <3>1 DEF WriteDone, Stores, StoreStep
    <3>2. CASE Commit(k)
      BY <1>0, <2>1, <3>2 DEF Commit, Stores, StoreStep
    <3>3. CASE Abort(k)
      BY <1>0, <2>1, <3>3 DEF Abort, Stores, StoreStep
    <3> QED
      BY <1>6, <3>1, <3>2, <3>3
  <2>2. CASE n # k
    BY <1>0, <1>6, <2>2 DEF WriteDone, Commit, Abort, StoreStep, Idle
  <2> QED
    BY <2>1, <2>2
<1>7. ASSUME NEW k \in Node, Reload(k) PROVE StoreStep(n)
  <2>1. PICK stored \in Committed(k) :
          /\ Restart(k, stored, epoch[k])
          /\ acked' = [acked EXCEPT ![k] = @ \cap SignedContents(stored)]
    BY <1>7 DEF Reload
  <2>2. CASE n = k
    <3>1. Reopens(n, stored)
      BY <1>0, <2>1, <2>2 DEF Restart, Reopens
    <3> QED
      BY <2>1, <2>2, <3>1 DEF StoreStep
  <2>3. CASE n # k
    BY <1>0, <2>1, <2>3 DEF Restart, StoreStep, Idle
  <2> QED
    BY <2>2, <2>3
<1>8. ASSUME NEW k \in Node, Wipe(k) PROVE StoreStep(n)
  <2>1. CASE n = k
    <3>1. Reopens(n, {})
      BY <1>0, <1>8, <2>1 DEF Wipe, Restart, Reopens
    <3>2. epoch'[n] = epoch[n] + 1 /\ epoch[n] \in Nat
      BY <1>0, <1>8, <2>1 DEF Wipe, Restart
    <3> QED
      BY <3>1, <3>2 DEF StoreStep
  <2>2. CASE n # k
    BY <1>0, <1>8, <2>2 DEF Wipe, Restart, StoreStep, Idle
  <2> QED
    BY <2>1, <2>2
<1>9. CASE UNCHANGED vars
  BY <1>1, <1>9 DEF vars
<1> QED
  BY <1>2, <1>3, <1>4, <1>5, <1>6, <1>7, <1>8, <1>9 DEF Next, WriteStep

(* The log covers the puts that have not ended, each of these the ones before    *)
(* it, and all of them the disk.                                              *)
Layered(n) ==
  /\ Covers(log[n].entries, disk[n])
  /\ \A i \in DOMAIN writes[n] : /\ Covers(writes[n][i].snapshot, disk[n])
                                 /\ Covers(log[n].entries, writes[n][i].snapshot)
  /\ \A i, j \in DOMAIN writes[n] :
       i < j => Covers(writes[n][j].snapshot, writes[n][i].snapshot)

(* What was sent is on disk, or in the put that has resolved.                   *)
Secured(n, c) ==
  \/ c \in SignedContents(disk[n])
  \/ /\ writes[n] # <<>> /\ writes[n][1].resolved
     /\ c \in SignedContents(writes[n][1].snapshot)

Saved(n) ==
  /\ \A e \in signing[n] : ~e.signed
  /\ Layered(n)
  /\ \A i \in DOMAIN writes[n] :
       Contents(writes[n][i].out) \subseteq SignedContents(writes[n][i].snapshot)
  /\ \A c \in acked[n] : Secured(n, c)

Grows(n) == Covers(log'[n].entries, log[n].entries)

LEMMA LogGrows ==
  ASSUME Sound, NEW n \in Node, Saved(n),
         Idle(n) \/ Posts(n) \/ Signs(n) \/ Merges(n)
  PROVE  Grows(n) /\ \A e \in signing'[n] : ~e.signed
<1>0. log[n] \in KnownLog /\ signing[n] \in SUBSET Known /\ \A e \in signing[n] : ~e.signed
  BY DEF Sound, Saved
<1>1. CASE Idle(n)
  BY <1>0, <1>1, CoversSubset DEF Idle, Grows
<1>2. CASE Posts(n)
  <2>1. log[n].entries \subseteq log'[n].entries
    BY <1>2 DEF Posts, Appends, Append1
  <2>2. ~NewEntry(log[n], Self(n), posts[n]).signed
    BY DEF NewEntry
  <2> QED
    BY <1>0, <1>2, <2>1, <2>2, CoversSubset DEF Posts, Appends, Grows
<1>3. CASE Signs(n)
  <2>1. PICK e \in signing[n] : log'[n] = SetSigned(log[n], e) /\ signing'[n] = signing[n] \ {e}
    BY <1>3 DEF Signs
  <2> DEFINE g == [e EXCEPT !.signed = TRUE]
  <2>2. log'[n].entries = (log[n].entries \ {e}) \cup {g}
    BY <1>0, <2>1 DEF SetSigned, KnownLog
  <2>3. e \in Entry /\ ~e.signed
    BY <1>0 DEF Known
  <2>4. Content(g) = Content(e)
    BY <2>3 DEF Content, Entry
  <2> HIDE DEF g
  <2>5. \A d \in log[n].entries : d.signed => d \in log'[n].entries
    BY <2>2, <2>3
  <2>6. \A d \in log[n].entries : \E f \in log'[n].entries : Content(f) = Content(d)
    BY <2>2, <2>4
  <2>7. Contents(log[n].entries) \subseteq Contents(log'[n].entries)
    BY <2>6 DEF Contents
  <2>8. SignedContents(log[n].entries) \subseteq SignedContents(log'[n].entries)
    BY <2>5 DEF SignedContents, Contents
  <2> QED
    BY <1>0, <2>1, <2>7, <2>8 DEF Grows, Covers
<1>4. CASE Merges(n)
  <2>1. PICK delta \in SUBSET Known : log'[n] = Merge(log[n], delta)
    BY <1>4 DEF Merges
  <2>2. log[n].entries \subseteq log'[n].entries
    BY <1>0, <2>1, MergeKnown
  <2> QED
    BY <1>0, <1>4, <2>2, CoversSubset DEF Merges, Grows
<1> QED
  BY <1>1, <1>2, <1>3, <1>4

(* Nothing is put.                                                            *)
LEMMA SavedKept ==
  ASSUME NEW n \in Node, Saved(n), Grows(n), \A e \in signing'[n] : ~e.signed,
         disk'[n] = disk[n], writes'[n] = writes[n], acked'[n] = acked[n]
  PROVE  Saved(n)'
<1>1. Layered(n)'
  BY CoversMore DEF Saved, Layered, Grows
<1>2. \A c \in acked'[n] : Secured(n, c)'
  BY DEF Saved, Secured
<1> QED
  BY <1>1, <1>2 DEF Saved

(* A put clones the log of the moment.                                         *)
LEMMA SavedPut ==
  ASSUME Sound, NEW n \in Node, Saved(n), Grows(n), \A e \in signing'[n] : ~e.signed, Puts(n)
  PROVE  Saved(n)'
<1>0. writes[n] \in Seq(KnownWrite)
  BY DEF Sound
<1>1. PICK w : /\ w.snapshot = log'[n].entries
               /\ Contents(w.out) \subseteq SignedContents(log'[n].entries)
               /\ writes'[n] = Append(writes[n], w)
  BY DEF Puts
<1> DEFINE len == Len(writes[n])
<1>2. /\ DOMAIN writes[n] = 1..len /\ len \in Nat /\ DOMAIN writes'[n] = 1..(len + 1)
      /\ \A i \in 1..len : writes'[n][i] = writes[n][i]
      /\ writes'[n][len + 1] = w
  BY <1>0, <1>1
<1>3. \A i \in DOMAIN writes'[n] : i = len + 1 \/ i \in 1..len
  BY <1>2
<1> HIDE DEF len
<1>4. Layered(n) /\ disk'[n] = disk[n] /\ acked'[n] = acked[n]
  BY DEF Saved, Puts
<1>5. Covers(log'[n].entries, disk[n])
  BY <1>4, CoversMore DEF Layered, Grows
<1>6. \A i \in 1..len : /\ Covers(writes[n][i].snapshot, disk[n])
                        /\ Covers(log'[n].entries, writes[n][i].snapshot)
  BY <1>2, <1>4, CoversMore DEF Layered, Grows
<1>7. \A i \in DOMAIN writes'[n] : /\ Covers(writes'[n][i].snapshot, disk[n])
                                   /\ Covers(log'[n].entries, writes'[n][i].snapshot)
  <2> TAKE i \in DOMAIN writes'[n]
  <2>1. CASE i \in 1..len
    BY <1>2, <1>6, <2>1
  <2>2. CASE i = len + 1
    BY <1>1, <1>2, <1>5, <2>2, CoversItself
  <2> QED
    BY <1>3, <2>1, <2>2
<1>8. ASSUME NEW i \in DOMAIN writes'[n], NEW j \in DOMAIN writes'[n], i < j
      PROVE  Covers(writes'[n][j].snapshot, writes'[n][i].snapshot)
  <2>1. i \in 1..len
    BY <1>2, <1>8
  <2>2. CASE j \in 1..len
    BY <1>2, <1>4, <1>8, <2>1, <2>2 DEF Layered
  <2>3. CASE j = len + 1
    BY <1>1, <1>2, <1>6, <2>1, <2>3
  <2> QED
    BY <1>3, <2>2, <2>3
<1>9. Layered(n)'
  BY <1>4, <1>5, <1>7, <1>8 DEF Layered
<1>10. ASSUME NEW i \in DOMAIN writes'[n]
       PROVE  Contents(writes'[n][i].out) \subseteq SignedContents(writes'[n][i].snapshot)
  <2>1. CASE i \in 1..len
    BY <1>2, <2>1 DEF Saved
  <2>2. CASE i = len + 1
    BY <1>1, <1>2, <2>2
  <2> QED
    BY <1>3, <2>1, <2>2
<1>11. ASSUME NEW c \in acked'[n] PROVE Secured(n, c)'
  <2>1. Secured(n, c)
    BY <1>4 DEF Saved
  <2>2. CASE c \in SignedContents(disk[n])
    BY <1>4, <2>2 DEF Secured
  <2>3. CASE writes[n] # <<>> /\ writes[n][1].resolved /\ c \in SignedContents(writes[n][1].snapshot)
    <3>1. 1 \in 1..len
      BY <1>0, <1>2, <2>3
    <3>2. writes'[n][1] = writes[n][1] /\ writes'[n] # <<>>
      BY <1>2, <3>1
    <3> QED
      BY <2>3, <3>2 DEF Secured
  <2> QED
    BY <2>1, <2>2, <2>3 DEF Secured
<1> QED
  BY <1>9, <1>10, <1>11 DEF Saved

(* The oldest transaction resolves, commits or fails.                           *)
LEMMA SavedStores ==
  ASSUME Sound, NEW n \in Node, Saved(n), Stores(n)
  PROVE  Saved(n)' /\ Covers(disk'[n], disk[n])
<1>0. /\ writes[n] \in Seq(KnownWrite) /\ writes[n] # <<>>
      /\ log'[n] = log[n] /\ signing'[n] = signing[n] /\ Layered(n)
  BY DEF Sound, Stores, Saved
<1> DEFINE w == Head(writes[n])
<1>1. w = writes[n][1] /\ 1 \in DOMAIN writes[n]
  BY <1>0
<1> HIDE DEF w
<1>2. CASE /\ writes'[n] = Resolve(writes[n]) /\ disk'[n] = disk[n]
           /\ acked'[n] \subseteq acked[n] \cup Contents(w.out)
  <2>1. /\ DOMAIN writes'[n] = DOMAIN writes[n] /\ writes'[n][1].resolved /\ writes'[n] # <<>>
        /\ \A i \in DOMAIN writes[n] : /\ writes'[n][i].snapshot = writes[n][i].snapshot
                                       /\ writes'[n][i].out = writes[n][i].out
    BY <1>0, <1>1, <1>2, ResolveShape
  <2>2. Layered(n)'
    BY <1>0, <1>2, <2>1 DEF Layered
  <2>3. \A i \in DOMAIN writes'[n] :
          Contents(writes'[n][i].out) \subseteq SignedContents(writes'[n][i].snapshot)
    BY <2>1 DEF Saved
  <2>4. ASSUME NEW c \in acked'[n] PROVE Secured(n, c)'
    <3>1. CASE c \in acked[n]
      BY <1>1, <1>2, <2>1, <3>1 DEF Saved, Secured
    <3>2. CASE c \in Contents(w.out)
      <4>1. c \in SignedContents(writes[n][1].snapshot)
        BY <1>1, <3>2 DEF Saved
      <4> QED
        BY <1>1, <2>1, <4>1 DEF Secured
    <3> QED
      BY <1>2, <3>1, <3>2
  <2> QED
    BY <1>0, <1>2, <2>2, <2>3, <2>4, CoversItself DEF Saved
<1>3. CASE writes'[n] = Tail(writes[n]) /\ disk'[n] \in {disk[n], w.snapshot}
           /\ \A c \in acked'[n] : c \in SignedContents(disk'[n])
  <2>1. /\ \A i \in DOMAIN writes'[n] : /\ i + 1 \in DOMAIN writes[n] /\ i \in Nat /\ 1 < i + 1
                                        /\ writes'[n][i] = writes[n][i + 1]
    BY <1>0, <1>3
  <2>2. Covers(log'[n].entries, disk'[n]) /\ Covers(disk'[n], disk[n])
    BY <1>0, <1>1, <1>3, CoversItself DEF Layered
  <2>3. \A i \in DOMAIN writes'[n] : /\ Covers(writes'[n][i].snapshot, disk'[n])
                                     /\ Covers(log'[n].entries, writes'[n][i].snapshot)
    BY <1>0, <1>1, <1>3, <2>1 DEF Layered
  <2>4. ASSUME NEW i \in DOMAIN writes'[n], NEW j \in DOMAIN writes'[n], i < j
        PROVE  Covers(writes'[n][j].snapshot, writes'[n][i].snapshot)
    <3>1. i + 1 < j + 1
      BY <2>1, <2>4
    <3> QED
      BY <1>0, <2>1, <3>1 DEF Layered
  <2>5. Layered(n)'
    BY <2>2, <2>3, <2>4 DEF Layered
  <2>6. \A i \in DOMAIN writes'[n] :
          Contents(writes'[n][i].out) \subseteq SignedContents(writes'[n][i].snapshot)
    BY <2>1 DEF Saved
  <2> QED
    BY <1>0, <1>3, <2>2, <2>5, <2>6 DEF Saved, Secured
<1>4. CASE writes'[n] = Tail(writes[n]) /\ disk'[n] = w.snapshot /\ acked'[n] = acked[n]
  <2>1. Covers(w.snapshot, disk[n])
    BY <1>0, <1>1 DEF Layered
  <2>2. \A c \in acked'[n] : c \in SignedContents(disk'[n])
    BY <1>1, <1>4, <2>1 DEF Saved, Secured, Covers
  <2> QED
    BY <1>3, <1>4, <2>2
<1>5. CASE /\ writes'[n] = Tail(writes[n]) /\ disk'[n] = disk[n]
           /\ acked'[n] \subseteq SignedContents(disk[n])
  BY <1>3, <1>5
<1> QED
  BY <1>2, <1>4, <1>5 DEF Stores, w

(* FromJSON is given a whole log back.                                         *)
LEMMA LoadedLog ==
  ASSUME Sound, NEW stored \in SUBSET Known
  PROVE  FromJSON(Origin, stored).entries = stored
<1>1. EmptyLog(Origin) \in KnownLog /\ EmptyLog(Origin).entries = {}
  BY DEF EmptyLog, KnownLog
<1>2. Fresh(EmptyLog(Origin), stored) = stored
  BY <1>1 DEF Fresh, Ids
<1>3. Merge(EmptyLog(Origin), stored).entries
        = EmptyLog(Origin).entries \cup Fresh(EmptyLog(Origin), stored)
  BY <1>1, MergeKnown
<1> QED
  BY <1>1, <1>2, <1>3 DEF FromJSON

LEMMA SavedReopen ==
  ASSUME Sound, NEW n \in Node, NEW stored \in SUBSET Known, Reopens(n, stored)
  PROVE  Saved(n)'
<1>1. log'[n].entries = stored
  BY LoadedLog DEF Reopens
<1> QED
  BY <1>1, CoversItself DEF Reopens, Saved, Layered, Secured

LEMMA SavedNext ==
  ASSUME Sound, [Next]_vars, NEW n \in Node, Saved(n)
  PROVE  Saved(n)' /\ (epoch'[n] = epoch[n] => Covers(disk'[n], disk[n]))
<1>1. CASE Idle(n)
  BY <1>1, LogGrows, SavedKept, CoversItself DEF Idle
<1>2. CASE Posts(n)
  BY <1>2, LogGrows, SavedKept, CoversItself DEF Posts
<1>3. CASE SignsAndPuts(n)
  BY <1>3, LogGrows, SavedPut, CoversItself DEF SignsAndPuts, Puts
<1>4. CASE MergesAndPuts(n)
  <2>1. Grows(n) /\ \A e \in signing'[n] : ~e.signed
    BY <1>4, LogGrows DEF MergesAndPuts
  <2>2. CASE Puts(n)
    BY <2>1, <2>2, SavedPut, CoversItself DEF Puts
  <2>3. CASE writes'[n] = writes[n] /\ disk'[n] = disk[n] /\ acked'[n] = acked[n]
    BY <2>1, <2>3, SavedKept, CoversItself
  <2> QED
    BY <1>4, <2>2, <2>3 DEF MergesAndPuts
<1>5. CASE Stores(n)
  BY <1>5, SavedStores
<1>6. ASSUME NEW stored \in Committed(n), Reopens(n, stored)
      PROVE  Saved(n)' /\ Covers(disk'[n], disk[n])
  <2>1. stored \in SUBSET Known
    BY CommittedKnown
  <2>2. Covers(stored, disk[n])
    BY CoversItself DEF Committed, Saved, Layered
  <2> QED
    BY <1>6, <2>1, <2>2, SavedReopen DEF Reopens
<1>7. CASE Reopens(n, {}) /\ epoch'[n] # epoch[n]
  BY <1>7, SavedReopen
<1> QED
  BY <1>1, <1>2, <1>3, <1>4, <1>5, <1>6, <1>7, NodeSteps DEF StoreStep

Safe == \A n \in Node : Saved(n)

LEMMA SafeInit == Init => Safe
<1> SUFFICES ASSUME Init, NEW n \in Node PROVE Saved(n)
  BY DEF Safe
<1>1. /\ log[n].entries = {} /\ disk[n] = {} /\ writes[n] = <<>>
      /\ signing[n] = {} /\ acked[n] = {}
  BY DEF Init, EmptyLog
<1> QED
  BY <1>1, CoversItself DEF Saved, Layered

LEMMA SafeNext == Sound /\ Safe /\ [Next]_vars => Safe'
BY SavedNext DEF Safe

LEMMA SafeAlways == Spec => []Safe
BY SafeInit, SafeNext, SoundAlways, PTL DEF Spec

(* What a user was told is sent is signed in the log, and on disk or in the one     *)
(* transaction about to commit, whatever puts overlap, resolve or fail and     *)
(* whenever the tab closes or crashes.                                         *)
THEOREM SentIsSavedAlways == Spec => []SentIsSaved
<1>1. Sound /\ Safe => SentIsSaved
  <2> SUFFICES ASSUME Sound, Safe, NEW n \in Node, NEW c \in acked[n]
               PROVE  /\ c \in SignedContents(log[n].entries)
                      /\ \/ c \in SignedContents(disk[n])
                         \/ /\ writes[n] # <<>> /\ Head(writes[n]).resolved
                            /\ c \in SignedContents(Head(writes[n]).snapshot)
    BY DEF SentIsSaved
  <2>1. Secured(n, c) /\ Layered(n) /\ writes[n] \in Seq(KnownWrite)
    BY DEF Sound, Safe, Saved
  <2>2. writes[n] # <<>> => Head(writes[n]) = writes[n][1] /\ 1 \in DOMAIN writes[n]
    BY <2>1
  <2>3. c \in SignedContents(log[n].entries)
    BY <2>1, <2>2 DEF Secured, Layered, Covers
  <2> QED
    BY <2>1, <2>2, <2>3 DEF Secured
<1> QED
  BY <1>1, SoundAlways, SafeAlways, PTL

(* What is signed on disk stays so for as long as the browser keeps its store.      *)
THEOREM SavedEntriesStay == Spec => SavedStays
<1>1. Sound /\ Safe /\ [Next]_vars => [StoreOnlyGrows]_vars
  BY SavedNext DEF Safe, StoreOnlyGrows, Covers
<1> QED
  BY <1>1, SoundAlways, SafeAlways, PTL DEF Spec, SavedStays

-----------------------------------------------------------------------------
(* The replicas implement the abstract log                                   *)

View == [n \in Node |-> Contents(log[n].entries)]

Kept == [n \in Node |-> Contents(disk[n])]

(* The log of one node changes.                                               *)
LEMMA ViewOfOne ==
  ASSUME NEW n \in Node, \A m \in Node \ {n} : log'[m] = log[m]
  PROVE  View' = [View EXCEPT ![n] = Contents(log'[n].entries)]
BY DEF View

LEMMA ViewUnchanged == ASSUME log' = log PROVE View' = View
BY DEF View

LEMMA KeptUnchanged == ASSUME disk' = disk PROVE Kept' = Kept
BY DEF Kept

LEMMA KeptOfOne ==
  ASSUME NEW n \in Node, \A m \in Node \ {n} : disk'[m] = disk[m]
  PROVE  Kept' = [Kept EXCEPT ![n] = Contents(disk'[n])]
BY DEF Kept

(* Sending takes an id nobody used.                                            *)
NewIds ==
  \A n \in Node :
    SendChat(n) => \A d \in posted : Promise!PId(d) # Id(NewEntry(log[n], Self(n), posts[n]))

LEMMA SendChatPosts ==
  ASSUME Sound, Clocked, NewIds, NEW n \in Node, SendChat(n)
  PROVE  Promise!Post(n)
<1> DEFINE e == NewEntry(log[n], Self(n), posts[n])
           c == Content(e)
<1>1. posted' = posted \cup {c} /\ Kept' = Kept /\ log' = [log EXCEPT ![n] = Append1(log[n], e)]
  BY KeptUnchanged DEF SendChat
<1>2. c.origin = Self(n) /\ c.lamport = log[n].lamport + 1 /\ c.seq = e.seq /\ e.origin = Self(n)
  BY DEF NewEntry, Content
<1>3. Self(n) \in Origin /\ Self(n)[1] = n
  BY DEF Sound, Self, Origin
<1>4. \A d \in posted : Promise!PId(d) # Promise!PId(c)
  <2>1. Promise!PId(c) = Id(e)
    BY <1>2 DEF Promise!PId, Id
  <2> QED
    BY <2>1 DEF NewIds
<1>5. c \notin posted
  BY <1>4
<1>6. /\ log'[n].entries = log[n].entries \cup {e}
      /\ \A m \in Node \ {n} : log'[m] = log[m]
  BY <1>1 DEF Sound, Append1
<1>7. Contents(log'[n].entries) = View[n] \cup {c}
  BY <1>6 DEF Contents, View
<1>8. \A d \in View[n] : d.lamport < c.lamport
  <2> SUFFICES ASSUME NEW f \in log[n].entries PROVE Content(f).lamport < c.lamport
    BY DEF View, Contents
  <2>1. f.lamport \in Nat /\ log[n].lamport \in Nat
    BY DEF Sound, KnownLog, Known, Entry
  <2> QED
    BY <1>2, <2>1 DEF Clocked, Content
<1> HIDE DEF e, c
<1>9. View' = [View EXCEPT ![n] = View[n] \cup {c}]
  BY <1>6, <1>7, ViewOfOne
<1> QED
  BY <1>1, <1>2, <1>3, <1>4, <1>5, <1>8, <1>9 DEF Promise!Post, View, Kept

(* Signing keeps contents.                                                     *)
LEMMA SignDoneHidden ==
  ASSUME Sound, Exact, NEW n \in Node, NEW e \in signing[n], SignDone(n, e)
  PROVE  View' = View /\ posted' = posted /\ Kept' = Kept
<1> DEFINE g == [e EXCEPT !.signed = TRUE]
<1>1. /\ log[n] \in KnownLog /\ e \in log[n].entries
      /\ log'[n] = SetSigned(log[n], e) /\ \A m \in Node \ {n} : log'[m] = log[m]
  BY DEF Sound, Exact, SignDone
<1>2. log'[n].entries = (log[n].entries \ {e}) \cup {g}
  BY <1>1 DEF SetSigned, KnownLog
<1>3. Content(g) = Content(e)
  BY <1>1 DEF KnownLog, Known, Entry, Content
<1> HIDE DEF g
<1>4. Contents(log'[n].entries) = Contents(log[n].entries)
  <2>1. \A d \in log[n].entries : \E f \in log'[n].entries : Content(f) = Content(d)
    BY <1>2, <1>3
  <2>2. \A f \in log'[n].entries : \E d \in log[n].entries : Content(f) = Content(d)
    BY <1>1, <1>2, <1>3
  <2> QED
    BY <2>1, <2>2 DEF Contents
<1>5. \A m \in Node : Contents(log'[m].entries) = Contents(log[m].entries)
  BY <1>1, <1>4
<1> QED
  BY <1>5, KeptUnchanged DEF View, SignDone

(* A transaction commits.                                                      *)
LEMMA CommitKeeps ==
  ASSUME Sound, Safe, NEW n \in Node, Commit(n)
  PROVE  Promise!Keep(n)
<1>1. writes[n] \in Seq(KnownWrite) /\ writes[n] # <<>> /\ Saved(n)
  BY DEF Sound, Safe, Commit
<1>2. Head(writes[n]) = writes[n][1] /\ 1 \in DOMAIN writes[n]
  BY <1>1
<1> DEFINE S == Head(writes[n]).snapshot
<1>3. Covers(S, disk[n]) /\ Covers(log[n].entries, S)
  BY <1>1, <1>2 DEF Saved, Layered
<1>4. disk'[n] = S /\ (\A m \in Node \ {n} : disk'[m] = disk[m]) /\ log' = log /\ posted' = posted
  BY DEF Commit, Sound
<1> HIDE DEF S
<1>5. Kept' = [Kept EXCEPT ![n] = Contents(S)] /\ View' = View
  BY <1>4, KeptOfOne, ViewUnchanged
<1>6. Contents(S) \in SUBSET View[n] /\ Kept[n] \subseteq Contents(S)
  BY <1>3 DEF Covers, View, Kept
<1> QED
  BY <1>4, <1>5, <1>6 DEF Promise!Keep, View, Kept

(* What is merged was posted.                                                  *)
LEMMA VerifyDoneLearns ==
  ASSUME Sound, NEW n \in Node, NEW job \in verifying[n], VerifyDone(n, job)
  PROVE  Promise!Learn(n)
<1> DEFINE good == {e \in job.batch : e.signed}
           news == Contents(Fresh(log[n], good))
<1>1. good \in SUBSET Known
  BY DEF Sound, KnownJob
<1>2. log[n] \in KnownLog /\ log'[n] = Merge(log[n], good) /\ \A m \in Node \ {n} : log'[m] = log[m]
  BY DEF Sound, VerifyDone
<1>3. /\ Fresh(log[n], good) \subseteq good
      /\ log'[n].entries = log[n].entries \cup Fresh(log[n], good)
  BY <1>1, <1>2, MergeKnown
<1>4. news \in SUBSET posted
  BY <1>1, <1>3 DEF Contents, Known
<1>5. Contents(log'[n].entries) = View[n] \cup news
  BY <1>3 DEF Contents, View
<1> HIDE DEF news
<1>6. View' = [View EXCEPT ![n] = View[n] \cup news]
  BY <1>2, <1>5, ViewOfOne
<1> QED
  BY <1>4, <1>6, KeptUnchanged DEF Promise!Learn, View, Kept, VerifyDone

LEMMA ReloadRecalls ==
  ASSUME Sound, Safe, NEW n \in Node, Reload(n)
  PROVE  Promise!Recall(n)
<1>1. PICK stored \in Committed(n) : Restart(n, stored, epoch[n])
  BY DEF Reload
<1>2. stored \in SUBSET Known
  BY CommittedKnown
<1>3. /\ log'[n] = FromJSON(Origin, stored) /\ \A m \in Node \ {n} : log'[m] = log[m]
      /\ disk'[n] = stored /\ \A m \in Node \ {n} : disk'[m] = disk[m]
      /\ posted' = posted
  BY <1>1 DEF Restart, Sound
<1>4. log'[n].entries = stored
  BY <1>2, <1>3, LoadedLog
<1>5. /\ View' = [View EXCEPT ![n] = Contents(stored)]
      /\ Kept' = [Kept EXCEPT ![n] = Contents(stored)]
  BY <1>3, <1>4, ViewOfOne, KeptOfOne
<1>6. Covers(log[n].entries, stored) /\ Covers(stored, disk[n])
  BY <1>1, CoversItself DEF Safe, Saved, Layered, Committed
<1>7. Contents(stored) \in SUBSET View[n] /\ Kept[n] \subseteq Contents(stored)
  BY <1>6 DEF Covers, View, Kept
<1> QED
  BY <1>3, <1>5, <1>7 DEF Promise!Recall, View, Kept

LEMMA WipeForgets ==
  ASSUME Sound, NEW n \in Node, Wipe(n)
  PROVE  Promise!Forget(n)
<1>1. /\ log'[n] = FromJSON(Origin, {}) /\ \A m \in Node \ {n} : log'[m] = log[m]
      /\ disk'[n] = {} /\ \A m \in Node \ {n} : disk'[m] = disk[m]
      /\ posted' = posted
  BY DEF Wipe, Restart, Sound
<1>2. Contents(log'[n].entries) = {} /\ Contents(disk'[n]) = {}
  BY <1>1, LoadedLog DEF Contents
<1>3. View' = [View EXCEPT ![n] = {}] /\ Kept' = [Kept EXCEPT ![n] = {}]
  BY <1>1, <1>2, ViewOfOne, KeptOfOne
<1> QED
  BY <1>1, <1>3 DEF Promise!Forget, View, Kept

LEMMA PromiseStep ==
  ASSUME Sound, Exact, Clocked, Safe, [NewIds]_vars, [Next]_vars
  PROVE  [Promise!Next]_(Promise!pvars)
<1>1. ASSUME View' = View, posted' = posted, Kept' = Kept PROVE UNCHANGED Promise!pvars
  BY <1>1 DEF Promise!pvars, View, Kept
<1>2. ASSUME NEW n \in Node, NEW m \in Node, LinkStep(n, m) \/ SyncStep(n, m)
      PROVE  UNCHANGED Promise!pvars
  BY <1>1, <1>2, ViewUnchanged, KeptUnchanged DEF LinkStep, Connect, Disconnect, RemovePeer,
     SyncStep, HandleSyncReq, HandleChatDelta, DropLongFrame, AntiEntropy
<1>3. ASSUME NEW n \in Node, SendChat(n) PROVE Promise!Next
  <2>1. posts' # posts
    BY <1>3 DEF SendChat, Sound
  <2>2. NewIds
    BY <2>1 DEF vars
  <2> QED
    BY <1>3, <2>2, SendChatPosts DEF Promise!Next
<1>4. ASSUME NEW n \in Node, NEW e \in signing[n], SignDone(n, e) PROVE UNCHANGED Promise!pvars
  BY <1>1, <1>4, SignDoneHidden
<1>5. ASSUME NEW n \in Node, WriteDone(n) \/ Commit(n) \/ Abort(n)
      PROVE  Promise!Next \/ UNCHANGED Promise!pvars
  <2>1. CASE WriteDone(n) \/ Abort(n)
    BY <1>1, <2>1, ViewUnchanged, KeptUnchanged DEF WriteDone, Abort
  <2> QED
    BY <1>5, <2>1, CommitKeeps DEF Promise!Next
<1>6. ASSUME NEW n \in Node, NEW job \in verifying[n], VerifyDone(n, job) PROVE Promise!Next
  BY <1>6, VerifyDoneLearns DEF Promise!Next
<1>7. ASSUME NEW n \in Node, Reload(n) \/ Wipe(n) PROVE Promise!Next
  BY <1>7, ReloadRecalls, WipeForgets DEF Promise!Next
<1>8. CASE UNCHANGED vars
  BY <1>1, <1>8, ViewUnchanged, KeptUnchanged DEF vars
<1> QED
  BY <1>2, <1>3, <1>4, <1>5, <1>6, <1>7, <1>8 DEF Next, WriteStep

LEMMA PromiseInit == Init => Promise!Init
BY DEF Init, Promise!Init, EmptyLog, Contents

(* The replicas implement the abstract log in every behaviour that uses no id     *)
(* twice, with any losses, crashes, failed puts and lost stores: each step is   *)
(* one that the promise allows, or is not seen.                                *)
THEOREM NewIdsImplementPromise == Spec /\ [][NewIds]_vars => ImplementsPromise
<1>1. Init => Exact /\ Clocked
  BY ExactInit DEF Init, Clocked, EmptyLog
<1>2. Sound /\ Exact /\ Clocked /\ [Next]_vars => Exact' /\ Clocked'
  BY SoundNext, ExactNext, ClockedNext
<1>3. Sound /\ Exact /\ Clocked /\ Safe /\ [NewIds]_vars /\ [Next]_vars
        => [Promise!Next]_(Promise!pvars)
  BY PromiseStep
<1> QED
  BY <1>1, <1>2, <1>3, PromiseInit, SoundAlways, SafeAlways, PTL
     DEF Spec, ImplementsPromise, Promise!Spec

(* Stores may be lost at will: as long as tabs reopen whole, ids are new, and the  *)
(* replicas implement the abstract log.                                        *)
THEOREM ReplicasImplementPromise == Spec /\ [][ReopensWhole]_vars => ImplementsPromise
<1>1. Sound /\ Unique => NewIds
  <2> SUFFICES ASSUME Sound, Unique, NEW n \in Node, NEW d \in posted
               PROVE  Promise!PId(d) # Id(NewEntry(log[n], Self(n), posts[n]))
    BY DEF NewIds
  <2>1. d.seq \in Nat /\ Self(n) \in Origin /\ log[n].vv[Self(n)] \in Nat
    <3>1. d.seq \in Nat
      BY DEF Sound, ContentType
    <3>2. Self(n) \in Origin
      BY DEF Sound, Self, Origin
    <3>3. log[n] \in KnownLog
      BY DEF Sound
    <3> QED
      BY <3>1, <3>2, <3>3 DEF KnownLog
  <2>2. d.origin = Self(n) => d.seq < log[n].vv[Self(n)] + 1
    BY <2>1 DEF Unique
  <2>3. Id(NewEntry(log[n], Self(n), posts[n])) = <<Self(n), log[n].vv[Self(n)] + 1>>
    BY DEF Id, NewEntry
  <2> QED
    BY <2>1, <2>2, <2>3 DEF Promise!PId
<1>2. Sound /\ Unique /\ [ReopensWhole]_vars /\ [Next]_vars => Unique'
  BY SoundNext, UniqueNext
<1>3. Spec /\ [][ReopensWhole]_vars => [][NewIds]_vars
  BY <1>1, <1>2, UniqueInit, SoundAlways, PTL DEF Spec
<1> QED
  BY <1>3, NewIdsImplementPromise, PTL
=============================================================================
