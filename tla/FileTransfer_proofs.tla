------------------------- MODULE FileTransfer_proofs -------------------------
(***************************************************************************)
(* Theorems about file transfer, for any number of peers with any copies, any *)
(* files and any number of downloads and faults.                             *)
(*                                                                          *)
(* Sound is the inductive invariant. What it adds to the three properties is  *)
(* what is on its way: a frame of a peer tells of that peer's copy, a run of   *)
(* serve() is inside the copy it streams, and bytes that wait to be hashed or  *)
(* stored are whole copies. A transfer counts no more than the copy has       *)
(* because every BLOB_META of one peer announces the same number of chunks.   *)
(***************************************************************************)
EXTENDS FileTransfer, FiniteSetTheorems, SequenceTheorems, TLAPS

(* What p may send.                                                          *)
PeerFrame(p) ==
  {f \in Frame :
     /\ f.t = "BLOB_META" => Copy[p][f.cid] # NoBlob /\ f.chunks = Len(Copy[p][f.cid])
     /\ f.t = "BLOB_CHUNK" =>
          /\ Copy[p][f.cid] # NoBlob
          /\ f.idx \in DOMAIN Copy[p][f.cid]
          /\ f.data = Copy[p][f.cid][f.idx]}

Run == [id : Nat, cid : Cid, next : Nat, cut : BOOLEAN]

PeerRun(p) ==
  {run \in Run :
     run.next > 0 => Copy[p][run.cid] # NoBlob /\ run.next \in DOMAIN Copy[p][run.cid]}

(* The transfer t of file c holds what its peer has.                           *)
Faithful(t, c) ==
  /\ t \in Transfer
  /\ t.total < 0 => t.received = 0 /\ t.chunks = <<>> /\ t.hashing = {}
  /\ t.total >= 0 =>
       /\ Copy[t.peer][c] # NoBlob
       /\ t.total = Len(Copy[t.peer][c])
       /\ Len(t.chunks) = t.total
       /\ t.received <= t.total
       /\ \A i \in 1..t.total : t.chunks[i] \in {Missing, Copy[t.peer][c][i]}
  /\ t.hashing \subseteq {Copy[t.peer][c]}

FileOK(x, t, b, c) ==
  /\ x \in Fetch
  /\ t # NoTransfer => Faithful(t, c) /\ x.at = "asking"
  /\ x.at = "storing" => x.bytes = Original(c)
  /\ b \in {NoBlob, Original(c)}

FetchOK ==
  /\ DOMAIN fetch = Cid /\ fetch = [c \in Cid |-> fetch[c]]
  /\ DOMAIN incoming = Cid /\ incoming = [c \in Cid |-> incoming[c]]
  /\ DOMAIN blobs = Cid /\ blobs = [c \in Cid |-> blobs[c]]
  /\ \A c \in Cid : FileOK(fetch[c], incoming[c], blobs[c], c)

NetOK ==
  /\ linked \subseteq Peer
  /\ toPeer \in [Peer -> Seq(Cid)]
  /\ toMe \in [Peer -> Seq(Frame)]
  /\ \A p \in Peer : \A i \in 1..Len(toMe[p]) : toMe[p][i] \in PeerFrame(p)
  /\ serving \in [Peer -> SUBSET Run]
  /\ \A p \in Peer : serving[p] \subseteq PeerRun(p) /\ IsFiniteSet(serving[p])

CountOK ==
  /\ score \in [Peer -> ScoreMin..ScoreMax]
  /\ stored \in [Peer -> ScoreMin..ScoreMax]
  /\ fetches \in 0..MaxFetches
  /\ faults \in 0..MaxFaults

Sound == FetchOK /\ NetOK /\ CountOK

-----------------------------------------------------------------------------
(* Values                                                                    *)

LEMMA ClampTyped ==
  ASSUME NEW s \in Int
  PROVE  Clamp(s) \in ScoreMin..ScoreMax
BY DEF Clamp, ScoreMin, ScoreMax

LEMMA RecordTyped ==
  ASSUME NEW s \in ScoreMin..ScoreMax,
         NEW ev \in {"connect", "file_served", "file_failed"}
  PROVE  Record(s, ev) \in ScoreMin..ScoreMax
<1>1. EventDeltas[ev] \in {20, 30, -30}
  BY DEF EventDeltas
<1>2. s + 1 * EventDeltas[ev] \in Int
  BY <1>1 DEF ScoreMin, ScoreMax
<1> QED
  BY <1>2, ClampTyped DEF Record, RecordTimes

LEMMA ReloadedTyped ==
  ASSUME NEW s \in ScoreMin..ScoreMax
  PROVE  Reloaded(s) \in ScoreMin..ScoreMax
BY DEF Reloaded, Decayed, ScoreMin, ScoreMax

LEMMA ChargeTyped ==
  ASSUME NEW s \in [Peer -> ScoreMin..ScoreMax], NEW peers,
         NEW ev \in {"connect", "file_served", "file_failed"}
  PROVE  Charge(s, peers, ev) \in [Peer -> ScoreMin..ScoreMax]
BY RecordTyped DEF Charge

LEMMA OriginalIsBlob == \A c \in Cid : Original(c) \in Blob /\ Original(c) # NoBlob
<1> SUFFICES ASSUME NEW c \in Cid PROVE Original(c) \in Blob /\ Original(c) # NoBlob
  OBVIOUS
<1>1. Size[c] \in Nat
  BY CopyAssumption
<1>2. Original(c) \in [1..Size[c] -> {"good", "bad"}]
  BY DEF Original
<1>3. Original(c) \in Blob
  BY <1>1, <1>2, SeqDef DEF Blob
<1> QED
  BY <1>3, CopyAssumption

LEMMA CopyTyped ==
  ASSUME NEW p \in Peer, NEW c \in Cid, Copy[p][c] # NoBlob
  PROVE  /\ Copy[p][c] \in Seq({"good", "bad"})
         /\ Copy[p][c] \in Blob
         /\ Len(Copy[p][c]) \in Nat
         /\ DOMAIN Copy[p][c] = 1..Len(Copy[p][c])
<1>1. Copy[p][c] \in Seq({"good", "bad"})
  BY CopyAssumption DEF Blob
<1> QED
  BY <1>1 DEF Blob

LEMMA FetchTyped ==
  /\ Idle \in Fetch /\ Idle.at = "idle"
  /\ Looking \in Fetch /\ Looking.at = "looking"
  /\ \A left \in Seq(Peer) : Asking(left) \in Fetch /\ Asking(left).at = "asking"
  /\ \A p \in Peer, bytes \in Blob, left \in Seq(Peer) :
       /\ Storing(p, bytes, left) \in Fetch
       /\ Storing(p, bytes, left).at = "storing"
       /\ Storing(p, bytes, left).bytes = bytes
  /\ \A x \in Fetch : x.at = "asking" => x.left \in Seq(Peer)
  /\ \A x \in Fetch : x.at = "storing" => x.left \in Seq(Peer) /\ x.peer \in Peer
BY DEF Fetch, Idle, Looking, Asking, Storing

LEMMA NewTransferFaithful ==
  ASSUME NEW p \in Peer, NEW c \in Cid
  PROVE  Faithful(NewTransfer(p), c)
<1>1. <<>> \in Seq({Missing, "good", "bad"})
  OBVIOUS
<1> QED
  BY <1>1 DEF Faithful, NewTransfer, Transfer

LEMMA LeastExists ==
  ASSUME NEW S \in SUBSET Nat, S # {}
  PROVE  \E i \in S : \A j \in S : i <= j
<1>1. \E u \in S : \A y \in S : ~(<<y, u>> \in OpToRel(<, Nat))
  BY WFMin, NatLessThanWellFounded
<1>2. PICK u \in S : \A y \in S : ~(y < u)
  BY <1>1 DEF OpToRel
<1> QED
  BY <1>2

LEMMA RankedTyped ==
  ASSUME NEW peers \in SUBSET Peer, NEW s \in Ranked(peers)
  PROVE  s \in Seq(Peer)
<1>1. Cardinality(peers) \in Nat
  BY PeerAssumption, FS_Subset, FS_CardinalityType
<1>2. s \in [1..Cardinality(peers) -> peers]
  BY DEF Ranked
<1>3. s \in [1..Cardinality(peers) -> Peer]
  BY <1>2
<1> QED
  BY <1>1, <1>3, SeqDef

(* What the close of a channel does to its runs of serve().                    *)
LEMMA CutSound ==
  ASSUME NEW p \in Peer, NEW S \in SUBSET PeerRun(p), IsFiniteSet(S)
  PROVE  Cut(S) \subseteq Run /\ Cut(S) \subseteq PeerRun(p) /\ IsFiniteSet(Cut(S))
<1> DEFINE After(run) == [run EXCEPT !.cut = @ \/ run.next > 0]
<1>1. ASSUME NEW run \in S PROVE After(run) \in Run /\ After(run) \in PeerRun(p)
  <2>1. run \in Run /\ (run.next > 0 => Copy[p][run.cid] # NoBlob /\ run.next \in DOMAIN Copy[p][run.cid])
    BY DEF PeerRun
  <2>2. (run.cut \/ run.next > 0) \in BOOLEAN
    OBVIOUS
  <2>3. After(run) \in Run /\ After(run).next = run.next /\ After(run).cid = run.cid
    BY <2>1, <2>2 DEF Run
  <2> QED
    BY <2>1, <2>3 DEF PeerRun
<1>2. Cut(S) = {After(run) : run \in S}
  BY DEF Cut
<1>3. [run \in S |-> After(run)] \in Surjection(S, Cut(S))
  BY <1>2 DEF Surjection
<1> HIDE DEF After
<1> QED
  BY <1>1, <1>2, <1>3, FS_Surjection

(* A number is left for the next run.                                          *)
LEMMA RunIdExists ==
  ASSUME NEW S \in SUBSET Run, IsFiniteSet(S)
  PROVE  \E k \in 0..Cardinality(S) : \A run \in S : run.id # k
<1> DEFINE Ids == {run.id : run \in S}
<1>1. IsFiniteSet(Ids) /\ Cardinality(Ids) <= Cardinality(S)
  <2>1. [run \in S |-> run.id] \in Surjection(S, Ids)
    BY DEF Surjection
  <2> HIDE DEF Ids
  <2> QED
    BY <2>1, FS_Surjection
<1>2. Cardinality(S) \in Nat /\ Cardinality(Ids) \in Nat
  BY <1>1, FS_CardinalityType
<1>3. ASSUME 0..Cardinality(S) \subseteq Ids PROVE FALSE
  <2>1. Cardinality(0..Cardinality(S)) = Cardinality(S) + 1
    <3>1. 0 \in Int /\ Cardinality(S) \in Int /\ ~(0 > Cardinality(S))
      BY <1>2
    <3>2. Cardinality(0..Cardinality(S)) = Cardinality(S) - 0 + 1
      BY <3>1, FS_Interval
    <3> QED
      BY <1>2, <3>2
  <2>2. Cardinality(0..Cardinality(S)) <= Cardinality(Ids)
    BY <1>1, <1>3, FS_Subset
  <2> QED
    BY <1>1, <1>2, <2>1, <2>2
<1>4. PICK k \in 0..Cardinality(S) : k \notin Ids
  BY <1>3
<1> QED
  BY <1>4

-----------------------------------------------------------------------------
(* The steps                                                                 *)

(* What becomes of one file.                                                  *)
LEMMA FileUpdate ==
  ASSUME FetchOK, NEW c \in Cid, NEW x, NEW t, NEW b, FileOK(x, t, b, c),
         fetch' = [fetch EXCEPT ![c] = x],
         incoming' = [incoming EXCEPT ![c] = t],
         blobs' = [blobs EXCEPT ![c] = b]
  PROVE  FetchOK'
<1>1. /\ DOMAIN fetch' = Cid /\ fetch' = [d \in Cid |-> fetch'[d]]
      /\ DOMAIN incoming' = Cid /\ incoming' = [d \in Cid |-> incoming'[d]]
      /\ DOMAIN blobs' = Cid /\ blobs' = [d \in Cid |-> blobs'[d]]
  BY DEF FetchOK
<1>2. ASSUME NEW d \in Cid PROVE FileOK(fetch'[d], incoming'[d], blobs'[d], d)
  <2>1. CASE d = c
    BY <2>1, <1>1 DEF FetchOK
  <2>2. CASE d # c
    <3>1. fetch'[d] = fetch[d] /\ incoming'[d] = incoming[d] /\ blobs'[d] = blobs[d]
      BY <2>2 DEF FetchOK
    <3> QED
      BY <3>1 DEF FetchOK
  <2> QED
    BY <2>1, <2>2
<1> QED
  BY <1>1, <1>2 DEF FetchOK

LEMMA FetchStays == ASSUME FetchOK, UNCHANGED <<fetch, incoming, blobs>> PROVE FetchOK'
BY DEF FetchOK

LEMMA NetStays == ASSUME NetOK, UNCHANGED network PROVE NetOK'
BY DEF NetOK, network

(* Asking the next peer, or giving up, breaks nothing.                         *)
LEMMA GoOnSound ==
  ASSUME Sound, NEW c \in Cid, NEW left \in Seq(Peer), NEW failed,
         GoOn(c, left, failed), blobs' = blobs
  PROVE  /\ FetchOK'
         /\ toPeer' \in [Peer -> Seq(Cid)]
         /\ score' \in [Peer -> ScoreMin..ScoreMax]
         /\ stored' \in [Peer -> ScoreMin..ScoreMax]
<1> DEFINE reached == {i \in DOMAIN left : left[i] \in linked}
           next == CHOOSE i \in reached : \A j \in reached : i <= j
           skipped == {left[i] : i \in {j \in DOMAIN left : reached = {} \/ j < next}}
           s == Charge(score, failed \cup skipped, "file_failed")
<1>1. s \in [Peer -> ScoreMin..ScoreMax]
  <2> HIDE DEF skipped
  <2> QED
    BY ChargeTyped DEF Sound, CountOK
<1>2. score' = s /\ stored' = [p \in Peer |-> IF p \in failed \cup skipped THEN s[p] ELSE stored[p]]
  BY DEF GoOn
<1>3. score' \in [Peer -> ScoreMin..ScoreMax] /\ stored' \in [Peer -> ScoreMin..ScoreMax]
  <2> HIDE DEF s, skipped
  <2> QED
    BY <1>1, <1>2 DEF Sound, CountOK
<1>4. blobs' = [blobs EXCEPT ![c] = blobs[c]] /\ blobs[c] \in {NoBlob, Original(c)}
  BY DEF Sound, FetchOK, FileOK
<1>5. CASE reached = {}
  <2>1. fetch' = [fetch EXCEPT ![c] = Idle] /\ incoming' = [incoming EXCEPT ![c] = NoTransfer]
        /\ toPeer' = toPeer
    BY <1>5 DEF GoOn
  <2>2. FileOK(Idle, NoTransfer, blobs[c], c)
    BY <1>4, FetchTyped DEF FileOK
  <2>3. FetchOK'
    BY <1>4, <2>1, <2>2, FileUpdate DEF Sound
  <2> QED
    BY <1>3, <2>1, <2>3 DEF Sound, NetOK
<1>6. CASE reached # {}
  <2>1. next \in reached
    <3>1. reached \in SUBSET Nat
      OBVIOUS
    <3>2. \E i \in reached : \A j \in reached : i <= j
      <4> HIDE DEF reached
      <4> QED
        BY <1>6, <3>1, LeastExists
    <3> QED
      BY <3>2
  <2>2. next \in 1..Len(left) /\ left[next] \in Peer /\ Len(left) \in Nat
    BY <2>1
  <2>3. /\ fetch' = [fetch EXCEPT ![c] = Asking(SubSeq(left, next + 1, Len(left)))]
        /\ incoming' = [incoming EXCEPT ![c] = NewTransfer(left[next])]
        /\ toPeer' = [toPeer EXCEPT ![left[next]] = Append(@, c)]
    BY <1>6 DEF GoOn
  <2> HIDE DEF next
  <2>4. SubSeq(left, next + 1, Len(left)) \in Seq(Peer)
    <3>1. \A i \in (next + 1)..Len(left) : left[i] \in Peer
      BY <2>2
    <3> QED
      BY <2>2, <3>1, SubSeqProperties
  <2>5. FileOK(Asking(SubSeq(left, next + 1, Len(left))), NewTransfer(left[next]), blobs[c], c)
    BY <1>4, <2>2, <2>4, FetchTyped, NewTransferFaithful DEF FileOK
  <2>6. FetchOK'
    BY <1>4, <2>3, <2>5, FileUpdate DEF Sound
  <2>7. toPeer' \in [Peer -> Seq(Cid)]
    BY <2>2, <2>3 DEF Sound, NetOK
  <2> QED
    BY <1>3, <2>6, <2>7
<1> QED
  BY <1>5, <1>6

(* The network when only a request is added to it.                             *)
LEMMA NetAfterRequest ==
  ASSUME Sound, toPeer' \in [Peer -> Seq(Cid)], UNCHANGED <<linked, toMe, serving>>
  PROVE  NetOK'
BY DEF Sound, NetOK

LEMMA RejectSound ==
  ASSUME Sound, NEW c \in Cid, incoming[c] # NoTransfer, Reject(c), blobs' = blobs
  PROVE  /\ FetchOK'
         /\ toPeer' \in [Peer -> Seq(Cid)]
         /\ score' \in [Peer -> ScoreMin..ScoreMax]
         /\ stored' \in [Peer -> ScoreMin..ScoreMax]
<1>1. fetch[c].left \in Seq(Peer)
  BY FetchTyped DEF Sound, FetchOK, FileOK
<1> QED
  BY <1>1, GoOnSound DEF Reject

LEMMA DownloadSound == ASSUME Sound, NEW c \in Cid, Download(c) PROVE Sound'
<1>1. /\ fetch' = [fetch EXCEPT ![c] = Looking]
      /\ incoming' = [incoming EXCEPT ![c] = incoming[c]]
      /\ blobs' = [blobs EXCEPT ![c] = blobs[c]]
  BY DEF Download, Sound, FetchOK
<1>2. FileOK(Looking, incoming[c], blobs[c], c)
  <2>1. FileOK(fetch[c], incoming[c], blobs[c], c) /\ fetch[c] = Idle
    BY DEF Download, Sound, FetchOK
  <2> QED
    BY <2>1, FetchTyped DEF FileOK
<1>3. FetchOK'
  BY <1>1, <1>2, FileUpdate DEF Sound
<1>4. NetOK'
  BY NetStays DEF Sound, Download
<1>5. CountOK'
  BY FileBounds DEF Sound, CountOK, Download
<1> QED
  BY <1>3, <1>4, <1>5 DEF Sound

LEMMA ShareSound == ASSUME Sound, NEW c \in Cid, Share(c) PROVE Sound'
<1>1. /\ fetch' = [fetch EXCEPT ![c] = fetch[c]]
      /\ incoming' = [incoming EXCEPT ![c] = incoming[c]]
      /\ blobs' = [blobs EXCEPT ![c] = Original(c)]
  BY DEF Share, Sound, FetchOK
<1>2. FileOK(fetch[c], incoming[c], Original(c), c)
  BY DEF Sound, FetchOK, FileOK
<1>3. FetchOK'
  BY <1>1, <1>2, FileUpdate DEF Sound
<1>4. NetOK'
  BY NetStays DEF Sound, Share
<1>5. CountOK'
  BY FileBounds DEF Sound, CountOK, Share
<1> QED
  BY <1>3, <1>4, <1>5 DEF Sound

LEMMA LookedUpSound == ASSUME Sound, NEW c \in Cid, LookedUp(c) PROVE Sound'
<1>1. CASE blobs[c] # NoBlob \/ linked = {}
  <2>1. /\ fetch' = [fetch EXCEPT ![c] = Idle]
        /\ incoming' = [incoming EXCEPT ![c] = incoming[c]]
        /\ blobs' = [blobs EXCEPT ![c] = blobs[c]]
        /\ UNCHANGED <<network, score, stored, fetches, faults>>
    BY <1>1 DEF LookedUp, Sound, FetchOK, network
  <2>2. FileOK(fetch[c], incoming[c], blobs[c], c) /\ fetch[c] = Looking
    BY DEF LookedUp, Sound, FetchOK
  <2>3. FileOK(Idle, incoming[c], blobs[c], c)
    BY <2>2, FetchTyped DEF FileOK
  <2>4. FetchOK'
    BY <2>1, <2>3, FileUpdate DEF Sound
  <2> QED
    BY <2>1, <2>4, NetStays DEF Sound, CountOK
<1>2. CASE ~(blobs[c] # NoBlob \/ linked = {})
  <2>1. PICK order \in Ranked(linked) : GoOn(c, order, {})
    BY <1>2 DEF LookedUp
  <2>2. order \in Seq(Peer)
    BY RankedTyped DEF Sound, NetOK
  <2>3. UNCHANGED <<blobs, linked, toMe, serving, fetches, faults>>
    BY DEF LookedUp
  <2> QED
    BY <2>1, <2>2, <2>3, GoOnSound, NetAfterRequest DEF Sound, CountOK
<1> QED
  BY <1>1, <1>2

(* Bytes that are the file are delivered: the transfer is over.                *)
LEMMA ResolveSound ==
  ASSUME Sound, NEW c \in Cid, incoming[c] # NoTransfer, Resolve(c, Original(c)),
         blobs' = blobs
  PROVE  FetchOK'
<1>1. FileOK(fetch[c], incoming[c], blobs[c], c)
  BY DEF Sound, FetchOK
<1>2. fetch[c].left \in Seq(Peer) /\ incoming[c].peer \in Peer
  BY <1>1, FetchTyped DEF FileOK, Faithful, Transfer
<1>3. FileOK(Storing(incoming[c].peer, Original(c), fetch[c].left), NoTransfer, blobs[c], c)
  BY <1>1, <1>2, FetchTyped, OriginalIsBlob DEF FileOK
<1>4. blobs' = [blobs EXCEPT ![c] = blobs[c]]
  BY DEF Sound, FetchOK
<1> QED
  BY <1>3, <1>4, FileUpdate DEF Sound, Resolve

LEMMA HashDoneSound == ASSUME Sound, NEW c \in Cid, HashDone(c) PROVE Sound'
<1>1. PICK bytes \in incoming[c].hashing :
        IF bytes = Original(c) THEN Resolve(c, bytes) ELSE Reject(c)
  BY DEF HashDone
<1>2. incoming[c] # NoTransfer /\ UNCHANGED <<blobs, linked, toMe, serving, fetches, faults>>
  BY DEF HashDone
<1>3. CASE bytes = Original(c)
  <2>1. Resolve(c, Original(c))
    BY <1>1, <1>3
  <2>2. FetchOK'
    BY <1>2, <2>1, ResolveSound
  <2>3. UNCHANGED <<toPeer, score, stored>>
    BY <2>1 DEF Resolve
  <2> QED
    BY <1>2, <2>2, <2>3, NetAfterRequest DEF Sound, CountOK, NetOK
<1>4. CASE bytes # Original(c)
  BY <1>1, <1>2, <1>4, RejectSound, NetAfterRequest DEF Sound, CountOK
<1> QED
  BY <1>3, <1>4

LEMMA StoredSound == ASSUME Sound, NEW c \in Cid, Stored(c) PROVE Sound'
<1>1. FileOK(fetch[c], incoming[c], blobs[c], c) /\ fetch[c].at = "storing"
  BY DEF Sound, FetchOK, Stored
<1>2. /\ fetch' = [fetch EXCEPT ![c] = Idle]
      /\ incoming' = [incoming EXCEPT ![c] = incoming[c]]
      /\ blobs' = [blobs EXCEPT ![c] = fetch[c].bytes]
  BY DEF Stored, Sound, FetchOK
<1>3. FileOK(Idle, incoming[c], fetch[c].bytes, c)
  BY <1>1, FetchTyped DEF FileOK
<1>4. FetchOK'
  BY <1>2, <1>3, FileUpdate DEF Sound
<1>5. NetOK'
  BY NetStays DEF Sound, Stored
<1>6. CountOK'
  <2> DEFINE p == fetch[c].peer
             s == Charge(score, {p}, "file_served")
  <2>1. s \in [Peer -> ScoreMin..ScoreMax]
    <3> HIDE DEF p
    <3> QED
      BY ChargeTyped DEF Sound, CountOK
  <2>2. /\ score' = s
        /\ stored' = [stored EXCEPT ![p] = s[p]]
        /\ UNCHANGED <<fetches, faults>>
    BY DEF Stored
  <2>3. p \in Peer
    BY <1>1, FetchTyped DEF FileOK
  <2> HIDE DEF s, p
  <2> QED
    BY <2>1, <2>2, <2>3 DEF Sound, CountOK
<1> QED
  BY <1>4, <1>5, <1>6 DEF Sound

LEMMA PutFailsSound == ASSUME Sound, NEW c \in Cid, PutFails(c) PROVE Sound'
<1>1. fetch[c].left \in Seq(Peer)
  BY FetchTyped DEF PutFails, Sound, FetchOK, FileOK
<1>2. UNCHANGED <<blobs, linked, toMe, serving, fetches>> /\ GoOn(c, fetch[c].left, {fetch[c].peer})
  BY DEF PutFails
<1>3. faults' \in 0..MaxFaults
  BY FileBounds DEF PutFails, Sound, CountOK
<1> QED
  BY <1>1, <1>2, <1>3, GoOnSound, NetAfterRequest DEF Sound, CountOK

LEMMA TimeOutSound == ASSUME Sound, NEW c \in Cid, TimeOut(c) PROVE Sound'
<1>1. incoming[c] # NoTransfer /\ Reject(c) /\ UNCHANGED <<blobs, linked, toMe, serving, fetches>>
  BY DEF TimeOut
<1>2. faults' \in 0..MaxFaults
  BY FileBounds DEF TimeOut, Sound, CountOK
<1> QED
  BY <1>1, <1>2, RejectSound, NetAfterRequest DEF Sound, CountOK

(* An answer that is not expected changes nothing.                             *)
LEMMA IgnoreSound ==
  ASSUME Sound, Ignore, blobs' = blobs
  PROVE  /\ FetchOK'
         /\ toPeer' \in [Peer -> Seq(Cid)]
         /\ score' \in [Peer -> ScoreMin..ScoreMax]
         /\ stored' \in [Peer -> ScoreMin..ScoreMax]
BY FetchStays DEF Ignore, Sound, NetOK, CountOK

LEMMA KeepSound ==
  ASSUME Sound, NEW c \in Cid, incoming[c] # NoTransfer, NEW t, Faithful(t, c), Keep(c, t),
         blobs' = blobs
  PROVE  /\ FetchOK'
         /\ toPeer' \in [Peer -> Seq(Cid)]
         /\ score' \in [Peer -> ScoreMin..ScoreMax]
         /\ stored' \in [Peer -> ScoreMin..ScoreMax]
<1>1. /\ fetch' = [fetch EXCEPT ![c] = fetch[c]]
      /\ incoming' = [incoming EXCEPT ![c] = t]
      /\ blobs' = [blobs EXCEPT ![c] = blobs[c]]
  BY DEF Keep, Sound, FetchOK
<1>2. FileOK(fetch[c], t, blobs[c], c)
  BY DEF Sound, FetchOK, FileOK
<1>3. FetchOK'
  BY <1>1, <1>2, FileUpdate DEF Sound
<1> QED
  BY <1>3 DEF Keep, Sound, NetOK, CountOK

(* What is hashed is the whole copy of the peer.                               *)
LEMMA FinishSound ==
  ASSUME Sound, NEW c \in Cid, incoming[c] # NoTransfer, NEW t, Faithful(t, c), t.total >= 0,
         Finish(c, t), blobs' = blobs
  PROVE  /\ FetchOK'
         /\ toPeer' \in [Peer -> Seq(Cid)]
         /\ score' \in [Peer -> ScoreMin..ScoreMax]
         /\ stored' \in [Peer -> ScoreMin..ScoreMax]
<1>1. CASE \E i \in DOMAIN t.chunks : t.chunks[i] = Missing
  BY <1>1, RejectSound DEF Finish
<1>2. CASE ~\E i \in DOMAIN t.chunks : t.chunks[i] = Missing
  <2> DEFINE copy == Copy[t.peer][c]
             u == [t EXCEPT !.hashing = @ \cup {t.chunks}]
  <2>1. /\ t.peer \in Peer
        /\ t.chunks \in Seq({Missing, "good", "bad"})
        /\ copy # NoBlob /\ t.total = Len(copy) /\ Len(t.chunks) = t.total
        /\ \A i \in 1..t.total : t.chunks[i] \in {Missing, copy[i]}
    BY DEF Faithful, Transfer
  <2>2. copy \in Seq({"good", "bad"}) /\ copy \in Blob /\ DOMAIN copy = 1..Len(copy)
    BY <2>1, CopyTyped
  <2>3. t.chunks = copy
    <3>1. copy \in Seq({Missing, "good", "bad"})
      BY <2>2, SeqMonotonic
    <3>2. \A i \in 1..Len(t.chunks) : t.chunks[i] = copy[i]
      BY <1>2, <2>1
    <3> HIDE DEF copy
    <3> QED
      BY <2>1, <3>1, <3>2, SeqEqual
  <2>4. Faithful(u, c)
    BY <2>2, <2>3 DEF Faithful, Transfer
  <2>5. Keep(c, u)
    BY <1>2 DEF Finish, Keep
  <2> QED
    BY <2>4, <2>5, KeepSound
<1> QED
  BY <1>1, <1>2

LEMMA HandleMetaSound ==
  ASSUME Sound, NEW p \in Peer, NEW f \in PeerFrame(p), f.t = "BLOB_META",
         IsExpected(p, f), HandleMeta(f.cid, f.chunks), blobs' = blobs
  PROVE  /\ FetchOK'
         /\ toPeer' \in [Peer -> Seq(Cid)]
         /\ score' \in [Peer -> ScoreMin..ScoreMax]
         /\ stored' \in [Peer -> ScoreMin..ScoreMax]
<1> DEFINE c == f.cid
           n == f.chunks
           old == incoming[c]
           t == [old EXCEPT !.total = n, !.chunks = [i \in 1..n |-> Missing]]
<1>1. c \in Cid /\ n \in Nat /\ Copy[p][c] # NoBlob /\ n = Len(Copy[p][c])
  BY DEF PeerFrame, Frame
<1>2. old # NoTransfer /\ old.peer = p /\ Faithful(old, c)
  BY <1>1 DEF IsExpected, Sound, FetchOK, FileOK
<1>3. [i \in 1..n |-> Missing] \in Seq({Missing, "good", "bad"}) /\ Len([i \in 1..n |-> Missing]) = n
  BY <1>1
<1>4. old.received <= n
  BY <1>1, <1>2 DEF Faithful, Transfer
<1>5. /\ t \in Transfer /\ t.peer = p /\ t.total = n
      /\ t.chunks = [i \in 1..n |-> Missing]
      /\ t.received = old.received /\ t.hashing = old.hashing
  <2> DEFINE ch == [i \in 1..n |-> Missing]
  <2>1. old \in Transfer
    BY <1>2 DEF Faithful
  <2>2. ch \in Seq({Missing, "good", "bad"}) /\ n \in Nat
    BY <1>1, <1>3
  <2>3. /\ t \in Transfer /\ t.peer = old.peer /\ t.total = n /\ t.chunks = ch
        /\ t.received = old.received /\ t.hashing = old.hashing
    <3> DEFINE S == Seq({Missing, "good", "bad"})
    <3>1. /\ Transfer = [peer : Peer, total : {-1} \cup Nat, chunks : S, received : Nat,
                         hashing : SUBSET Blob]
          /\ ch \in S
      BY <2>2 DEF Transfer
    <3>2. [old EXCEPT !.total = n, !.chunks = ch] \in Transfer
      <4> HIDE DEF n, old, ch, S
      <4> QED
        BY <2>1, <2>2, <3>1
    <3>3. t = [old EXCEPT !.total = n, !.chunks = ch]
      OBVIOUS
    <3> HIDE DEF n, old, ch, S, t
    <3> QED
      BY <2>1, <2>2, <3>1, <3>2, <3>3
  <2> QED
    BY <1>2, <2>3
<1>6. Faithful(t, c)
  <2>1. old.hashing \subseteq {Copy[p][c]}
    BY <1>2 DEF Faithful
  <2>2. Len(t.chunks) = n /\ \A i \in 1..n : t.chunks[i] = Missing
    BY <1>3, <1>5
  <2> HIDE DEF t, old, n, c
  <2> QED
    BY <1>1, <1>4, <1>5, <2>1, <2>2 DEF Faithful
<1>7. IF n = 0 THEN Finish(c, t) ELSE Keep(c, t)
  BY DEF HandleMeta
<1> HIDE DEF t
<1> QED
  BY <1>1, <1>2, <1>5, <1>6, <1>7, FinishSound, KeepSound

LEMMA HandleChunkSound ==
  ASSUME Sound, NEW p \in Peer, NEW f \in PeerFrame(p), f.t = "BLOB_CHUNK",
         IsExpected(p, f), HandleChunk(f.cid, f.idx, f.data), blobs' = blobs
  PROVE  /\ FetchOK'
         /\ toPeer' \in [Peer -> Seq(Cid)]
         /\ score' \in [Peer -> ScoreMin..ScoreMax]
         /\ stored' \in [Peer -> ScoreMin..ScoreMax]
<1> DEFINE c == f.cid
           i == f.idx
           old == incoming[c]
           t == [old EXCEPT !.chunks[i] = f.data, !.received = @ + 1]
<1>1. c \in Cid /\ Copy[p][c] # NoBlob /\ i \in DOMAIN Copy[p][c] /\ f.data = Copy[p][c][i]
      /\ f.data \in {"good", "bad"}
  BY DEF PeerFrame, Frame
<1>2. old # NoTransfer /\ old.peer = p /\ Faithful(old, c)
  BY <1>1 DEF IsExpected, Sound, FetchOK, FileOK
<1>3. CASE i \notin DOMAIN old.chunks \/ old.total < 0
  BY <1>3, IgnoreSound DEF HandleChunk
<1>4. CASE /\ i \in DOMAIN old.chunks /\ old.total >= 0
           /\ old.chunks[i] # Missing
  <2>1. old.total \in Int
    BY <1>2 DEF Faithful, Transfer
  <2>2. Ignore
    BY <1>4, <2>1 DEF HandleChunk
  <2> QED
    BY <2>2, IgnoreSound
<1>5. CASE /\ i \in DOMAIN old.chunks /\ old.total >= 0
           /\ old.chunks[i] = Missing
  <2>1. /\ old.chunks \in Seq({Missing, "good", "bad"}) /\ old.received \in Nat
        /\ old.total \in Nat /\ old.total = Len(old.chunks)
        /\ i \in 1..old.total
    BY <1>2, <1>5 DEF Faithful, Transfer
  <2> DEFINE ch == [old.chunks EXCEPT ![i] = f.data]
  <2>2. /\ ch \in Seq({Missing, "good", "bad"})
        /\ Len(ch) = old.total
        /\ \A j \in 1..old.total : ch[j] = IF j = i THEN f.data ELSE old.chunks[j]
    <3>1. f.data \in {Missing, "good", "bad"} /\ i \in 1..Len(old.chunks)
      BY <1>1, <2>1
    <3> HIDE DEF old, i
    <3> QED
      BY <2>1, <3>1, ExceptSeq
  <2>3. /\ t \in Transfer /\ t.peer = old.peer /\ t.total = old.total
        /\ t.chunks = ch /\ t.received = old.received + 1 /\ t.hashing = old.hashing
    <3>1. old \in Transfer /\ old.received + 1 \in Nat
      BY <1>2, <2>1 DEF Faithful
    <3>2. t = [old EXCEPT !.chunks = ch, !.received = old.received + 1]
      BY <3>1 DEF Transfer
    <3> DEFINE S == Seq({Missing, "good", "bad"})
    <3>3. /\ Transfer = [peer : Peer, total : {-1} \cup Nat, chunks : S, received : Nat,
                         hashing : SUBSET Blob]
          /\ ch \in S
      BY <2>2 DEF Transfer
    <3>4. [old EXCEPT !.chunks = ch, !.received = old.received + 1] \in Transfer
      <4> HIDE DEF old, ch, S
      <4> QED
        BY <3>1, <3>3
    <3> HIDE DEF old, ch, S
    <3> QED
      BY <3>1, <3>2, <3>3, <3>4
  <2>4. t.received <= t.total => Faithful(t, c)
    <3> HIDE DEF t
    <3> QED
      BY <1>1, <1>2, <2>1, <2>2, <2>3 DEF Faithful
  <2>5. IF t.received > t.total THEN Reject(c)
        ELSE IF t.received = t.total THEN Finish(c, t) ELSE Keep(c, t)
    BY <1>5, <2>1 DEF HandleChunk
  <2> HIDE DEF t
  <2> QED
    BY <1>1, <1>2, <2>1, <2>3, <2>4, <2>5, RejectSound, FinishSound, KeepSound
<1>6. old.total \in Int
  BY <1>2 DEF Faithful, Transfer
<1> QED
  BY <1>3, <1>4, <1>5, <1>6

LEMMA ReceiveSound == ASSUME Sound, NEW p \in Peer, Receive(p) PROVE Sound'
<1> DEFINE f == Head(toMe[p])
<1>1. toMe[p] \in Seq(Frame) /\ toMe[p] # <<>>
  BY DEF Sound, NetOK, Receive
<1>2. f \in PeerFrame(p) /\ f \in Frame
  <2>1. 1 \in 1..Len(toMe[p]) /\ f = toMe[p][1]
    BY <1>1
  <2> QED
    BY <2>1 DEF Sound, NetOK, PeerFrame
<1>3. /\ HandleMessage(p, f)
      /\ toMe' = [toMe EXCEPT ![p] = Tail(@)]
      /\ UNCHANGED <<blobs, linked, serving, fetches, faults>>
  BY DEF Receive
<1>4. /\ FetchOK'
      /\ toPeer' \in [Peer -> Seq(Cid)]
      /\ score' \in [Peer -> ScoreMin..ScoreMax]
      /\ stored' \in [Peer -> ScoreMin..ScoreMax]
  <2> HIDE DEF f
  <2>1. f.t \in {"BLOB_META", "BLOB_CHUNK", "BLOB_ERR"} /\ f.cid \in Cid
    BY <1>2 DEF Frame
  <2>2. CASE ~IsExpected(p, f)
    BY <1>3, <2>2, IgnoreSound DEF HandleMessage
  <2>3. CASE IsExpected(p, f) /\ f.t = "BLOB_META"
    BY <1>2, <1>3, <2>3, HandleMetaSound DEF HandleMessage
  <2>4. CASE IsExpected(p, f) /\ f.t = "BLOB_CHUNK"
    BY <1>2, <1>3, <2>4, HandleChunkSound DEF HandleMessage
  <2>5. CASE IsExpected(p, f) /\ f.t = "BLOB_ERR"
    BY <1>3, <2>1, <2>5, RejectSound DEF HandleMessage, IsExpected
  <2> QED
    BY <2>1, <2>2, <2>3, <2>4, <2>5
<1>5. NetOK'
  <2>1. /\ Tail(toMe[p]) \in Seq(Frame)
        /\ \A i \in 1..Len(Tail(toMe[p])) : Tail(toMe[p])[i] = toMe[p][i + 1] /\ i + 1 \in 1..Len(toMe[p])
    BY <1>1
  <2>2. toMe' \in [Peer -> Seq(Frame)]
    BY <1>3, <2>1 DEF Sound, NetOK
  <2>3. ASSUME NEW q \in Peer, NEW i \in 1..Len(toMe'[q]) PROVE toMe'[q][i] \in PeerFrame(q)
    <3>1. CASE q = p
      BY <1>3, <2>1, <3>1 DEF Sound, NetOK
    <3>2. CASE q # p
      BY <1>3, <3>2 DEF Sound, NetOK
    <3> QED
      BY <3>1, <3>2
  <2> QED
    BY <1>3, <1>4, <2>2, <2>3 DEF Sound, NetOK
<1> QED
  BY <1>3, <1>4, <1>5 DEF Sound, CountOK

LEMMA UnlinkNet == ASSUME Sound, NEW p \in Peer, Unlink(p) PROVE NetOK'
<1>1. serving' = [serving EXCEPT ![p] = Cut(serving[p])]
  BY DEF Unlink
<1>2. ASSUME NEW q \in Peer
      PROVE  serving'[q] \subseteq Run /\ serving'[q] \subseteq PeerRun(q) /\ IsFiniteSet(serving'[q])
  <2>1. serving[q] \subseteq PeerRun(q) /\ IsFiniteSet(serving[q]) /\ serving[q] \subseteq Run
    BY DEF Sound, NetOK
  <2>2. serving'[q] = serving[q] \/ serving'[q] = Cut(serving[q])
    BY <1>1 DEF Sound, NetOK
  <2> QED
    BY <2>1, <2>2, CutSound
<1>3. /\ linked' \subseteq Peer
      /\ toPeer' \in [Peer -> Seq(Cid)]
      /\ toMe' \in [Peer -> Seq(Frame)]
  BY DEF Unlink, Sound, NetOK
<1>4. ASSUME NEW q \in Peer, NEW i \in 1..Len(toMe'[q]) PROVE toMe'[q][i] \in PeerFrame(q)
  BY DEF Unlink, Sound, NetOK
<1>5. serving' \in [Peer -> SUBSET Run]
  BY <1>1, <1>2 DEF Sound, NetOK
<1> QED
  BY <1>2, <1>3, <1>4, <1>5 DEF NetOK

LEMMA RemovePeerSound == ASSUME Sound, NEW p \in Peer, RemovePeer(p) PROVE Sound'
BY UnlinkNet, FetchStays DEF RemovePeer, fetching, Sound, CountOK

LEMMA DisconnectSound == ASSUME Sound, NEW p \in Peer, Disconnect(p) PROVE Sound'
<1>1. UNCHANGED fetching /\ Unlink(p) /\ faults' \in 0..MaxFaults
  BY FileBounds DEF Disconnect, Sound, CountOK
<1> QED
  BY <1>1, UnlinkNet, FetchStays DEF fetching, Sound, CountOK

LEMMA ReconnectSound == ASSUME Sound, NEW p \in Peer, Reconnect(p) PROVE Sound'
<1> DEFINE s == Charge(score, {p}, "connect")
<1>1. s \in [Peer -> ScoreMin..ScoreMax]
  BY ChargeTyped DEF Sound, CountOK
<1>2. /\ score' = s /\ stored' = [stored EXCEPT ![p] = s[p]]
      /\ linked' = linked \cup {p}
      /\ UNCHANGED <<fetch, incoming, blobs, toPeer, toMe, serving, fetches, faults>>
  BY DEF Reconnect
<1> HIDE DEF s
<1>3. CountOK'
  BY <1>1, <1>2 DEF Sound, CountOK
<1>4. NetOK'
  BY <1>2 DEF Sound, NetOK
<1> QED
  BY <1>2, <1>3, <1>4, FetchStays DEF Sound

LEMMA TakeRequestSound == ASSUME Sound, NEW p \in Peer, TakeRequest(p) PROVE Sound'
<1> DEFINE new == CHOOSE k \in 0..Cardinality(serving[p]) : \A run \in serving[p] : run.id # k
           added == [id |-> new, cid |-> Head(toPeer[p]), next |-> 0, cut |-> FALSE]
<1>1. serving[p] \in SUBSET Run /\ IsFiniteSet(serving[p])
  BY DEF Sound, NetOK
<1>2. new \in Nat
  BY <1>1, RunIdExists
<1>3. Head(toPeer[p]) \in Cid /\ Tail(toPeer[p]) \in Seq(Cid)
  BY DEF TakeRequest, Sound, NetOK
<1>4. /\ toPeer' = [toPeer EXCEPT ![p] = Tail(@)]
      /\ serving' = [serving EXCEPT ![p] = @ \cup {added}]
      /\ UNCHANGED <<linked, toMe, faults>> /\ UNCHANGED fetching
  BY DEF TakeRequest
<1> HIDE DEF new
<1>5. added \in Run /\ added \in PeerRun(p)
  BY <1>2, <1>3 DEF PeerRun, Run
<1> HIDE DEF added
<1>6. IsFiniteSet(serving[p] \cup {added})
  BY <1>1, FS_AddElement
<1>7. NetOK'
  BY <1>3, <1>4, <1>5, <1>6 DEF Sound, NetOK
<1> QED
  BY <1>4, <1>7, FetchStays DEF Sound, CountOK, fetching

(* A run of serve() stays inside the copy.                                     *)
LEMMA AdvanceSound ==
  ASSUME Sound, NEW p \in Peer, NEW run \in serving[p], NEW i \in Nat,
         Copy[p][run.cid] # NoBlob, Advance(p, run, i)
  PROVE  /\ serving' \in [Peer -> SUBSET Run]
         /\ \A q \in Peer : serving'[q] \subseteq PeerRun(q) /\ IsFiniteSet(serving'[q])
<1> DEFINE more == IF i \in DOMAIN Copy[p][run.cid] THEN {[run EXCEPT !.next = i]} ELSE {}
<1>1. run \in Run
  BY DEF Sound, NetOK
<1>2. more \subseteq Run /\ more \subseteq PeerRun(p)
  BY <1>1 DEF PeerRun, Run
<1>3. IsFiniteSet(more)
  BY FS_EmptySet, FS_Singleton
<1>4. serving' = [serving EXCEPT ![p] = (@ \ {run}) \cup more]
  BY DEF Advance
<1> HIDE DEF more
<1>5. IsFiniteSet((serving[p] \ {run}) \cup more)
  BY <1>3, FS_RemoveElement, FS_Union DEF Sound, NetOK
<1> QED
  BY <1>2, <1>4, <1>5 DEF Sound, NetOK

(* A frame that tells of the copy of p is sent.                                *)
LEMMA SendSound ==
  ASSUME Sound, NEW p \in Peer, NEW f \in PeerFrame(p), toMe' = [toMe EXCEPT ![p] = Append(@, f)]
  PROVE  /\ toMe' \in [Peer -> Seq(Frame)]
         /\ \A q \in Peer : \A i \in 1..Len(toMe'[q]) : toMe'[q][i] \in PeerFrame(q)
<1>1. toMe \in [Peer -> Seq(Frame)] /\ f \in Frame
  BY DEF Sound, NetOK, PeerFrame
<1>2. /\ Append(toMe[p], f) \in Seq(Frame)
      /\ \A i \in 1..Len(Append(toMe[p], f)) :
           Append(toMe[p], f)[i] = f \/ (i \in 1..Len(toMe[p]) /\ Append(toMe[p], f)[i] = toMe[p][i])
  BY <1>1
<1>3. toMe' \in [Peer -> Seq(Frame)]
  BY <1>1, <1>2
<1>4. ASSUME NEW q \in Peer, NEW i \in 1..Len(toMe'[q]) PROVE toMe'[q][i] \in PeerFrame(q)
  <2>1. CASE q = p
    BY <1>1, <1>2, <2>1 DEF Sound, NetOK
  <2>2. CASE q # p
    BY <1>1, <2>2 DEF Sound, NetOK
  <2> QED
    BY <2>1, <2>2
<1> QED
  BY <1>3, <1>4

LEMMA ServeSound ==
  ASSUME Sound, NEW p \in Peer, NEW run \in serving[p], Serve(p, run) PROVE Sound'
<1> DEFINE copy == Copy[p][run.cid]
           f == IF copy = NoBlob THEN Err(run.cid) ELSE Meta(run.cid, Len(copy))
<1>1. run \in Run /\ run.cid \in Cid
  BY DEF Sound, NetOK, Run
<1>2. f \in PeerFrame(p)
  BY <1>1, CopyTyped DEF PeerFrame, Frame, Err, Meta
<1>3. /\ IF copy = NoBlob \/ p \notin linked
         THEN serving' = [serving EXCEPT ![p] = @ \ {run}]
         ELSE Advance(p, run, 1)
      /\ toMe' = IF p \notin linked THEN toMe ELSE [toMe EXCEPT ![p] = Append(@, f)]
      /\ UNCHANGED <<linked, toPeer, faults>> /\ UNCHANGED fetching
  BY DEF Serve
<1> HIDE DEF f
<1>4. /\ serving' \in [Peer -> SUBSET Run]
      /\ \A q \in Peer : serving'[q] \subseteq PeerRun(q) /\ IsFiniteSet(serving'[q])
  <2>1. CASE copy = NoBlob \/ p \notin linked
    <3>1. IsFiniteSet(serving[p] \ {run})
      BY FS_RemoveElement DEF Sound, NetOK
    <3> QED
      BY <1>3, <2>1, <3>1 DEF Sound, NetOK
  <2>2. CASE ~(copy = NoBlob \/ p \notin linked)
    BY <1>3, <2>2, AdvanceSound
  <2> QED
    BY <2>1, <2>2
<1>5. /\ toMe' \in [Peer -> Seq(Frame)]
      /\ \A q \in Peer : \A i \in 1..Len(toMe'[q]) : toMe'[q][i] \in PeerFrame(q)
  BY <1>2, <1>3, SendSound DEF Sound, NetOK
<1> QED
  BY <1>3, <1>4, <1>5, FetchStays DEF Sound, NetOK, CountOK, fetching

LEMMA SendChunkSound ==
  ASSUME Sound, NEW p \in Peer, NEW run \in serving[p], SendChunk(p, run) PROVE Sound'
<1> DEFINE copy == Copy[p][run.cid]
           f == Chunk(run.cid, run.next, copy[run.next])
<1>1. /\ run \in Run /\ run.cid \in Cid /\ run.next \in Nat
      /\ copy # NoBlob /\ run.next \in DOMAIN copy
  BY DEF SendChunk, Sound, NetOK, PeerRun, Run
<1>2. copy[run.next] \in {"good", "bad"}
  BY <1>1, CopyTyped
<1>3. f \in PeerFrame(p)
  BY <1>1, <1>2 DEF PeerFrame, Frame, Chunk
<1>4. /\ toMe' = IF p \notin linked THEN toMe ELSE [toMe EXCEPT ![p] = Append(@, f)]
      /\ IF p \notin linked \/ run.cut
         THEN serving' = [serving EXCEPT ![p] = @ \ {run}]
         ELSE Advance(p, run, run.next + 1)
      /\ UNCHANGED <<linked, toPeer, faults>> /\ UNCHANGED fetching
  BY DEF SendChunk
<1>5. run.next + 1 \in Nat
  BY <1>1
<1> HIDE DEF f
<1>6. /\ toMe' \in [Peer -> Seq(Frame)]
      /\ \A q \in Peer : \A i \in 1..Len(toMe'[q]) : toMe'[q][i] \in PeerFrame(q)
  BY <1>3, <1>4, SendSound DEF Sound, NetOK
<1>7. /\ serving' \in [Peer -> SUBSET Run]
      /\ \A q \in Peer : serving'[q] \subseteq PeerRun(q) /\ IsFiniteSet(serving'[q])
  <2>1. CASE p \notin linked \/ run.cut
    <3>1. IsFiniteSet(serving[p] \ {run})
      BY FS_RemoveElement DEF Sound, NetOK
    <3> QED
      BY <1>4, <2>1, <3>1 DEF Sound, NetOK
  <2>2. CASE ~(p \notin linked \/ run.cut)
    BY <1>1, <1>4, <1>5, <2>2, AdvanceSound
  <2> QED
    BY <2>1, <2>2
<1> QED
  BY <1>4, <1>6, <1>7, FetchStays DEF Sound, NetOK, CountOK, fetching

LEMMA ReloadSound == ASSUME Sound, Reload PROVE Sound'
<1>1. FetchOK'
  <2>1. \A c \in Cid : FileOK(Idle, NoTransfer, blobs[c], c)
    BY FetchTyped DEF FileOK, Sound, FetchOK
  <2> QED
    BY <2>1 DEF Reload, Sound, FetchOK
<1>2. NetOK'
  <2>1. serving' = [q \in Peer |-> Cut(serving[q])]
    BY DEF Reload
  <2>2. ASSUME NEW q \in Peer
        PROVE  /\ serving'[q] \subseteq Run
               /\ serving'[q] \subseteq PeerRun(q) /\ IsFiniteSet(serving'[q])
    BY <2>1, CutSound DEF Sound, NetOK
  <2>3. /\ linked' \subseteq Peer
        /\ toPeer' \in [Peer -> Seq(Cid)]
        /\ toMe' \in [Peer -> Seq(Frame)]
        /\ \A q \in Peer : \A i \in 1..Len(toMe'[q]) : toMe'[q][i] \in PeerFrame(q)
    BY DEF Reload
  <2> QED
    BY <2>1, <2>2, <2>3 DEF NetOK
<1>3. CountOK'
  <2>1. \A p \in Peer : Reloaded(stored[p]) \in ScoreMin..ScoreMax
    BY ReloadedTyped DEF Sound, CountOK
  <2> QED
    BY <2>1, FileBounds DEF Reload, Sound, CountOK
<1> QED
  BY <1>1, <1>2, <1>3 DEF Sound

LEMMA SoundInit == Init => Sound
<1> SUFFICES ASSUME Init PROVE Sound
  OBVIOUS
<1>1. FetchOK
  BY FetchTyped DEF Init, FetchOK, FileOK
<1>2. NetOK
  BY FS_EmptySet DEF Init, NetOK
<1>3. CountOK
  BY FileBounds DEF Init, CountOK, ScoreMin, ScoreMax
<1> QED
  BY <1>1, <1>2, <1>3 DEF Sound

LEMMA SoundNext == Sound /\ [Next]_vars => Sound'
<1> SUFFICES ASSUME Sound, [Next]_vars PROVE Sound'
  OBVIOUS
<1>1. ASSUME NEW c \in Cid, Download(c) \/ Share(c) \/ FetchStep(c) \/ PutFails(c)
      PROVE  Sound'
  BY <1>1, DownloadSound, ShareSound, LookedUpSound, HashDoneSound, StoredSound, TimeOutSound,
     PutFailsSound DEF FetchStep
<1>2. ASSUME NEW p \in Peer, Receive(p) \/ RemovePeer(p) \/ ServeStep(p)
      PROVE  Sound'
  BY <1>2, ReceiveSound, RemovePeerSound, TakeRequestSound, ServeSound, SendChunkSound DEF ServeStep
<1>3. ASSUME NEW p \in Peer, Disconnect(p) \/ Reconnect(p)
      PROVE  Sound'
  BY <1>3, DisconnectSound, ReconnectSound
<1>4. CASE UNCHANGED vars
  <2>1. UNCHANGED <<fetch, incoming, blobs>> /\ UNCHANGED network
        /\ UNCHANGED <<score, stored, fetches, faults>>
    BY <1>4 DEF vars, network
  <2> QED
    BY <2>1, FetchStays, NetStays DEF Sound, CountOK
<1> QED
  BY <1>1, <1>2, <1>3, <1>4, ReloadSound DEF Next

LEMMA SoundAlways == Spec => []Sound
BY SoundInit, SoundNext, PTL DEF Spec

-----------------------------------------------------------------------------
(* TypeOK: the state is well formed whatever is fetched, served, lost or        *)
(* reloaded, and no transfer counts more chunks than were announced            *)
(* (files.ts:172-178).                                                       *)
THEOREM TypeCorrect == Spec => []TypeOK
<1>1. Sound => TypeOK
  <2> SUFFICES ASSUME Sound PROVE TypeOK
    OBVIOUS
  <2>1. fetch \in [Cid -> Fetch] /\ blobs \in [Cid -> Blob \cup {NoBlob}]
    BY OriginalIsBlob DEF Sound, FetchOK, FileOK
  <2>2. ASSUME NEW c \in Cid, incoming[c] # NoTransfer
        PROVE  /\ incoming[c] \in Transfer
               /\ Len(incoming[c].chunks) = IF incoming[c].total < 0 THEN 0 ELSE incoming[c].total
               /\ incoming[c].total < 0 \/ incoming[c].received <= incoming[c].total
    <3>1. Faithful(incoming[c], c)
      BY <2>2 DEF Sound, FetchOK, FileOK
    <3>2. Len(<<>>) = 0
      OBVIOUS
    <3>3. incoming[c].total \in Int
      BY <3>1 DEF Faithful, Transfer
    <3> QED
      BY <3>1, <3>2, <3>3 DEF Faithful
  <2>3. \A p \in Peer : \A run \in serving[p] : run \in [id : Nat, cid : Cid, next : Nat, cut : BOOLEAN]
    BY DEF Sound, NetOK, Run
  <2> QED
    BY <2>1, <2>2, <2>3 DEF TypeOK, Sound, NetOK, CountOK
<1> QED
  BY <1>1, SoundAlways, PTL

(* StoredIsOriginal: in whatever order answers, retries, faults and reloads     *)
(* cross, the store never holds other bytes than those that hash to the id     *)
(* (files.ts:9-10).                                                          *)
THEOREM StoredStaysOriginal == Spec => []StoredIsOriginal
<1>1. Sound => StoredIsOriginal
  BY DEF Sound, FetchOK, FileOK, StoredIsOriginal
<1> QED
  BY <1>1, SoundAlways, PTL

(* GatheredIsPeersCopy: what a transfer holds comes from the peer it was asked   *)
(* from, so that a peer is charged only for its own copy (files.ts:155-156).   *)
THEOREM GatheredStaysPeersCopy == Spec => []GatheredIsPeersCopy
<1>1. Sound => GatheredIsPeersCopy
  <2> SUFFICES ASSUME Sound, NEW c \in Cid, incoming[c] # NoTransfer
               PROVE  LET copy == Copy[incoming[c].peer][c] IN
                      /\ \A i \in DOMAIN incoming[c].chunks :
                           incoming[c].chunks[i] # Missing =>
                             copy # NoBlob /\ i <= Len(copy) /\ incoming[c].chunks[i] = copy[i]
                      /\ incoming[c].hashing \subseteq {copy}
    BY DEF GatheredIsPeersCopy
  <2> DEFINE copy == Copy[incoming[c].peer][c]
  <2>1. Faithful(incoming[c], c)
    BY DEF Sound, FetchOK, FileOK
  <2>2. ASSUME NEW i \in DOMAIN incoming[c].chunks, incoming[c].chunks[i] # Missing
        PROVE  copy # NoBlob /\ i <= Len(copy) /\ incoming[c].chunks[i] = copy[i]
    <3>1. /\ incoming[c].chunks \in Seq({Missing, "good", "bad"})
          /\ incoming[c].total \in Int
          /\ i \in 1..Len(incoming[c].chunks)
      BY <2>1 DEF Faithful, Transfer
    <3>2. incoming[c].total >= 0
      BY <2>1, <3>1 DEF Faithful
    <3> QED
      BY <2>1, <2>2, <3>1, <3>2 DEF Faithful
  <2> QED
    BY <2>1, <2>2 DEF Faithful
<1> QED
  BY <1>1, SoundAlways, PTL
=============================================================================
