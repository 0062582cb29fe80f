----------------------------- MODULE FileTransfer -----------------------------
(***************************************************************************)
(* How one browser fetches files from its peers: src/client/files.ts, with  *)
(* the button that starts it (downloadFile in src/client/main.ts), the      *)
(* scores it leaves with each provider (src/shared/reputation.ts) and the   *)
(* frames of handleDc (src/client/conversation.ts).                         *)
(*                                                                          *)
(* The fetching side is one action per stretch between two awaits, the       *)
(* serving side one per stretch of serve(), which may stop before any chunk  *)
(* for the buffer to drain. All chunks have one length, so that `bytesSeen`   *)
(* is `received` and `size` is `total`.                                     *)
(***************************************************************************)
EXTENDS Scores, Sequences, FiniteSets

CONSTANTS
  Peer,        \* the browsers this one is linked to
  Cid,         \* the files, by content id
  Size,        \* file -> its number of chunks
  Copy,        \* peer -> file -> the chunks of the blob it stores, or NoBlob
  NoBlob,
  NoTransfer,
  MaxFetches,  \* bound: downloads started, files shared
  MaxFaults,   \* bound: links lost, timers that fire early, failed puts, reloads
  BanDepth     \* -BAN_THRESHOLD, in tenths (500 in the code)

(* The bytes that hash to c.                                                 *)
Original(c) == [i \in 1..Size[c] |-> "good"]

Blob == Seq({"good", "bad"})

ASSUME CopyAssumption ==
  /\ Size \in [Cid -> Nat]
  /\ Copy \in [Peer -> [Cid -> Blob \cup {NoBlob}]]
  /\ NoBlob \notin Blob

ASSUME PeerAssumption == IsFiniteSet(Peer)

ASSUME FileBounds == MaxFetches \in Nat /\ MaxFaults \in Nat /\ BanDepth \in Nat \ {0}

VARIABLES
  fetch,      \* file -> where its fetchBlob is: the state of one coroutine
  incoming,   \* file -> the transfer under way, or NoTransfer
  blobs,      \* file -> the blob in IndexedDB, or NoBlob
  linked,     \* the peers with an open DataChannel
  toPeer,     \* peer -> BLOB_REQ frames on their way to it: files
  toMe,       \* peer -> its frames on their way here
  serving,    \* peer -> its runs of serve(), told apart by a number
  score,      \* peer -> reputation in memory, in tenths
  stored,     \* peer -> the score last put to IndexedDB
  fetches,    \* downloads started, files shared
  faults      \* faults so far

vars == <<fetch, incoming, blobs, linked, toPeer, toMe, serving, score, stored,
          fetches, faults>>

fetching == <<fetch, incoming, blobs, score, stored, fetches>>

network == <<linked, toPeer, toMe, serving>>

IsBanned(p) == score[p] <= -BanDepth

-----------------------------------------------------------------------------
(* The fetching side                                                         *)

Idle == [at |-> "idle"]

Looking == [at |-> "looking"]

Asking(left) == [at |-> "asking", left |-> left]

Storing(p, bytes, left) == [at |-> "storing", peer |-> p, bytes |-> bytes, left |-> left]

(* BLOB_REQ has gone to p; there is no BLOB_META yet.                         *)
NewTransfer(p) ==
  [peer |-> p, total |-> -1, chunks |-> <<>>, received |-> 0, hashing |-> {}]

Missing == "missing"

(* rank(): the peers with the best score first, equal ones in any order.      *)
Ranked(peers) ==
  {s \in [1..Cardinality(peers) -> peers] :
     \A i, j \in DOMAIN s : i < j => s[i] # s[j] /\ score[s[i]] >= score[s[j]]}

(* onOutcome: the peers of `failed` lose points, and so it is stored.          *)
Charge(s, peers, event) ==
  [p \in Peer |-> IF p \in peers THEN Record(s[p], event) ELSE s[p]]

(* fetchBlob goes on with the peers of `left`, `failed` having just failed: it  *)
(* asks the first whose link is open, and those before it, to which the frame  *)
(* cannot be sent, fail as well. The transfer of c before has been removed.    *)
GoOn(c, left, failed) ==
  LET reached == {i \in DOMAIN left : left[i] \in linked}
      next == CHOOSE i \in reached : \A j \in reached : i <= j
      skipped == {left[i] : i \in {j \in DOMAIN left : reached = {} \/ j < next}}
      s == Charge(score, failed \cup skipped, "file_failed") IN
  /\ score' = s
  /\ stored' = [p \in Peer |-> IF p \in failed \cup skipped THEN s[p] ELSE stored[p]]
  /\ IF reached = {}
     THEN /\ fetch' = [fetch EXCEPT ![c] = Idle]
          /\ incoming' = [incoming EXCEPT ![c] = NoTransfer]
          /\ UNCHANGED toPeer
     ELSE /\ fetch' = [fetch EXCEPT ![c] = Asking(SubSeq(left, next + 1, Len(left)))]
          /\ incoming' = [incoming EXCEPT ![c] = NewTransfer(left[next])]
          /\ toPeer' = [toPeer EXCEPT ![left[next]] = Append(@, c)]

\* Mutant: the first provider that fails ends the download.
Reject_Last(c) == GoOn(c, <<>>, {incoming[c].peer})

(* The promise of the transfer is rejected; `finally` removes the transfer.    *)
Reject(c) == GoOn(c, fetch[c].left, {incoming[c].peer})

(* downloadFile: not while the same file is being fetched.                     *)
Download(c) ==
  /\ fetch[c] = Idle
  /\ fetches < MaxFetches
  /\ fetches' = fetches + 1
  /\ fetch' = [fetch EXCEPT ![c] = Looking]
  /\ UNCHANGED <<incoming, blobs, score, stored, faults>> /\ UNCHANGED network

(* shareFile: the user picks a file with these bytes, which is stored.         *)
Share(c) ==
  /\ fetches < MaxFetches
  /\ fetches' = fetches + 1
  /\ blobs' = [blobs EXCEPT ![c] = Original(c)]
  /\ UNCHANGED <<fetch, incoming, score, stored, faults>> /\ UNCHANGED network

(* fetchBlob after localBlob: from the store, or from the connected peers.     *)
LookedUp(c) ==
  /\ fetch[c] = Looking
  /\ IF blobs[c] # NoBlob \/ linked = {}
     THEN /\ fetch' = [fetch EXCEPT ![c] = Idle]
          /\ UNCHANGED <<incoming, toPeer, score, stored>>
     ELSE \E order \in Ranked(linked) : GoOn(c, order, {})
  /\ UNCHANGED <<blobs, linked, toMe, serving, fetches, faults>>

(* The promise is resolved: `finally` removes the transfer, the put begins.    *)
Resolve(c, bytes) ==
  /\ fetch' = [fetch EXCEPT ![c] = Storing(incoming[c].peer, bytes, fetch[c].left)]
  /\ incoming' = [incoming EXCEPT ![c] = NoTransfer]
  /\ UNCHANGED <<toPeer, score, stored>>

(* The put resolves: the file is delivered and the peer gains points.          *)
Stored(c) ==
  LET p == fetch[c].peer
      s == Charge(score, {p}, "file_served") IN
  /\ fetch[c].at = "storing"
  /\ blobs' = [blobs EXCEPT ![c] = fetch[c].bytes]
  /\ score' = s
  /\ stored' = [stored EXCEPT ![p] = s[p]]
  /\ fetch' = [fetch EXCEPT ![c] = Idle]
  /\ UNCHANGED <<incoming, fetches, faults>> /\ UNCHANGED network

(* The put is refused (no room): the catch takes it for a failure of the peer. *)
PutFails(c) ==
  /\ fetch[c].at = "storing"
  /\ faults < MaxFaults
  /\ faults' = faults + 1
  /\ GoOn(c, fetch[c].left, {fetch[c].peer})
  /\ UNCHANGED <<blobs, linked, toMe, serving, fetches>>

\* Mutant: the bytes are taken without comparing their hash.
HashDone_Unchecked(c) ==
  /\ incoming[c] # NoTransfer
  /\ \E bytes \in incoming[c].hashing : Resolve(c, bytes)
  /\ UNCHANGED <<blobs, linked, toMe, serving, fetches, faults>>

(* cidOfBytes() returns: the bytes are the file, or the transfer is rejected.  *)
HashDone(c) ==
  /\ incoming[c] # NoTransfer
  /\ \E bytes \in incoming[c].hashing :
       IF bytes = Original(c) THEN Resolve(c, bytes) ELSE Reject(c)
  /\ UNCHANGED <<blobs, linked, toMe, serving, fetches, faults>>

-----------------------------------------------------------------------------
(* Frames                                                                    *)

Meta(c, n) == [t |-> "BLOB_META", cid |-> c, chunks |-> n]

Chunk(c, i, bytes) == [t |-> "BLOB_CHUNK", cid |-> c, idx |-> i, data |-> bytes]

Err(c) == [t |-> "BLOB_ERR", cid |-> c]

Frame ==
  [t : {"BLOB_META"}, cid : Cid, chunks : Nat]
    \cup [t : {"BLOB_CHUNK"}, cid : Cid, idx : Nat, data : {"good", "bad"}]
    \cup [t : {"BLOB_ERR"}, cid : Cid]

\* Mutant: whoever sends a frame about the file is believed.
IsExpected_Anyone(p, msg) == incoming[msg.cid] # NoTransfer

(* The frame comes from the peer the file was asked from.                      *)
IsExpected(p, msg) ==
  incoming[msg.cid] # NoTransfer /\ incoming[msg.cid].peer = p

(* What finish() assembles is hashed next, if no chunk is missing.             *)
Finish(c, transfer) ==
  IF \E i \in DOMAIN transfer.chunks : transfer.chunks[i] = Missing
  THEN Reject(c)
  ELSE /\ incoming' = [incoming EXCEPT ![c] =
                         [transfer EXCEPT !.hashing = @ \cup {transfer.chunks}]]
       /\ UNCHANGED <<fetch, toPeer, score, stored>>

Keep(c, transfer) ==
  /\ incoming' = [incoming EXCEPT ![c] = transfer]
  /\ UNCHANGED <<fetch, toPeer, score, stored>>

Ignore == UNCHANGED <<fetch, incoming, toPeer, score, stored>>

(* BLOB_META: room for the chunks. What was counted so far is not reset.       *)
HandleMeta(c, n) ==
  LET t == [incoming[c] EXCEPT !.total = n, !.chunks = [i \in 1..n |-> Missing]] IN
  IF n = 0 THEN Finish(c, t) ELSE Keep(c, t)

\* Mutant: the announced size is not enforced.
HandleChunk_Uncapped(c, i, bytes) ==
  LET t == [incoming[c] EXCEPT !.chunks[i] = bytes, !.received = @ + 1] IN
  CASE i \notin DOMAIN incoming[c].chunks \/ incoming[c].total < 0 -> Ignore
    [] i \in DOMAIN incoming[c].chunks /\ incoming[c].chunks[i] # Missing -> Ignore
    [] OTHER -> IF t.received = t.total THEN Finish(c, t) ELSE Keep(c, t)

(* BLOB_CHUNK: outside the announced range and twice are ignored, more than     *)
(* the announced size is an error, the last one completes the transfer.       *)
HandleChunk(c, i, bytes) ==
  LET t == [incoming[c] EXCEPT !.chunks[i] = bytes, !.received = @ + 1] IN
  CASE i \notin DOMAIN incoming[c].chunks \/ incoming[c].total < 0 -> Ignore
    [] i \in DOMAIN incoming[c].chunks /\ incoming[c].chunks[i] # Missing -> Ignore
    [] OTHER -> IF t.received > t.total THEN Reject(c)
                ELSE IF t.received = t.total THEN Finish(c, t)
                ELSE Keep(c, t)

(* handleMessage for a frame of p.                                             *)
HandleMessage(p, msg) ==
  IF ~IsExpected(p, msg) THEN Ignore
  ELSE CASE msg.t = "BLOB_META" -> HandleMeta(msg.cid, msg.chunks)
         [] msg.t = "BLOB_CHUNK" -> HandleChunk(msg.cid, msg.idx, msg.data)
         [] msg.t = "BLOB_ERR" -> Reject(msg.cid)

(* handleDc: a frame of p arrives.                                             *)
Receive(p) ==
  /\ toMe[p] # <<>>
  /\ ~IsBanned(p)
  /\ HandleMessage(p, Head(toMe[p]))
  /\ toMe' = [toMe EXCEPT ![p] = Tail(@)]
  /\ UNCHANGED <<blobs, linked, serving, fetches, faults>>

(* The channel of those runs of serve() that have got one has closed. They wait  *)
(* for its buffer to drain, and look at it again in the next round only.       *)
Cut(runs) == {[run EXCEPT !.cut = @ \/ run.next > 0] : run \in runs}

(* The link to p closes: what is on it is lost.                                *)
Unlink(p) ==
  /\ linked' = linked \ {p}
  /\ toPeer' = [toPeer EXCEPT ![p] = <<>>]
  /\ toMe' = [toMe EXCEPT ![p] = <<>>]
  /\ serving' = [serving EXCEPT ![p] = Cut(@)]

(* handleDc: a frame of a banned peer closes its link.                         *)
RemovePeer(p) ==
  /\ toMe[p] # <<>>
  /\ IsBanned(p)
  /\ Unlink(p)
  /\ UNCHANGED fetching /\ UNCHANGED faults

(* Something about c is on its way between p and this browser.                 *)
UnderWay(p, c) ==
  \/ \E i \in DOMAIN toPeer[p] : toPeer[p][i] = c
  \/ \E i \in DOMAIN toMe[p] : toMe[p][i].cid = c
  \/ \E run \in serving[p] : run.cid = c

\* Mutant: the timer is only set again by a chunk, not with the request.
TimeOut_AfterMeta(c) ==
  /\ incoming[c] # NoTransfer
  /\ incoming[c].total >= 0
  /\ IF UnderWay(incoming[c].peer, c) \/ incoming[c].hashing # {}
     THEN faults < MaxFaults /\ faults' = faults + 1
     ELSE UNCHANGED faults
  /\ Reject(c)
  /\ UNCHANGED <<blobs, linked, toMe, serving, fetches>>

(* IDLE_TIMEOUT_MS without a chunk of c: when there is none to come, or, as a   *)
(* fault, when the network is slower than that.                               *)
TimeOut(c) ==
  /\ incoming[c] # NoTransfer
  /\ IF UnderWay(incoming[c].peer, c) \/ incoming[c].hashing # {}
     THEN faults < MaxFaults /\ faults' = faults + 1
     ELSE UNCHANGED faults
  /\ Reject(c)
  /\ UNCHANGED <<blobs, linked, toMe, serving, fetches>>

-----------------------------------------------------------------------------
(* The serving side                                                          *)

(* p takes a BLOB_REQ and looks the file up in its store.                      *)
TakeRequest(p) ==
  LET new == CHOOSE k \in 0..Cardinality(serving[p]) : \A run \in serving[p] : run.id # k IN
  /\ toPeer[p] # <<>>
  /\ toPeer' = [toPeer EXCEPT ![p] = Tail(@)]
  /\ serving' = [serving EXCEPT ![p] = @ \cup
                  {[id |-> new, cid |-> Head(toPeer[p]), next |-> 0, cut |-> FALSE]}]
  /\ UNCHANGED <<linked, toMe, faults>> /\ UNCHANGED fetching

(* A run of serve() goes on to chunk i, or is over.                            *)
Advance(p, run, i) ==
  serving' = [serving EXCEPT ![p] =
                (@ \ {run}) \cup IF i \in DOMAIN Copy[p][run.cid]
                                 THEN {[run EXCEPT !.next = i]} ELSE {}]

(* The store has answered: BLOB_ERR, or BLOB_META and the channel to stream on. *)
Serve(p, run) ==
  LET copy == Copy[p][run.cid] IN
  /\ run.next = 0
  /\ IF copy = NoBlob \/ p \notin linked
     THEN serving' = [serving EXCEPT ![p] = @ \ {run}]
     ELSE Advance(p, run, 1)
  /\ toMe' = IF p \notin linked THEN toMe
             ELSE [toMe EXCEPT ![p] =
                     Append(@, IF copy = NoBlob THEN Err(run.cid)
                                                ELSE Meta(run.cid, Len(copy)))]
  /\ UNCHANGED <<linked, toPeer, faults>> /\ UNCHANGED fetching

(* After the await: a chunk on whatever link there is to this browser, which may *)
(* be a later one; the run is over if there is none or its channel has closed.  *)
SendChunk(p, run) ==
  /\ run.next > 0
  /\ toMe' = IF p \notin linked THEN toMe
             ELSE [toMe EXCEPT ![p] =
                     Append(@, Chunk(run.cid, run.next, Copy[p][run.cid][run.next]))]
  /\ IF p \notin linked \/ run.cut
     THEN serving' = [serving EXCEPT ![p] = @ \ {run}]
     ELSE Advance(p, run, run.next + 1)
  /\ UNCHANGED <<linked, toPeer, faults>> /\ UNCHANGED fetching

-----------------------------------------------------------------------------
(* Links and reloads                                                         *)

Disconnect(p) ==
  /\ p \in linked
  /\ faults < MaxFaults
  /\ faults' = faults + 1
  /\ Unlink(p)
  /\ UNCHANGED fetching

(* The mesh dials again, but not who is banned; onPeerOpen gives points.       *)
Reconnect(p) ==
  LET s == Charge(score, {p}, "connect") IN
  /\ p \notin linked
  /\ ~IsBanned(p)
  /\ linked' = linked \cup {p}
  /\ score' = s
  /\ stored' = [stored EXCEPT ![p] = s[p]]
  /\ UNCHANGED <<fetch, incoming, blobs, toPeer, toMe, serving, fetches, faults>>

(* The page is loaded again: boot() decays the scores it loads and does not     *)
(* store the result.                                                         *)
Reload ==
  /\ faults < MaxFaults
  /\ faults' = faults + 1
  /\ fetch' = [c \in Cid |-> Idle]
  /\ incoming' = [c \in Cid |-> NoTransfer]
  /\ linked' = {}
  /\ toPeer' = [p \in Peer |-> <<>>]
  /\ toMe' = [p \in Peer |-> <<>>]
  /\ serving' = [p \in Peer |-> Cut(serving[p])]
  /\ score' = [p \in Peer |-> Reloaded(stored[p])]
  /\ UNCHANGED <<blobs, stored, fetches>>

-----------------------------------------------------------------------------
Init ==
  /\ fetch = [c \in Cid |-> Idle]
  /\ incoming = [c \in Cid |-> NoTransfer]
  /\ blobs = [c \in Cid |-> NoBlob]
  /\ linked = Peer
  /\ toPeer = [p \in Peer |-> <<>>]
  /\ toMe = [p \in Peer |-> <<>>]
  /\ serving = [p \in Peer |-> {}]
  /\ score = [p \in Peer |-> 0]
  /\ stored = [p \in Peer |-> 0]
  /\ fetches = 0
  /\ faults = 0

FetchStep(c) == LookedUp(c) \/ HashDone(c) \/ Stored(c) \/ TimeOut(c)

ServeStep(p) == TakeRequest(p) \/ \E run \in serving[p] : Serve(p, run) \/ SendChunk(p, run)

Next ==
  \/ \E c \in Cid : Download(c) \/ Share(c) \/ FetchStep(c) \/ PutFails(c)
  \/ \E p \in Peer : Receive(p) \/ RemovePeer(p) \/ ServeStep(p)
  \/ \E p \in Peer : Disconnect(p) \/ Reconnect(p)
  \/ Reload

(* Promises settle, timers fire, frames arrive, peers serve, and the mesh        *)
(* dials again.                                                               *)
Spec ==
  /\ Init /\ [][Next]_vars
  /\ \A c \in Cid : WF_vars(LookedUp(c)) /\ WF_vars(HashDone(c)) /\ WF_vars(Stored(c))
                    /\ WF_vars(TimeOut(c))
  /\ \A p \in Peer : WF_vars(Receive(p) \/ RemovePeer(p)) /\ WF_vars(ServeStep(p))
                     /\ WF_vars(Reconnect(p))
-----------------------------------------------------------------------------
Transfer ==
  [peer : Peer, total : {-1} \cup Nat, chunks : Seq({Missing, "good", "bad"}),
   received : Nat, hashing : SUBSET Blob]

Fetch ==
  {Idle, Looking} \cup [at : {"asking"}, left : Seq(Peer)]
    \cup [at : {"storing"}, peer : Peer, bytes : Blob, left : Seq(Peer)]

(* The state is well formed, and no transfer counts more than was announced     *)
(* (the cap on memory of files.ts:172-178).                                  *)
TypeOK ==
  /\ fetch \in [Cid -> Fetch]
  /\ \A c \in Cid : incoming[c] # NoTransfer =>
       /\ incoming[c] \in Transfer
       /\ Len(incoming[c].chunks) = IF incoming[c].total < 0 THEN 0 ELSE incoming[c].total
       /\ incoming[c].total < 0 \/ incoming[c].received <= incoming[c].total
  /\ blobs \in [Cid -> Blob \cup {NoBlob}]
  /\ linked \subseteq Peer
  /\ toPeer \in [Peer -> Seq(Cid)]
  /\ toMe \in [Peer -> Seq(Frame)]
  /\ \A p \in Peer : \A run \in serving[p] :
       run \in [id : Nat, cid : Cid, next : Nat, cut : BOOLEAN]
  /\ score \in [Peer -> ScoreMin..ScoreMax]
  /\ stored \in [Peer -> ScoreMin..ScoreMax]
  /\ fetches \in 0..MaxFetches
  /\ faults \in 0..MaxFaults

(* "a corrupted or malicious transfer can never produce the wrong content for a *)
(* CID" (files.ts:9-10), in whatever order answers and retries cross.          *)
StoredIsOriginal == \A c \in Cid : blobs[c] \in {NoBlob, Original(c)}

(* A transfer holds bytes of the peer it was asked from only, whatever answers  *)
(* of others, asked before, still come: a peer is never charged with the damage *)
(* of another's copy.                                                       *)
GatheredIsPeersCopy ==
  \A c \in Cid : incoming[c] # NoTransfer =>
    LET copy == Copy[incoming[c].peer][c] IN
    /\ \A i \in DOMAIN incoming[c].chunks :
         incoming[c].chunks[i] # Missing =>
           copy # NoBlob /\ i <= Len(copy) /\ incoming[c].chunks[i] = copy[i]
    /\ incoming[c].hashing \subseteq {copy}

(* A download ends, whatever its providers do: with the file, or with an error *)
(* after the last of them.                                                  *)
FetchEnds == \A c \in Cid : fetch[c] # Idle ~> fetch[c] = Idle

(* p has the file and could serve it at once, and nothing of an earlier attempt *)
(* is left over.                                                            *)
Provider(p, c) ==
  /\ p \in linked /\ ~IsBanned(p)
  /\ Copy[p][c] = Original(c)
  /\ \A q \in Peer : ~UnderWay(q, c)

(* A download finds the provider behind any number of peers that have no copy   *)
(* or a damaged one, unless faults come in between or other downloads make the  *)
(* provider banned.                                                         *)
ProviderIsFound ==
  \A c \in Cid, p \in Peer :
    fetch[c] = Looking /\ faults = MaxFaults /\ Provider(p, c)
      ~> blobs[c] = Original(c) \/ IsBanned(p)
=============================================================================
