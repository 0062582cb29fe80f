---------------------------- MODULE ChatReplication ----------------------------
(***************************************************************************)
(* How the chat log of one conversation spreads: sendChat / shareFile,      *)
(* SYNC_REQ and CHAT_DELTA handling, gossip forwarding and periodic         *)
(* anti-entropy (src/client/conversation.ts), over the DataChannels of the  *)
(* mesh (src/client/webrtc.ts), with the log persisted in IndexedDB         *)
(* (src/client/store.ts).                                                   *)
(*                                                                          *)
(* Each await of the code is a point where other handlers run, so each      *)
(* asynchronous operation is one action per stretch between two awaits; what *)
(* it still has to do is kept in `signing`, `verifying` and `writes`.        *)
(* Every node runs the unmodified program: no entry is ever forged.          *)
(***************************************************************************)
EXTENDS GSetLog, Scores, Sequences

CONSTANTS
  Node,          \* the browsers of the conversation
  Topology,      \* the pairs the mesh may link: a set of two-element sets
  MaxPosts,      \* bound: node -> the entries it writes
  MaxDrops,      \* bound: links lost
  Notices,       \* bound: the ways an end learns of it, among those of AfterClose
  MaxReloads,    \* bound: tabs closed or crashed, and opened again
  MaxWipes,      \* bound, per node: reloads that find an empty store
  MaxAborts,     \* bound: puts refused, and transactions that do not commit
  MaxDelta,      \* MAX_ENTRIES_PER_DELTA (512 in the code)
  MaxFrame,      \* entries that fit in MAX_DC_FRAME_BYTES (512 KiB in the code)
  BanDepth       \* -BAN_THRESHOLD, in tenths (500 in the code)

ASSUME BoundsAssumption ==
  /\ \A n \in Node : MaxPosts[n] \in Nat
  /\ {MaxDrops, MaxReloads, MaxWipes, MaxAborts} \subseteq Nat
  /\ {MaxDelta, MaxFrame, BanDepth} \subseteq Nat \ {0}
  /\ Notices \subseteq {"closed", "keepalive_timeout", "pc_failed"} /\ Notices # {}

ASSUME TopologyAssumption ==
  \A l \in Topology : \E a, b \in Node : a # b /\ l = {a, b}

VARIABLES
  log,        \* node -> its GSetLog
  epoch,      \* node -> the persisted epoch of its replica id
  disk,       \* node -> the entries IndexedDB holds
  signing,    \* node -> its entries whose signature is being computed
  verifying,  \* node -> deltas whose signatures are being checked
  writes,     \* node -> transactions of IndexedDB that have not ended, in order, each
              \*         a put with its continuation; `resolved` once that has run
  links,      \* the DataChannels that are open
  chan,       \* node -> node -> frames in flight, in order
  score,      \* node -> node -> reputation, in tenths
  posts,      \* node -> entries written so far; also the body of the next one
  acked,      \* history: node -> contents of its entries whose sendChat returned, less
              \*          those that a crash or a failed transaction then kept off the disk
  posted,     \* history: contents of every entry written
  faults      \* links lost, reloads and failed transactions so far

vars == <<log, epoch, disk, signing, verifying, writes, links, chan, score,
          posts, acked, posted, faults>>

(* `${node_id}.${epoch}`: a fresh epoch is a number not used before.         *)
Origin == Node \X (0..MaxWipes)

Self(n) == <<n, epoch[n]>>

Entry == [origin : Origin, seq : Nat \ {0}, lamport : Nat, body : Nat, signed : BOOLEAN]

SignedContents(entries) == Contents({e \in entries : e.signed})

Peers(n) == {m \in Node : {n, m} \in links}

IsBanned(n, m) == score[n][m] <= -BanDepth

-----------------------------------------------------------------------------
(* Frames and what is done with them.                                        *)

SyncReq(n) == [t |-> "SYNC_REQ", chat_vv |-> log[n].vv]

ChatDelta(entries) == [t |-> "CHAT_DELTA", entries |-> entries]

Frame == [t : {"SYNC_REQ"}, chat_vv : [Origin -> Nat]]
           \cup [t : {"CHAT_DELTA"}, entries : SUBSET Entry]

(* The serialised frame is longer than MAX_DC_FRAME_BYTES.                    *)
TooLong(msg) == msg.t = "CHAT_DELTA" /\ Cardinality(msg.entries) > MaxFrame

(* The peers of n except `except` get the frame on their channel.            *)
Broadcast(n, msg, except) ==
  chan' = [chan EXCEPT ![n] =
             [m \in Node |-> IF m \in Peers(n) \ {except}
                             THEN Append(@[m], msg) ELSE @[m]]]

\* Mutant: a put overtakes one that was issued before it.
Put_Overtaking(n, entries, out, except) ==
  LET w == [snapshot |-> entries, out |-> out, except |-> except, resolved |-> FALSE] IN
  writes' = [writes EXCEPT ![n] =
               IF @ # <<>> /\ ~Head(@).resolved THEN <<w>> \o @ ELSE Append(@, w)]

(* persistChat(): the put clones the whole log now; `out` is broadcast to     *)
(* all peers but `except` once the put resolves.                             *)
Put(n, entries, out, except) ==
  writes' = [writes EXCEPT ![n] =
               Append(@, [snapshot |-> entries, out |-> out, except |-> except,
                          resolved |-> FALSE])]

(* The request of the oldest put succeeds.                                   *)
Resolve(puts) == [puts EXCEPT ![1].resolved = TRUE]

(* What is in flight on a pair of channels that closes is lost.              *)
Cut(c, pairs) ==
  [n \in Node |-> [m \in Node |-> IF {n, m} \in pairs THEN <<>> ELSE c[n][m]]]

-----------------------------------------------------------------------------
Init ==
  /\ log = [n \in Node |-> EmptyLog(Origin)]
  /\ epoch = [n \in Node |-> 0]
  /\ disk = [n \in Node |-> {}]
  /\ signing = [n \in Node |-> {}]
  /\ verifying = [n \in Node |-> {}]
  /\ writes = [n \in Node |-> <<>>]
  /\ links = {}
  /\ chan = [n \in Node |-> [m \in Node |-> <<>>]]
  /\ score = [n \in Node |-> [m \in Node |-> 0]]
  /\ posts = [n \in Node |-> 0]
  /\ acked = [n \in Node |-> {}]
  /\ posted = {}
  /\ faults = [drops |-> 0, reloads |-> 0, aborts |-> 0]

-----------------------------------------------------------------------------
(* Links                                                                     *)

(* The mesh opens a channel; onPeerOpen runs at both ends. A peer that is     *)
(* banned is ignored by handleRelayEvent, so no link to it comes about.      *)
Connect(n, m) ==
  /\ {n, m} \in Topology \ links
  /\ ~IsBanned(n, m) /\ ~IsBanned(m, n)
  /\ links' = links \cup {{n, m}}
  /\ score' = [score EXCEPT ![n][m] = Record(@, "connect"),
                            ![m][n] = Record(@, "connect")]
  /\ chan' = [chan EXCEPT ![n][m] = Append(@, SyncReq(n)),
                          ![m][n] = Append(@, SyncReq(m))]
  /\ UNCHANGED <<log, epoch, disk, signing, verifying, writes, posts, acked, posted, faults>>

(* How an end learns that a link is gone: dc.onclose, no PONG, or the state of *)
(* the RTCPeerConnection. onPeerClose takes points for the last two.          *)
AfterClose(s, how) == IF how = "closed" THEN s ELSE Record(s, how)

(* A link is lost, and each end learns of it in its own way.                  *)
Disconnect(n, m) ==
  /\ {n, m} \in links
  /\ faults.drops < MaxDrops
  /\ faults' = [faults EXCEPT !.drops = @ + 1]
  /\ links' = links \ {{n, m}}
  /\ chan' = Cut(chan, {{n, m}})
  /\ \E hn, hm \in Notices :
       score' = [score EXCEPT ![n][m] = AfterClose(@, hn), ![m][n] = AfterClose(@, hm)]
  /\ UNCHANGED <<log, epoch, disk, signing, verifying, writes, posts, acked, posted>>

(* A frame of a banned peer: removePeer closes the link instead.             *)
RemovePeer(n, m) ==
  /\ {n, m} \in links
  /\ chan[m][n] # <<>>
  /\ ~TooLong(Head(chan[m][n]))
  /\ IsBanned(n, m)
  /\ links' = links \ {{n, m}}
  /\ chan' = Cut(chan, {{n, m}})
  /\ UNCHANGED <<log, epoch, disk, signing, verifying, writes, score, posts, acked, posted, faults>>

-----------------------------------------------------------------------------
(* Writing an entry: sendChat and shareFile                                  *)

(* append(), then the signature is awaited. The entry is already in the log.  *)
SendChat(n) ==
  LET e == NewEntry(log[n], Self(n), posts[n]) IN
  /\ posts[n] < MaxPosts[n]
  /\ posts' = [posts EXCEPT ![n] = @ + 1]
  /\ log' = [log EXCEPT ![n] = Append1(@, e)]
  /\ signing' = [signing EXCEPT ![n] = @ \cup {e}]
  /\ posted' = posted \cup {Content(e)}
  /\ UNCHANGED <<epoch, disk, verifying, writes, links, chan, score, acked, faults>>

\* Mutant: the put clones the log before the signature is in.
SignDone_StalePut(n, e) ==
  /\ e \in signing[n]
  /\ signing' = [signing EXCEPT ![n] = @ \ {e}]
  /\ log' = [log EXCEPT ![n] = SetSigned(@, e)]
  /\ Put(n, log[n].entries, {[e EXCEPT !.signed = TRUE]}, n)
  /\ UNCHANGED <<epoch, disk, verifying, links, chan, score, posts, acked, posted, faults>>

(* The signature arrives; persistChat() is called in the same stretch.        *)
SignDone(n, e) ==
  LET l == SetSigned(log[n], e) IN
  /\ e \in signing[n]
  /\ signing' = [signing EXCEPT ![n] = @ \ {e}]
  /\ log' = [log EXCEPT ![n] = l]
  /\ Put(n, l.entries, {[e EXCEPT !.signed = TRUE]}, n)
  /\ UNCHANGED <<epoch, disk, verifying, links, chan, score, posts, acked, posted, faults>>

\* Mutant: entries of others are not passed on.
WriteDone_NoForward(n) ==
  LET w == Head(writes[n]) IN
  /\ writes[n] # <<>> /\ ~w.resolved
  /\ writes' = [writes EXCEPT ![n] = Resolve(@)]
  /\ IF w.except = n THEN Broadcast(n, ChatDelta(w.out), n) ELSE UNCHANGED chan
  /\ acked' = IF w.except = n THEN [acked EXCEPT ![n] = @ \cup Contents(w.out)]
                              ELSE acked
  /\ UNCHANGED <<log, epoch, disk, signing, verifying, links, score, posts, posted, faults>>

(* The request of the oldest put succeeds, and the promise of tx() with it:    *)
(* sendChat broadcasts its entry and returns, or acceptEntries forwards what   *)
(* it added to everyone but the sender. The transaction has yet to commit.     *)
WriteDone(n) ==
  LET w == Head(writes[n]) IN
  /\ writes[n] # <<>> /\ ~w.resolved
  /\ writes' = [writes EXCEPT ![n] = Resolve(@)]
  /\ Broadcast(n, ChatDelta(w.out), w.except)
  /\ acked' = IF w.except = n THEN [acked EXCEPT ![n] = @ \cup Contents(w.out)]
                              ELSE acked
  /\ UNCHANGED <<log, epoch, disk, signing, verifying, links, score, posts, posted, faults>>

(* Its transaction commits. Nothing in the program waits for that; the next    *)
(* transaction on the store starts only then.                                 *)
Commit(n) ==
  /\ writes[n] # <<>> /\ Head(writes[n]).resolved
  /\ writes' = [writes EXCEPT ![n] = Tail(@)]
  /\ disk' = [disk EXCEPT ![n] = Head(writes[n]).snapshot]
  /\ UNCHANGED <<log, epoch, signing, verifying, links, chan, score, posts, acked, posted, faults>>

(* The oldest transaction aborts (no room, an error of the device). If its put  *)
(* had resolved no one learns of it; if not, the promise is rejected and what  *)
(* awaited it does not go on.                                                 *)
Abort(n) ==
  /\ writes[n] # <<>>
  /\ faults.aborts < MaxAborts
  /\ faults' = [faults EXCEPT !.aborts = @ + 1]
  /\ writes' = [writes EXCEPT ![n] = Tail(@)]
  /\ acked' = [acked EXCEPT ![n] = @ \cap SignedContents(disk[n])]
  /\ UNCHANGED <<log, epoch, disk, signing, verifying, links, chan, score, posts, posted>>

-----------------------------------------------------------------------------
(* Synchronisation                                                           *)

(* handleDc SYNC_REQ: n answers m with what m's version vector lacks, whether  *)
(* or not those entries are signed and persisted yet.                         *)
HandleSyncReq(n, m) ==
  LET msg == Head(chan[m][n])
      delta == ChatDelta(EntriesMissingFrom(log[n], msg.chat_vv)) IN
  /\ chan[m][n] # <<>>
  /\ msg.t = "SYNC_REQ"
  /\ ~IsBanned(n, m)
  /\ chan' = [chan EXCEPT ![m][n] = Tail(@), ![n][m] = Append(@, delta)]
  /\ UNCHANGED <<log, epoch, disk, signing, verifying, writes, links, score, posts, acked, posted, faults>>

(* handleDc CHAT_DELTA: acceptEntries takes the first MaxDelta entries and    *)
(* starts to verify them.                                                     *)
HandleChatDelta(n, m) ==
  LET msg == Head(chan[m][n]) IN
  /\ chan[m][n] # <<>>
  /\ msg.t = "CHAT_DELTA"
  /\ ~IsBanned(n, m)
  /\ ~TooLong(msg)
  /\ chan' = [chan EXCEPT ![m][n] = Tail(@)]
  /\ \E batch \in FirstEntries(msg.entries, MaxDelta) :
       verifying' = [verifying EXCEPT ![n] =
                       @ \cup IF batch = {} THEN {} ELSE {[from |-> m, batch |-> batch]}]
  /\ UNCHANGED <<log, epoch, disk, signing, writes, links, score, posts, acked, posted, faults>>

(* dc.onmessage drops a frame longer than MAX_DC_FRAME_BYTES unread.           *)
DropLongFrame(n, m) ==
  /\ chan[m][n] # <<>>
  /\ TooLong(Head(chan[m][n]))
  /\ chan' = [chan EXCEPT ![m][n] = Tail(@)]
  /\ UNCHANGED <<log, epoch, disk, signing, verifying, writes, links, score, posts, acked, posted, faults>>

\* Mutant: an entry that fails verification is merged too.
VerifyDone_Unverified(n, job) ==
  LET added == Fresh(log[n], job.batch)
      l == Merge(log[n], job.batch) IN
  /\ job \in verifying[n]
  /\ verifying' = [verifying EXCEPT ![n] = @ \ {job}]
  /\ log' = [log EXCEPT ![n] = l]
  /\ IF added = {} THEN UNCHANGED writes ELSE Put(n, l.entries, added, job.from)
  /\ UNCHANGED <<epoch, disk, signing, links, chan, score, posts, acked, posted, faults>>

(* The last signature of a delta has been checked: an unsigned entry costs     *)
(* the sender a forged-entry record, the others are merged and persisted.     *)
VerifyDone(n, job) ==
  LET good == {e \in job.batch : e.signed}
      added == Fresh(log[n], good)
      l == Merge(log[n], good) IN
  /\ job \in verifying[n]
  /\ verifying' = [verifying EXCEPT ![n] = @ \ {job}]
  /\ score' = [score EXCEPT ![n][job.from] =
                 RecordTimes(@, "forged_entry", Cardinality(job.batch \ good))]
  /\ log' = [log EXCEPT ![n] = l]
  /\ IF added = {} THEN UNCHANGED writes ELSE Put(n, l.entries, added, job.from)
  /\ UNCHANGED <<epoch, disk, signing, links, chan, posts, acked, posted, faults>>

(* Bound on the ANTI_ENTROPY_MS timer: its period is a minute, an exchange and  *)
(* a signature take milliseconds, so it fires after the exchange before is over *)
(* and not while the peer signs. (The peer may start to sign before the request *)
(* it sends arrives.)                                                          *)
TimerDue(n, m) ==
  /\ \A i \in DOMAIN chan[n][m] : chan[n][m][i].t # "SYNC_REQ"
  /\ \A i \in DOMAIN chan[m][n] : chan[m][n][i].t # "CHAT_DELTA"
  /\ \A job \in verifying[n] : job.from # m
  /\ signing[m] = {}

(* n asks a peer, picked at random, for what it lacks.                         *)
AntiEntropy(n, m) ==
  /\ {n, m} \in links
  /\ TimerDue(n, m)
  /\ chan' = [chan EXCEPT ![n][m] = Append(@, SyncReq(n))]
  /\ UNCHANGED <<log, epoch, disk, signing, verifying, writes, links, score, posts, acked, posted, faults>>

-----------------------------------------------------------------------------
(* The tab of n closes or crashes, and start() runs in a new one on what the  *)
(* store holds: what was in memory, in flight or being computed is lost.      *)
(* start() itself is atomic here: nothing reaches the log before it is loaded. *)
Restart(n, stored, newEpoch) ==
  /\ log' = [log EXCEPT ![n] = FromJSON(Origin, stored)]
  /\ disk' = [disk EXCEPT ![n] = stored]
  /\ epoch' = [epoch EXCEPT ![n] = newEpoch]
  /\ signing' = [signing EXCEPT ![n] = {}]
  /\ verifying' = [verifying EXCEPT ![n] = {}]
  /\ writes' = [writes EXCEPT ![n] = <<>>]
  /\ links' = {l \in links : n \notin l}
  /\ chan' = Cut(chan, {l \in links : n \in l})
  /\ UNCHANGED <<posts, posted>>

(* What the next tab may find: each transaction that has not ended, whether    *)
(* its put has resolved or not, commits after the tab is gone or is lost.     *)
Committed(n) ==
  {disk[n]} \cup {writes[n][i].snapshot : i \in DOMAIN writes[n]}

Reload(n) ==
  /\ faults.reloads < MaxReloads
  /\ faults' = [faults EXCEPT !.reloads = @ + 1]
  /\ \E stored \in Committed(n) :
       /\ Restart(n, stored, epoch[n])
       /\ acked' = [acked EXCEPT ![n] = @ \cap SignedContents(stored)]
  /\ score' = [score EXCEPT ![n] = [m \in Node |-> Reloaded(score[n][m])]]

\* Mutant: the replica id has no epoch.
Wipe_SameEpoch(n) ==
  /\ epoch[n] < MaxWipes
  /\ Restart(n, {}, epoch[n])
  /\ score' = [score EXCEPT ![n] = [m \in Node |-> 0]]
  /\ acked' = [acked EXCEPT ![n] = {}]
  /\ UNCHANGED faults

(* The store is gone (cleared, another browser, the in-memory fallback), so    *)
(* start() draws a new epoch.                                                 *)
Wipe(n) ==
  /\ epoch[n] < MaxWipes
  /\ Restart(n, {}, epoch[n] + 1)
  /\ score' = [score EXCEPT ![n] = [m \in Node |-> 0]]
  /\ acked' = [acked EXCEPT ![n] = {}]
  /\ UNCHANGED faults

-----------------------------------------------------------------------------
LinkStep(n, m) == Connect(n, m) \/ Disconnect(n, m) \/ RemovePeer(n, m)

WriteStep(n) ==
  \/ SendChat(n) \/ \E e \in signing[n] : SignDone(n, e)
  \/ WriteDone(n) \/ Commit(n) \/ Abort(n)

SyncStep(n, m) ==
  \/ HandleSyncReq(n, m) \/ HandleChatDelta(n, m)
  \/ DropLongFrame(n, m) \/ AntiEntropy(n, m)

Next ==
  \/ \E n, m \in Node : LinkStep(n, m) \/ SyncStep(n, m)
  \/ \E n \in Node : WriteStep(n) \/ Reload(n) \/ Wipe(n)
  \/ \E n \in Node : \E job \in verifying[n] : VerifyDone(n, job)

Spec == Init /\ [][Next]_vars

(* Promises settle, the frames of an open channel arrive in order, and the mesh *)
(* dials again, with backoff, for as long as a pair is not linked.             *)
GossipFairness ==
  /\ \A n \in Node :
       /\ WF_vars(\E e \in signing[n] : SignDone(n, e))
       /\ WF_vars(WriteDone(n) \/ Commit(n))
       /\ WF_vars(\E job \in verifying[n] : VerifyDone(n, job))
  /\ \A n, m \in Node :
       /\ WF_vars(Connect(n, m))
       /\ WF_vars(\/ RemovePeer(n, m) \/ DropLongFrame(n, m)
                  \/ HandleSyncReq(n, m) \/ HandleChatDelta(n, m))

GossipSpec == Spec /\ GossipFairness

(* Besides, the anti-entropy timer picks every peer again and again.           *)
FairSpec == GossipSpec /\ \A n, m \in Node : WF_vars(AntiEntropy(n, m))

-----------------------------------------------------------------------------
(* Properties                                                                *)

Job == [from : Node, batch : SUBSET Entry]

Write == [snapshot : SUBSET Entry, out : SUBSET Entry, except : Node, resolved : BOOLEAN]

LogType == [entries : SUBSET Entry, vv : [Origin -> Nat], lamport : Nat]

ContentType == [origin : Origin, seq : Nat \ {0}, lamport : Nat, body : Nat]

(* Every variable keeps the shape the code gives it.                          *)
TypeOK ==
  /\ log \in [Node -> LogType]
  /\ epoch \in [Node -> 0..MaxWipes]
  /\ disk \in [Node -> SUBSET Entry]
  /\ signing \in [Node -> SUBSET Entry]
  /\ verifying \in [Node -> SUBSET Job]
  /\ writes \in [Node -> Seq(Write)]
  /\ links \subseteq Topology
  /\ chan \in [Node -> [Node -> Seq(Frame)]]
  /\ score \in [Node -> [Node -> ScoreMin..ScoreMax]]
  /\ posts \in [Node -> Nat]
  /\ acked \in [Node -> SUBSET ContentType]
  /\ posted \subseteq ContentType
  /\ faults \in [drops : Nat, reloads : Nat, aborts : Nat]

(* crdt.ts:34, "distinct epochs keep every entry id globally unique": no two   *)
(* replicas hold different entries under one id. They would differ for good,  *)
(* since merge() skips an id it has.                                          *)
IdsUnique ==
  \A n, m \in Node : \A e \in log[n].entries, f \in log[m].entries :
    Id(e) = Id(f) => Content(e) = Content(f)

(* Whatever a replica shows, at any moment of any exchange, some author wrote  *)
(* with that id, place and text; and only its author may show it unsigned.    *)
NothingInvented ==
  \A n \in Node : \A e \in log[n].entries :
    /\ Content(e) \in posted
    /\ e.signed \/ e.origin[1] = n

(* What sendChat has returned for is signed in the log and on disk, or in the  *)
(* one transaction that is about to commit: no put taken from the log at      *)
(* another moment, and none of another author's entry in between, goes to the *)
(* disk without it. Only that transaction's failure or a crash before its end  *)
(* can still lose it (and `acked` no longer has it then).                     *)
SentIsSaved ==
  \A n \in Node : \A c \in acked[n] :
    /\ c \in SignedContents(log[n].entries)
    /\ \/ c \in SignedContents(disk[n])
       \/ /\ writes[n] # <<>> /\ Head(writes[n]).resolved
          /\ c \in SignedContents(Head(writes[n]).snapshot)

(* What the disk has signed stays there, signed, whichever puts overlap, fail  *)
(* or land after a crash, for as long as the browser keeps its store.          *)
StoreOnlyGrows ==
  \A n \in Node :
    epoch'[n] = epoch[n] => SignedContents(disk[n]) \subseteq SignedContents(disk'[n])

SavedStays == [][StoreOnlyGrows]_vars

(* What a node has read before it writes is before what it writes in the total *)
(* order of ordered(), on every replica: of two entries of one replica, the   *)
(* later one has the larger clock. Delta truncation at MAX_ENTRIES_PER_DELTA   *)
(* relies on it to keep per-origin prefixes.                                  *)
SeqFollowsClock ==
  \A n, m \in Node : \A e \in log[n].entries, f \in log[m].entries :
    e.origin = f.origin /\ e.seq < f.seq => e.lamport < f.lamport

(* The version vector a node advertises is the highest sequence number it      *)
(* holds of each origin: more would hide entries from every later answer,     *)
(* less would let append() mint a used id.                                    *)
VersionVectorExact ==
  \A n \in Node : \A o \in Origin :
    /\ \A e \in log[n].entries : e.origin = o => e.seq <= log[n].vv[o]
    /\ log[n].vv[o] > 0 => \E e \in log[n].entries : e.origin = o /\ e.seq = log[n].vv[o]

(* README.md:208, crdt.ts:8: all replicas converge, whatever the delivery      *)
(* order, in a partial mesh and after a partition.                            *)
Converged == \A n, m \in Node : Contents(log[n].entries) = Contents(log[m].entries)

Converges == <>[]Converged

(* The replicas implement the abstract log.                                   *)
Promise == INSTANCE ChatPromise WITH
             view <- [n \in Node |-> Contents(log[n].entries)],
             kept <- [n \in Node |-> Contents(disk[n])]

ImplementsPromise == Promise!Spec
=============================================================================
