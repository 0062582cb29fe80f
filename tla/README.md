# ANP Chat: verification

TLA+ models of [ANP Chat](../src/README.md), a serverless group chat: browsers
find each other through untrusted relays, open WebRTC DataChannels, and
replicate a grow-only chat log between themselves. The modules are translated
from the TypeScript under `src/src/`; TLC checks them on small instances and
TLAPS proves the safety properties of the passing runs for every instance.

```
tlasany M.tla                               parse
tlc -workers 4 -config X.cfg MCModule       one run (see "Runs")
tlapm M_proofs.tla                          one module of proofs
```

Line numbers below refer to files of `src/src/`: `conv` is
`client/conversation.ts`, `mesh` is `client/webrtc.ts`, `pool` is
`client/relayclient.ts`, `server` is `relay/server.ts`, `main` is
`client/main.ts`, `files` is `client/files.ts`, `ns` is `shared/nameservice.ts`.

## The system

| Component | State | Operations | Modelled |
|---|---|---|---|
| Chat log (`shared/crdt.ts`, `GSetLog`) | entries by id, version vector, Lamport clock | append, merge, ordered, entriesMissingFrom, fromJSON | `GSetLog` |
| Chat replication (`conv`) | log, replica epoch, what is being signed, verified or written | sendChat, shareFile, SYNC_REQ, CHAT_DELTA, gossip, anti-entropy, start | `ChatReplication` |
| Local store (`client/store.ts`) | IndexedDB object stores, or a Map when there is none | put, get, all | as `disk` and `writes` of `ChatReplication`, `blobs` of `FileTransfer`, `disk` of `NameService`, `saved` of `Session` |
| Reputation (`shared/reputation.ts`) | score per peer | record, isBanned, fromJSON with decay, rank | `Scores`, and `score` of `ChatReplication` and `FileTransfer` |
| Mesh (`mesh`) | peers, links, backoff, retry timers | discovery events, offer / answer / ice, fillSlots, dropLink, prune | `Mesh`; sending on a link in `ChatReplication` |
| Relay (`server`) | event store, join index, subscriptions, connections | ingest, REQ, CLOSE, sweep, reaper, caps | `EventStore`, `Relay` |
| Relay pool (`pool`) | a socket, a queue and a backoff per relay; ids seen | publish, reconnect and flush, deduplication | `RelayPool` |
| Announcements (`conv` 317-342) | cached JOIN, timers | announce, heartbeat, LEAVE at stop | JOINs in `RelayPool`; LEAVE in `Mesh` |
| Signed events (`shared/events.ts`) | none | createEvent, verifyEvent, createJoin (PoW), SIGNAL encryption | types, lifetimes, freshness in `Relay` |
| Membership (`shared/identity.ts`, `conv` 419-443) | invite chains, revocations | acceptMembership, verifyInviteChain, isCertRevoked, revocation records | `Membership` |
| Name service (`shared/nameservice.ts`) | a record per name | merge, load, all, revocations, publishManifest, mergeManifest | `NameService` |
| Discovery (`shared/discovery.ts`, `conv` 374-397, 718-767) | candidates, peer table, relay hints | scoreCandidate, selectConnectTargets, maybeAdoptRelays | adoption in `RelayPool` |
| File transfer (`client/files.ts`) | blobs, transfers by content id | shareFile, fetchBlob, BLOB_REQ / META / CHUNK / ERR, serve | `FileTransfer` |
| User interface (`main`) | the list of conversations, the list of relays | boot, openChannel, openDm, rejoinAll, adoptRelay, reset | `Session`; rendering not |
| Cryptography, types, bundles | none that the protocol reads | | no |

**How they interact.** `main.ts` starts a `Conversation`, which owns one
instance of each client component and passes callbacks between them. Relays
exchange WebSocket frames with pools; a pool hands verified events to
`handleRelayEvent`, which feeds the mesh, the membership registry and the
manifest. The mesh publishes SIGNALs through the pool and, once a DataChannel
is open, hands frames to `handleDc`. All of it is single-threaded per process:
what interleaves are the stretches between two `await`s, the timers, and the
processes themselves.

**What is hard.** State read before an `await` and used after it (signatures
in `sendChat` and `acceptEntries`, `verifyEvent` in the relay and the pool,
`decryptSignal` in the mesh); tabs closed between two of those stretches; links
lost with frames in flight; several relays that deliver the same events in
different orders; caps everywhere (links, queues, frames, deltas, buckets,
indices); timers whose periods must fit the lifetimes of what they renew.
`PROJECT.json` lists each hazard at its line, with the property that watches it.

**What makes each component correct.**

- Log and replication: ids are unique; a replica shows what was written and
  only that; what is on disk stays, and what `sendChat` returned for is there or
  in the transaction about to commit; all replicas converge.
- Relay: subscribers are told everything they may see and nothing else; caps
  hold and are fair; the gate admits only nodes with a live JOIN; no slot leaks.
- Pool and announcements: every relay a node reaches knows its latest JOIN, and
  is without a live one for a bounded lapse at most; each event is processed once and its sightings are counted.
- Mesh: at most one link per peer; two honest peers that know each other end
  up linked; an old offer never tears down a newer session; slots are bounded.
- Membership: a chain of certificates gives a key exactly what was handed down
  to it; a revocation, once known, stays until it expires.
- Name service: every page resolves every running page to its present record.
- Files: what is stored hashes to its id; a provider is charged only for its
  own bytes; a download ends, and finds the provider there is.
- Session: what is listed runs and will be restored; nothing opened is lost.

## Modules

```
GSetLog   Scores             ChatPromise            EventStore       Mesh    RelayPool
     \     /                  /                          |              |         |
   ChatReplication ----------+  (refines)             Relay          MCMesh  MCRelayPool
     |                                                  |
MCChatReplication                                     MCRelay

Scores           NameService           Session
   |                  |                   |
FileTransfer      Membership          MCSession
   |                  |
MCFileTransfer    MCMembership
```

`M_proofs` extends `M` for `M` among `GSetLog`, `ChatReplication` (with
`GSetLog_proofs`), `Relay`, `Mesh`, `RelayPool`, `FileTransfer`, `Membership` (with
the theorems about `NameService`) and `Session`.

**GSetLog** is class `GSetLog` as operators on `[entries, vv, lamport]`. An
entry keeps its origin, sequence number, clock, text and whether it carries a
signature; its id is the pair of the first two (`${origin}:${seq}`). `NewEntry`
and `Append1` are `append`, `Merge` is `merge`, `FirstEntries` is `ordered()`
cut at a bound. Ties of the clock are broken by a hash in the code; here by any
order. `LwwMap` of the same file has no caller in the client.

**Scores** is the arithmetic of `reputation.ts`, in tenths of a point so that
+0.2 and one decay by 0.9 remain integers.

**ChatReplication** is the state machine of the replicas of one conversation.

| Action | Code |
|---|---|
| `SendChat`, `SignDone`, `WriteDone` | the three stretches of `sendChat` / `shareFile` (conv 567-591): append; signature in, put issued; put resolved, broadcast |
| `Commit`, `Abort` | the transaction of a put ends, which nothing waits for (`tx`, store.ts 55-61); it fails, before or after its put has resolved |
| `HandleSyncReq` | conv 524-527 |
| `HandleChatDelta`, `VerifyDone`, `WriteDone` | the stretches of `acceptEntries` (conv 537-556): take the batch; verified, merged, put issued; put resolved, forwarded |
| `DropLongFrame` | mesh 474 |
| `AntiEntropy` | the timer of conv 278-284 |
| `Connect`, `Disconnect`, `RemovePeer` | a link opens with SYNC_REQ both ways; is lost; is closed on a frame of a banned peer |
| `Reload` | the tab closes or crashes and `start()` runs on what the store holds: of the transactions that had not ended, any prefix has committed |
| `Wipe` | the store is gone, so `start()` draws a fresh epoch |

`writes` holds the transactions that have not ended, each with a snapshot taken
at the call of the put (IndexedDB clones then), the continuation that awaits it,
and whether that has run: `tx()` resolves at the request's `onsuccess`, before
the commit. Transactions on one store run in order, each after the one before
has ended, so that at most the oldest has resolved. `signing` and `verifying`
hold what awaits Web Crypto. `acked` and `posted` are history variables;
`acked` gives up what a crash or a failure then kept off the disk. (That a
browser with relaxed durability may lose a *committed* transaction with the
power is not modelled; `Wipe` loses the whole store.)

**ChatPromise** is what the log promises without frames, signatures or puts:
post, learn, keep, recall, forget. `ChatReplication!Promise` maps `view` to the
contents of the logs and `kept` to the contents of the disks.

**EventStore** is class `EventStore` and `matches()` of the relay as operators;
where `evictOldest`, `evictColdestNetwork` or the index break a tie by the
order of a Map, every outcome is returned. **Relay** is the process around it:

| Action | Code |
|---|---|
| `Receive`, `VerifyDone` | the two stretches of `ingest` (server 298-320), around `await verifyEvent` |
| `SweepStore` | the 15 s timer |
| `Open`, `Close` | `onWsConnection` with its caps, and the close handler |
| `Request`, `Unsubscribe` | REQ (with its answer from the store) and CLOSE |
| `Vanish`, `Pong`, `Reap` | a client cut off, one that answers, the 30 s reaper |
| `Tick` | a second |

`sent` records what went out on a subscription since its REQ.

**Mesh** is class `Mesh` at every node, with the relays between them reduced to
the events they hold (`events`) and have not delivered yet (`pending`). A link
is a record, and its session a number; `started` is `sessionStartedAt`.

| Action | Code |
|---|---|
| `Hear` | a JOIN or HEARTBEAT, or a row of a peer table (mesh 132-151, 570-585), with the `maybeConnect` at its end |
| `FillSlots`, `BackoffEnds` | `setPriority`, the timer of `dropLink` and the retry timer; `nextAt` passing |
| `Describe` | the end of `initiate` and of the offer branch: description set and published, candidates with it |
| `ReceiveOffer`, `HandleOffer` | the stretches of `handleSignal` around `await decryptSignal` (mesh 336-402) |
| `HandleAnswer`, `HandleIce` | mesh 404-435; one step each, since nothing read before the await matters after it |
| `Connect`, `OnOpen`, `OnClose` | the browser connects a session (external); `dc.onopen`, `dc.onclose` |
| `HandshakeTimeout` | the 25 s timer |
| `HandleLeave`, `Prune` | mesh 152-168, of a known sender or not; 618-630 |
| `FailEarly`, `LinkFails`, `Lose`, `Restart` | faults: a timer or an exception that ends a handshake under way, a network, a SIGNAL never delivered, a reload with or without its LEAVE |

Two browsers cannot both dial (the smaller id does), so the branch for glare
is in `Outdated` and never taken.

**RelayPool** is one browser before its relays. Time is kept as what is left of
each JOIN (cached, queued, at a relay) and of the announce interval, so that
the state space is finite though time is not bounded.

| Action | Code |
|---|---|
| `AnnounceTimer`, `Mined` | the stretches of `announce` (conv 317-331) around `await createJoin`; `Publish` and `Enqueue` are `publish` (pool 214-227) |
| `Opened` | `onopen` (pool 148-160): announcement by `onStatus`, then the flush of what has not expired |
| `Refused`, `Closed`, `Redial` | `onclose` of a dial or a connection, with `scheduleReconnect` |
| `Receive`, `VerifyDone` | the stretches of `onmessage` (pool 176-202) around `await verifyEvent`; `verifying` counts those under way, of which one relay may have two |
| `PeerTable` | `noteRelayHints` and `maybeAdoptRelays` (conv 697-729) with `selectRelayHints` |
| `Ingest`, `Tick` | a relay takes a JOIN (the gate of `Relay`, seen from here); a unit of time |

**FileTransfer** is the fetching browser before its peers, with `fetch` for the
coroutine of `fetchBlob` and `incoming` for the map of the same name. Peers serve
the copies they have, which may be damaged.

| Action | Code |
|---|---|
| `Download`, `Share` | `downloadFile` (main 324-343), `shareFile` |
| `LookedUp` | `fetchBlob` after `await localBlob` (files 83-90); `GoOn` is its loop up to the next `await` |
| `HashDone`, `Stored`, `PutFails` | after `await cidOfBytes`; after `await store.put`, kept or refused |
| `Receive`, `RemovePeer` | a frame through `handleDc`; of a banned peer |
| `TimeOut` | the idle timer: early as a fault, otherwise when nothing is to come |
| `TakeRequest`, `Serve`, `SendChunk` | the stretches of `serve`, which waits for the store and for the buffer to drain |
| `Disconnect`, `Reconnect`, `Reload` | links, and the page loaded again. What `serve` was streaming is `Cut`: a run that waits for the buffer sends one more chunk, on whatever link there is by then, and stops |

**NameService** is `NameServiceStore` in each page, with the handlers that feed
it. `sig` orders signatures and tells the sessions of a page apart; `calm` is a
history variable. **Membership** adds certificates (`Cert`, each validly signed
by its issuer, who may issue what it likes) and the registry.

| Action | Code |
|---|---|
| `Publish` | `publishManifest` (conv 783-813) |
| `Receive`, `HearForeign` | `mergeManifest` (conv 769-780) of a MANIFEST or NS message; of one by another client, signed and otherwise as it likes |
| `LinkOpens` | `onPeerOpen`: both ends send what they hold (conv 214-223) |
| `Start`, `Loaded`, `Crash` | `start` before and after `await store.get` (conv 262-296); the tab goes |
| `Lose`, `Tick` | a message is lost; time passes once nothing is on its way |
| `AcceptMembership` | conv 419-443, with `verifyInviteChain` |

**Session** is one page's list of conversations. Each coroutine (`boot`, up to two
of `rejoinAll`, any number of openings) has its place in the state, so that they
overlap wherever they await; a conversation is an object that is starting,
running or stopped; `closed` are those whose pool and mesh `stop()` has closed in
the middle of their `start()`. A reload may come before the last put of the list
is committed: it then finds an earlier list, and the model lets it find any.
(The list of relays is taken as committed at once: nothing depends on which one
a reload finds.) `opened` and `clash` are history variables.

| Action | Code |
|---|---|
| `Open`, `Opened` | `openChannel`, `openDm` (main 175-196) up to and after `await conv.start()` |
| `BootAdds`, `BootAdded` | the loop of `boot` (main 478-487) |
| `ChangeRelays`, `Capture`, `StopNext`, `Clear`, `AddNext`, `AddedNext` | `addRelay` / `removeRelay` and the stretches of `rejoinAll` (main 416-422) |
| `Adopt` | `adoptRelay` (main 395-407), with its put as one step |
| `Reload`, `ResetAll` | the page loaded again; its store emptied |

## Runs

| Run | Question | Instance | States |
|---|---|---|---|
| `chat_safety` | Are logs sound while links and stores are lost? | two browsers, one author of two entries, one link lost (either end blaming the other), one wipe each, frames of one entry | 948 k |
| `chat_reloads` | Is what was sent saved, does what is saved stay, and do the replicas implement `ChatPromise`? | two authors, one reload at any step, one transaction that fails, a ban at one forged entry | 1.7 M |
| `chat_gossip` | Does an entry reach a browser its author is not linked to? | three in a line, one link lost, anti-entropy *not* fair | 376 k |
| `relay` | Are subscribers up to date, caps and fairness kept, SIGNALs private, counts of connections exact, and slots given back? | two nodes (one clock ahead), two networks for one slot, three events per bucket, one SIGNAL per node, one member in the index, two sockets of one address for one slot | 779 k |
| `mesh` | Does an old offer ever end a live link, and do two browsers end up linked? | two browsers, eight dials, two faults or one restart | 205 k |
| `pool` | Does a relay that is reached know a live JOIN, but for a bounded lapse, is each event processed once, a working relay found? | one relay of its own and one of its peers, JOINs of five units renewed every four, queues of two, two faults | 887 k |
| `files` | Are stored bytes the file, peers charged only for theirs, and does a download end and find its provider? | one file of two chunks, a peer with it, one with a damaged copy, one with none; two downloads or shares, one fault | 46 k |
| `names` | Do pages resolve each other after restarts, do revocations stick as far as they do, do chains grant what was handed down? | two pages, a genesis key and a member that publish three revocations; four certificates, chains of up to two (three are tried); one fault, one link opened anew | 263 k |
| `session` | Does every listed conversation run and come back, whatever overlaps? | a channel, a DM, a relay; three operations by the user or a peer, two rejoins at a time | 2.0 M |
| `found_gap_after_drop`, `found_id_reused`, `found_revocation_dropped` | see "Findings" | two browsers; a link lost once; a tab closed once; as `names` | |

**Why the bounds suffice.** What `chat_safety` and
`chat_reloads` ask of a log takes at most two entries and one fault (a loss, a
reload, a wipe, a failed transaction) between two stretches; two browsers have
every pair of stretches interleaved, the third in `chat_gossip` adds a hop, and
the ids of a wiped store need one wipe. `chat_safety` has no reloads: with one
the code violates `IdsUnique` (`found_id_reused`), and with it what rests on it;
in `chat_reloads`, which has one, an author writes one entry, so that no number
is given out twice.
Caps are scaled (`MaxFrame`, `MaxEvents`, `MaxNetworks`, `MaxJoins`,
`MaxSignals`, `MaxConnections`, `MaxPerIp`, `BanDepth`) so that more arrives
than each allows. Two are not exceeded: `MaxPerNode` (nothing of a node but
SIGNALs, which have a cap of their own, is kept twice, so that neither 4 in the
run nor 16 in the code is ever passed) and `MaxSubs`, one subscription being
asked for. The relay's lifetimes are scaled to one second and `MaxTime` to one
tick, enough for everything to expire. The proofs hold with no bound at all. In `mesh`, `MaxDials` is more than any
behaviour uses (a behaviour stopped by it would violate `StaysConnected`); two
faults let one session be abandoned and the next one be hurt too, and a restart,
which counts for both, replays everything the relays still hold. Two nodes are
enough for the handshake, which no third one takes part in; `MaxTotal` is
therefore not reached. In `pool` a unit is a minute (300 s, 240 s; 100 s is
between one and two), two faults empty a relay and lose it, or lose both.
In `files`, `BanDepth` is five points, so that two failures (-3 each) ban a peer
in the middle of a download; two downloads let the answers to the first meet
the second. In `names` a tick is five minutes: a record lives for two, and
`MaxTime` leaves a page time to crash, restart, publish and be settled.
`BackWithin` is tight: with one tick less than `Ttl + Period - 1` it is violated. In
`session` `MaxConvs` is never reached; three operations are a rejoin and any two
that overlap it.

What the instances assume of the code's timing: `TimerDue` lets the one-minute
anti-entropy timer fire only when the exchange of milliseconds it started
before has ended (a bound: the timer has no such guard); `Mesh!HandshakeTimeout` fires when nothing of the session is
on its way and both ends know each other (25 s; sooner is the fault
`FailEarly`); `Receive` takes the events of a node in the order of its
clock (one socket), except a cached JOIN that is announced again.

**Fairness.** `GossipFairness`: a Web Crypto or IndexedDB promise settles, a
frame on an open channel arrives, and a pair that is not linked dials again
(mesh 219-236 retries with backoff for as long as the peer is known). `FairSpec`
adds that the anti-entropy timer picks each peer again and again: it picks at
random, so with probability one. `FairSpec` is used by `found_gap_after_drop`
only. `Relay!FairSpec`: the reaper's interval fires; nothing is assumed of
clients, and one that is there but slow may be terminated too. `Mesh!Spec`
asks the least: something that can happen other than a fault does happen.
Heartbeats, rankings and retry timers recur as long as a page is open, promises
settle, relays deliver what they do not lose.
`RelayPool`: time passes, timers
fire, promises settle, dials are answered, and a peer that is connected to a
live relay sends its table (conv 285, 293 ask again and again).
`FileTransfer!Spec`: promises settle, the idle timer fires, frames on an open
channel arrive, peers serve (a peer that drains its channel slowly has a safety
valve of 5 s, files 252-256), and the mesh dials again. `names` and `session`
check safety only, without fairness; `BackWithin` states with a clock what a
liveness property would state with fairness.
No run assumes that losses stop except through the bound on their number.
`CHECK_DEADLOCK FALSE` stands where all is done once the bounds are used up: a
relay with no client, a chat with nothing to write and nobody connected, downloads all done, a clock
at its end, a user who does nothing more.

## Findings

Three runs state what the README and comments say, and TLC shows a behaviour of
the code that violates it.

- **A gap below the version vector** (`found_gap_after_drop`, crdt.ts:143). An
  entry whose broadcast is lost with its link, followed by one that arrives, is
  never asked for again: the receiver advertises the higher number. A replica
  then misses a message for good.
- **An id used twice** (`found_id_reused`, conv 577). An entry is in the log, and
  in the answer to a SYNC_REQ, before it is on disk. A tab closed in between
  restarts in the same epoch and gives its next entry the same id (crdt.ts:34
  says ids are globally unique); replicas that have the first never take the
  second. The clocks of the author's entries may then fall while their numbers
  rise (`SeqFollowsClock`, with three entries of one author and one of the other).
- **A revocation dropped** (`found_revocation_dropped`, ns 159). `load()` lays what
  was stored over what has come in while the store was being read, without
  `merge`: a fresh revocation that a page knows gives way to a stored record of
  a higher version that has expired (ns 24 and the README, 184, call
  the set monotonic; README 182 says that an expired stored record always loses).

More are reproduced by changing a configuration, and are not kept as runs:

- **The same gap without a loss** (`found_gap_after_drop` with `MaxDrops = 0`,
  `MaxDelta = 1`, and `MaxPosts <- ThreeByOne`). A delta is cut at 512 entries
  (conv 538); a broadcast that arrives before the rest has been asked for raises
  the mark past it.
- **A delta too long to send** (`found_gap_after_drop` with `MaxDrops = 0`,
  `MaxFrame = 1`). A delta longer than a DataChannel frame (512 KiB; 512 entries
  may be) is dropped at every exchange (mesh 474), so that the replica behind
  never catches up.
- **An entry no one will ever sign** (conv 576; in `chat_reloads`, the invariant
  that an entry a log holds unsigned is being signed). The put of another entry
  takes one whose signature is being computed with it to the disk; a tab closed
  in between reopens on it unsigned and does not sign it again, so that every
  peer rejects it.
- **Sent and not saved** (store.ts 58; `SentIsSaved` in `chat_reloads` if `acked`
  gave up nothing). `tx()` resolves at `onsuccess`: `sendChat` broadcasts and
  returns before the transaction commits, a crash then may still lose the entry,
  and no one learns of a commit that fails.
- **A newcomer nobody dials** (mesh 215; `StaysConnected` in `mesh` with three
  nodes and no faults). The cap on links a node opens counts the links opened to
  it, and only the smaller id of two dials. When nodes with smaller ids have
  eight links each (nine of them linked to one another), a newcomer with the
  largest id is dialled by no one and may dial no one. The comment (mesh 102)
  says that a large channel stays connected.
- **A JOIN that lapses** (conv 320; in `pool`, the invariant that a relay which is
  up, with nothing on the wire and no JOIN being mined, knows a live JOIN). The
  announce timer runs every 240 s and renews the JOIN only if at most 100 s of it
  remain. One first issued 41 to 179 s after the timer started, because the relay
  was that slow to answer, has more left at the first firing and has expired at
  the second (README 159: re-issued every 240 s). `LapseBounded` says how long a
  relay that is connected can go without: the last `Period - RenewAt` of an
  announce interval (140 s).
- **A partial list of conversations** (main 168, 478-482; `NothingLost` in `session`
  if `clash` left reloads out). `persistConversations` stores the list as it
  stands: a page closed in the middle of `boot` or of `rejoinAll` has lost the
  rest.

Seen while modelling, by component.

*Chat, relay, mesh.* An honest peer is blamed for a
forged entry (-5) when its SYNC_REQ answer is sent while the entry is being
signed (conv 543, 525); two events of a node sent together are verified concurrently,
and since `add()` compares no dates, the older may replace the newer until the
next heartbeat (server 164, against its comment at 154); of one event under
verification from two relays, the second delivery is no sighting (pool 194,
against the comment at 37-41); `"valid-sync"` (+0.2, README 188) is defined
and never recorded; the relay's join index exceeds `MAX_JOINS_PER_NETWORK` when the newcomer is the one that
expires soonest (server 149 evicts nobody then); a peer forgotten while its offer is being
decrypted gets a link all the same, which opens without `onPeerOpen`, so
without a SYNC_REQ, until the anti-entropy timer (mesh 340, 467).

*Files.* A put that IndexedDB refuses (no room) is charged to the peer that served
the file (files 93-99). A peer that has no copy answers BLOB_ERR and loses three
points, as does one whose link merely closed. Transfers are not ended when their
link closes: they wait out the idle timer of 20 s. A retry that meets the answer
to an earlier request can fail although its provider is whole, because a second
BLOB_META resets the chunks and not the counts (files 171-173): hence the
condition of `ProviderIsFound`.

*Name service.* `load()` lets an expired stored record replace a fresh one
merged while the store was being read (ns 156-161, against ns 122-123: "an
expired stored record never beats a fresh incoming one"); the next MANIFEST
or the next link heals it. `RevocationSticks` is what does hold of revocations:
one that a page knows stays until it expires, through every step but the end of
that read (`found_revocation_dropped` has the same without the exception). A
record merged in that window makes `put` overwrite the store with what has come
in so far, so that a crash right then forgets revocations. Messages carry the
first 64 records by name (conv 221, 810): of a conversation with more than 32
members, the same ones are always left out. Names other than `revoked/` are not
bound to an author.

*Membership.* No caller in `src/` passes revocations to `verifyInviteChain`, and
nothing publishes a revocation or issues a certificate; a registered member is
never removed (README 207 says that revocation is enforced on live connections).
Entries of the chat log are accepted without asking the registry (conv 537;
README 178 says that only members' writes count). The models show what the functions would do.

*Session.* A channel opened during `rejoinAll` is dropped by
`conversations.clear()` and its object goes on running (main 419); so does one whose `stop()` comes before its
`start()` has returned. A relay adopted during `rejoinAll` is missing from the
conversations it creates afterwards (main 395-407). `NothingLost` holds only
where nothing overlaps a rejoin.

*Reputation.* The decay of `boot()` is not stored, and the score of a banned peer
no longer changes: a stored score of -55.6 or less stays banned at every restart
(reputation.ts:19-21 says that peers heal).

## Proofs

All are proved by TLAPS from the named assumptions on constants and hold for any
set of browsers, topology, number of entries and losses, or any set of nodes,
networks, sockets, filters and caps. Each module of proofs is laid out alike: an
invariant that is inductive where the properties alone are not, a lemma for each
action that says it is kept, and the theorems. The assumptions say what kind of
thing each constant is (caps are natural numbers, most at least 1; a link joins
two browsers). Four of them say more: browsers a file is fetched from and
sockets of a relay are finitely many (`PeerAssumption`, `RelayAssumption`); a
record is published anew before it expires (`TtlAssumption`: 300 s and 600 s in
the code); a JOIN just made is not due for renewal (`PoolAssumption`: that is
when 100 s of 300 s are left).

**ChatReplication_proofs.** `Sound`, the inductive invariant, says that
everything a node holds anywhere (log, disk, puts and their continuations,
deltas in flight or under verification) is a copy of something posted, and that
clocks and numbers have a common bound, which makes the maximum in `Merge`
exist. `TypeOK` and `NothingInvented` alone are not inductive: they say nothing
of what is in flight. From it:

- `TypeCorrect`: `TypeOK`.
- `NothingIsInvented`: `NothingInvented`, with `Checked`: what a node holds of
  others, in memory and in each state of its store, is signed.
- `AdvertisesWhatItHolds`: `VersionVectorExact`, by an invariant on logs alone.
- `SentIsSavedAlways` (`SentIsSaved`) and `SavedEntriesStay` (`SavedStays`),
  through any crashes and failed transactions. `Saved`: the log covers every put
  that has not ended, each of these the ones issued before it, and all of them
  the disk (`Layered`); a put that will report an entry as sent has it signed;
  and what was reported is on the disk or in the one put that has resolved.
- `EpochsKeepIdsUnique` (`IdsUnique`) and `ClockFollowsSeq` (`SeqFollowsClock`),
  however many stores are lost, as long as a tab that reopens finds all it
  posted under the id it keeps (`ReopensWhole`). `Unique`: what was posted under
  a node's id of now is at most at the mark of its log, and no id of an epoch to
  come has been used. `Ascending`: likewise for clocks.
- `NewIdsImplementPromise` and `ReplicasImplementPromise`: `ImplementsPromise`,
  the refinement of `ChatPromise`, one lemma per step of a replica: what posts
  is `Post`, what merges is `Learn`, a commit is `Keep`, a reload and a lost
  store are `Recall` and `Forget`, the others change nothing there. It needs
  that ids are new, with any reloads, crashes before a commit included; and ids
  are new under `ReopensWhole`.

The premise is about what `found_id_reused` shows: a tab closed between `append`
and the commit of its put. It is on single steps, so that a reload that finds its
entries is covered, and cannot go: with one reload the code violates `IdsUnique`
and `SeqFollowsClock`, and `ImplementsPromise` (where a log keeps what it has
under an id).

`GSetLog_proofs` holds the lemmas about `Merge`, `EntriesMissingFrom` and
`FirstEntries` they rest on.

**Relay_proofs.** Each operation of the store has a lemma that says what it
keeps: `AddShape` for `add()` as a whole (its store is a store, holds nothing
new but the event, and only when it says so; the index rises no further than
`JoinTtl` from now). `Counted` (types and counts, which need each other: the
count of an address stays a natural number because it counts sockets) and
`Served` are inductive. From them: `TypeCorrect`, `CountersStayExact`,
`GateStaysClamped`, `SignalsStayPrivate`, `SubscribersStayUpToDate`. `Within`
follows each outcome of `add()` through its evictions and gives
`StoreStaysBounded`; `EvictionStaysFair` names what each of them removes. Its
premise `RoomForTypes` says that a node has room for one event of each type that
replaces (4 types, 16 events in the code; 1 and 4 in the run): otherwise an
event could leave for a replacement that the cap of the node then refuses.

**Mesh_proofs.** `TypeCorrect` and `LiveLinksAreKept` (`LiveLinkKept`). `MeshOK`
says of every SIGNAL, held by a relay, pending or being decrypted, that its
session belongs to one pair, that offers go from the smaller id to the larger,
and that an offer of an earlier session of a pair is no newer than the present
one; otherwise a replayed offer could look newer than the live session, and
`Outdated` would let it through.

**RelayPool_proofs.** `TypeCorrect`, `ProcessedAtMostOnce`,
`NothingWaitsForOpen`, `AnnouncedEverywhere` (`JoinKnown`), `LapseIsBounded`
(`LapseBounded`). `PoolOK` adds to them that a count is one exactly for ids
in `seen` (with two verifications of one event under way, only that says which
of them will count), that what waits or is on the wire has a lifetime, that
each relay that is connected knows or is being sent a JOIN as long-lived as the
cached one (`Told`), and how the announce timer stands to what is left of that
(`Phased`: the cached JOIN lives on until `RenewAt` before the end of the interval).

**FileTransfer_proofs.** `TypeCorrect`, `StoredStaysOriginal`,
`GatheredStaysPeersCopy`. `Sound` says of every frame on its way that it tells
of the copy of the peer that sent it, of every run of `serve()` that it is
inside the copy it streams, and of bytes that wait to be hashed or stored that
they are one peer's whole copy. That a transfer counts no more than was
announced needs it: every BLOB_META of one peer announces the same number.

**Membership_proofs.** `NsOK` is about the Name Service: wherever a record of a
page stands, in a store, on disk or in a message, it is of an earlier session,
published before the calm began, or an earlier version, or the latest record;
and once a page has published after all its earlier sessions have expired
(`OnTime`), every page that runs has the latest record or is about to receive
it. From it `TypeCorrect`, `ComesBack` (`BackWithin`), and `RevocationsStick`
(`RevocationSticks`), by the fact that only its author's records ever stand in a
slot for revocations. `ChainsFollowAuthority` says of every set of revocations
that `verifyInviteChain` finds over all chains exactly the `Authority` that the
closure of certificates gives; `AuthorityIsFollowed` states it of each page
(`ChainsGrantAuthority`). Induction over the depth of the recursive function in
`Authority` is replaced by its least counterexample (a layer that is not as
claimed, with none below it), which needs no theorem with an operator for
parameter.

**Session_proofs.** `ListedAreRunning`, `ListedAreSaved`, `NothingIsLost`.
`SessionOK` has a part for each way coroutines share the list: an object that is
starting is awaited by exactly one of them (`Waits`); one that is listed and
stopped, or was closed while it started, is so by a restart that has yet to clear
the list (`Stops`, `Closes`); the list is stored, or someone waits and will store it (`Stores`); and, as long as
nothing has clashed, all that was opened is in the list or among what the one
restart has captured (`Whole`).

**Only model-checked:** `Converges`, `GoneAreReaped`, `StaysConnected`,
`ComesBack` of the pool, `FetchEnds` and `ProviderIsFound`:
liveness, and ENABLED in its fairness, are out of this prover's reach. Every
other property of a passing run is a theorem.

## What is left out

- Inside the modelled parts: rate limits; the REST reading side of the relay
  (the same `query`); malformed frames and forged events, which every handler
  refuses before it changes anything (every node runs this program); wording,
  rendering and logs. A `Connect` opens both ends at once, a
  `Disconnect` drops what is in flight both ways, and `start()` is one step.
  A banned peer may be dialled again from the cached peer table
  (conv 740-767); the model never links it. Verifications of the same delta
  from the same peer that run at once are one. Scores are rounded to a tenth
  at a restart.
- In the mesh: PING and PONG as frames (a channel that misses them is `OnClose`
  after `LinkFails`), the sequence numbers of SIGNALs (the pool delivers an event
  once as it is), the 64 candidates kept before a description, several targets
  of one `fillSlots` (one at a time), bans. Answers and candidates of a session
  its dialler has dropped are forgotten, since nothing they do matters then.
- In the pool: HEARTBEATs, SIGNALs and MANIFESTs in queues, `removeRelay` (no
  caller), statistics, the halving of `seen` at 10 000 ids. Relays are never taken
  out of a conversation, so that dead ones may use up `MAX_TOTAL_RELAYS` and
  leave no room for a live one; the run has room.
- A relay that restarts and forgets its store: in `RelayPool` only, where the
  relay is its index.
- Cryptography is taken at its word: a signature is a boolean, a hash an identity.
- In file transfer: the size of chunks (all are one), metadata out of range. The
  branch "already fetching" (files 107) is out of reach of the button. A put
  takes effect when it resolves (one that then fails to commit loses a copy).
- In the name service: `service/chat` records (as `node/`), the cut at 64 and 128
  records of a message (the run has three), relays that replay a MANIFEST later,
  clocks that differ; a batch is merged in one step, where the code awaits the
  signature of each record in turn (conv 773-775), so that others may be merged
  in between; a put takes effect when it is called. In membership: `issueCertificate`, invitation bundles and
  network ids, which hold no state; `ignoreExpiry`, which has no caller.
- In the session: a `start()` that throws; the order of the stored list; `adoptRelay`
  interrupted between its put and its loop; the timers that an object closed in
  the middle of its `start()` goes on with.

### Not modelled

- `discovery.ts` but for relay hints, and `loadPeerTable` / `handlePeerTable`
  beyond what `Mesh!Hear` takes from them: the weights of candidates are
  arithmetic on floats over sightings and bandwidths, and no property of the
  protocol depends on the order they produce.
- `crypto.ts` (Web Crypto) and the proof of work, `types.ts`, DOM rendering.
- PING / PONG as messages; the rate limits and the REST side of the relay;
  `Reputation.reset`; `LwwMap`, which nothing in the client uses.
- The bundles `server.mjs` (24 000 lines, mostly the libraries bundled
  with it) and `public/anp.js`, which are built from the modelled sources, and the
  build and demo scripts. They are five sixths of the lines in the repository
  that are code, so that the part of *all* lines that the models cover stays
  small; of the 5 500 lines of TypeScript it is about two fifths.

## Plan

Modelling and the proofs of safety are done. What remains:

1. The steps of liveness that are safety: variants and "leads to in one step"
   facts for `FetchEnds` (a download tries each provider once, so that the
   number of untried ones and of chunks to come falls) and `StaysConnected` (a
   handshake advances or its session ends).
2. `Scores`: that a peer that is never at fault is never banned, composed with
   `FileTransfer`.

Were the code to change, the findings name the next models: SIGNALs in the
queues of `RelayPool` before the gate of `Relay`, PING and PONG in `Mesh`, and a
chat that asks `Membership` whose entries it takes.
