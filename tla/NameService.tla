----------------------------- MODULE NameService -----------------------------
(***************************************************************************)
(* The replicated set of signed records of one conversation:                *)
(* NameServiceStore (src/shared/nameservice.ts) in the pages of Node, and     *)
(* how src/client/conversation.ts loads, publishes, spreads and stores it.    *)
(*                                                                          *)
(* A page publishes two records each period, node/<id> and service/chat/<id>, *)
(* of one version and lifetime: the model has the first. Signatures are valid  *)
(* (verifyNameRecord) and break ties. Clocks agree; a message takes less than  *)
(* a tick.                                                                  *)
(***************************************************************************)
EXTENDS Integers, FiniteSets

CONSTANTS
  Node,      \* the pages, and the keys they sign with
  Key,       \* all keys, those of other clients included
  Invite,    \* the ids of invitations
  Foreign,   \* the records that other clients publish
  NoRecord,
  Period,    \* publishManifest, in ticks (5 minutes in the code)
  Ttl,       \* of the records it publishes (10 minutes)
  MaxTime,   \* bound: the clock
  MaxFaults, \* bound: crashes and lost messages
  MaxLinks   \* bound: links that open

NodeName(n) == [of |-> n]

(* revocationName: each author has a slot of its own for each invitation.      *)
RevocationName(i, k) == [invite |-> i, by |-> k]

RevokedNames == {RevocationName(i, k) : i \in Invite, k \in Key}

Name == {NodeName(n) : n \in Node} \cup RevokedNames

Record ==
  [name : Name, author : Key, version : Nat, at : Nat, ttl : Nat,
   value : {"node", "revocation", "other"}, sig : Nat]

ASSUME NameAssumption ==
  /\ Node \subseteq Key
  /\ NoRecord \notin Record
  /\ \A r \in Foreign : r \in Record /\ r.name \in RevokedNames
  /\ Period \in Nat \ {0} /\ Ttl \in Nat \ {0}
  /\ MaxTime \in Nat /\ MaxFaults \in Nat /\ MaxLinks \in Nat

(* A record is published anew before it expires.                               *)
ASSUME TtlAssumption == Period <= Ttl

VARIABLES
  now,
  phase,    \* page -> "down", "loading" (the store is being read) or "up"
  session,  \* page -> how often it has been loaded: tells its records apart
  started,  \* page -> when the timers of this session were set
  version,  \* page -> nsVersion, which starts over with each session
  records,  \* page -> name -> its record, or NoRecord
  disk,     \* page -> the records in IndexedDB
  cached,   \* page -> what start() reads of them
  inbox,    \* page -> MANIFEST and NS messages on their way to it: sets of records
  faults,   \* faults so far
  links,    \* links that have opened
  calm      \* ticks since the last fault or start of a page

nsVars == <<now, phase, session, started, version, records, disk, cached, inbox,
            faults, links, calm>>

Nothing == [name \in Name |-> NoRecord]

-----------------------------------------------------------------------------
(* NameServiceStore                                                          *)

IsExpired(r) == r.at + r.ttl <= now

(* pickNewer(a, b) = a: the version, then updated_at, then the signature.       *)
Beats(a, b) ==
  \/ a.version > b.version
  \/ a.version = b.version /\ a.at > b.at
  \/ a.version = b.version /\ a.at = b.at /\ a.sig >= b.sig

\* Mutant: a revocation may stand in another author's slot.
IsValidRevocation_AnyAuthor(r) == r.name \in RevokedNames /\ r.value = "revocation"

IsValidRevocation(r) ==
  r.name \in RevokedNames /\ r.name.by = r.author /\ r.value = "revocation"

\* Mutant: the names of revocations are not reserved.
Admissible_Unreserved(r) == ~IsExpired(r)

(* The checks that merge() makes of the record itself.                         *)
Admissible(r) ==
  ~IsExpired(r) /\ (r.name \in RevokedNames => IsValidRevocation(r))

\* Mutant: an expired record is not given up to a fresh one of a lower version.
Merged_NoExpiry(current, r) ==
  IF Admissible(r) /\ (current = NoRecord \/ Beats(r, current)) THEN r ELSE current

(* merge(): what stands under the name after r has been merged with `current`.  *)
Merged(current, r) ==
  IF Admissible(r) /\ (current = NoRecord \/ IsExpired(current) \/ Beats(r, current))
  THEN r ELSE current

(* The store `recs` after the records of a message, of which no two have one    *)
(* name.                                                                    *)
MergeAll(recs, batch) ==
  [name \in Name |->
     IF \E r \in batch : r.name = name
     THEN Merged(recs[name], CHOOSE r \in batch : r.name = name)
     ELSE recs[name]]

(* all() drops what has expired.                                              *)
Live(recs) ==
  [name \in Name |->
     IF recs[name] # NoRecord /\ IsExpired(recs[name]) THEN NoRecord ELSE recs[name]]

All(recs) == {Live(recs)[name] : name \in Name} \ {NoRecord}

(* load(): the stored records and what has been merged meanwhile.               *)
Load(stored, recs) ==
  [name \in Name |->
     IF stored[name] = NoRecord THEN recs[name]
     ELSE IF recs[name] = NoRecord \/ Beats(stored[name], recs[name]) THEN stored[name]
     ELSE recs[name]]

(* revocations(): who has revoked i, as n knows it.                            *)
Revokers(recs, i) ==
  {k \in Key : LET r == Live(recs)[RevocationName(i, k)] IN
               r # NoRecord /\ IsValidRevocation(r)}

-----------------------------------------------------------------------------
(* Conversation                                                              *)

Running(n) == phase[n] # "down"

Due(n) == started[n] + (version[n] + 1) * Period

Deliver(to, batch) ==
  IF batch = {} THEN inbox
  ELSE [m \in Node |-> IF m \in to THEN inbox[m] \cup {batch} ELSE inbox[m]]

Created(n) ==
  [name |-> NodeName(n), author |-> n, version |-> version[n] + 1, at |-> now,
   ttl |-> Ttl, value |-> "node", sig |-> session[n]]

(* publishManifest: the record of this page, and all it holds for the others.   *)
Publish(n) ==
  LET recs == Live(MergeAll(records[n], {Created(n)})) IN
  /\ phase[n] = "up"
  /\ now = Due(n)
  /\ version' = [version EXCEPT ![n] = @ + 1]
  /\ records' = [records EXCEPT ![n] = recs]
  /\ disk' = [disk EXCEPT ![n] = recs]
  /\ inbox' = Deliver({m \in Node \ {n} : Running(m)}, All(recs))
  /\ UNCHANGED <<now, phase, session, started, cached, faults, links, calm>>

(* mergeManifest: merge the records, and store all if one of them won.         *)
MergeManifest(n, batch) ==
  LET recs == MergeAll(records[n], batch) IN
  IF recs = records[n] THEN UNCHANGED <<records, disk>>
  ELSE /\ records' = [records EXCEPT ![n] = Live(recs)]
       /\ disk' = [disk EXCEPT ![n] = Live(recs)]

Receive(n) ==
  /\ \E batch \in inbox[n] :
       /\ MergeManifest(n, batch)
       /\ inbox' = [inbox EXCEPT ![n] = @ \ {batch}]
  /\ UNCHANGED <<now, phase, session, started, version, cached, faults, links, calm>>

(* A MANIFEST or NS of another client, whose author may sign what it likes.     *)
HearForeign(n) ==
  /\ Running(n)
  /\ \E r \in Foreign : r.at <= now /\ MergeManifest(n, {r})
  /\ UNCHANGED <<now, phase, session, started, version, cached, inbox, faults, links, calm>>

(* onPeerOpen at both ends: an NS message with all() each way.                  *)
LinkOpens(n, m) ==
  /\ n # m
  /\ Running(n) /\ Running(m)
  /\ links < MaxLinks
  /\ links' = links + 1
  /\ records' = [records EXCEPT ![n] = Live(@), ![m] = Live(@)]
  /\ inbox' = [inbox EXCEPT ![m] = @ \cup ({All(records[n])} \ {{}}),
                            ![n] = @ \cup ({All(records[m])} \ {{}})]
  /\ UNCHANGED <<now, phase, session, started, version, disk, cached, faults, calm>>

Lose(n) ==
  /\ faults < MaxFaults
  /\ faults' = faults + 1
  /\ calm' = 0
  /\ \E batch \in inbox[n] : inbox' = [inbox EXCEPT ![n] = @ \ {batch}]
  /\ UNCHANGED <<now, phase, session, started, version, records, disk, cached, links>>

(* The page is closed: the memory is gone.                                     *)
Crash(n) ==
  /\ Running(n)
  /\ faults < MaxFaults
  /\ faults' = faults + 1
  /\ calm' = 0
  /\ phase' = [phase EXCEPT ![n] = "down"]
  /\ records' = [records EXCEPT ![n] = Nothing]
  /\ cached' = [cached EXCEPT ![n] = Nothing]
  /\ inbox' = [inbox EXCEPT ![n] = {}]
  /\ UNCHANGED <<now, session, started, version, disk, links>>

(* start(): relays and links come up before the store has answered.             *)
Start(n) ==
  /\ phase[n] = "down"
  /\ calm' = 0
  /\ phase' = [phase EXCEPT ![n] = "loading"]
  /\ session' = [session EXCEPT ![n] = @ + 1]
  /\ version' = [version EXCEPT ![n] = 0]
  /\ cached' = [cached EXCEPT ![n] = disk[n]]
  /\ UNCHANGED <<now, started, records, disk, inbox, faults, links>>

(* The store has answered; the timers are set.                                 *)
Loaded(n) ==
  /\ phase[n] = "loading"
  /\ phase' = [phase EXCEPT ![n] = "up"]
  /\ started' = [started EXCEPT ![n] = now]
  /\ records' = [records EXCEPT ![n] = Load(cached[n], @)]
  /\ cached' = [cached EXCEPT ![n] = Nothing]
  /\ UNCHANGED <<now, session, version, disk, inbox, faults, links, calm>>

(* Nothing is on its way or about to be done.                                  *)
Quiet ==
  \A n \in Node : inbox[n] = {} /\ phase[n] # "loading" /\ (phase[n] = "up" => Due(n) > now)

Tick ==
  /\ Quiet
  /\ now < MaxTime
  /\ now' = now + 1
  /\ calm' = calm + 1
  /\ UNCHANGED <<phase, session, started, version, records, disk, cached, inbox, faults, links>>

-----------------------------------------------------------------------------
NsInit ==
  /\ now = 0
  /\ phase = [n \in Node |-> "up"]
  /\ session = [n \in Node |-> 1]
  /\ started = [n \in Node |-> 0]
  /\ version = [n \in Node |-> 0]
  /\ records = [n \in Node |-> Nothing]
  /\ disk = [n \in Node |-> Nothing]
  /\ cached = [n \in Node |-> Nothing]
  /\ inbox = [n \in Node |-> {}]
  /\ faults = 0
  /\ links = 0
  /\ calm = 0

NsNext ==
  \/ \E n \in Node : Publish(n) \/ Receive(n) \/ HearForeign(n) \/ Loaded(n)
  \/ \E n, m \in Node : LinkOpens(n, m)
  \/ \E n \in Node : Lose(n) \/ Crash(n) \/ Start(n)
  \/ Tick

NsSpec == NsInit /\ [][NsNext]_nsVars

-----------------------------------------------------------------------------
Stored == [Name -> Record \cup {NoRecord}]

(* The state is well formed, every record stands under its own name, and a slot *)
(* for a revocation holds records of its author only (nameservice.ts:50-56).    *)
NsTypeOK ==
  /\ now \in 0..MaxTime
  /\ phase \in [Node -> {"down", "loading", "up"}]
  /\ session \in [Node -> Nat] /\ started \in [Node -> Nat] /\ version \in [Node -> Nat]
  /\ \A s \in {records, disk, cached} :
       s \in [Node -> Stored] /\ \A n \in Node, name \in Name :
         s[n][name] = NoRecord
           \/ /\ s[n][name].name = name
              /\ name \in RevokedNames => s[n][name].author = name.by
  /\ inbox \in [Node -> SUBSET SUBSET Record]
  /\ faults \in 0..MaxFaults /\ links \in 0..MaxLinks /\ calm \in 0..MaxTime

(* Once the last fault is a lifetime and a period back, every page resolves the *)
(* name of every running page to a record of its present session, although that  *)
(* session counts its versions from 1 and records of earlier ones outrank it     *)
(* (nameservice.ts:122-123) and come back with any link that opens: the first    *)
(* publication behind the end of the last of them is on time.                   *)
BackWithin ==
  calm >= Ttl + Period - 1 /\ Quiet =>
    \A n, m \in {p \in Node : phase[p] = "up"} :
      LET r == records[m][NodeName(n)] IN
      r # NoRecord /\ ~IsExpired(r) /\ r.sig = session[n]

(* Who n knows to have revoked an invitation stays a revoker of it in n's eyes    *)
(* until the record expires.                                                  *)
Sticks(n) ==
  \A i \in Invite : \A k \in Revokers(records[n], i) :
    LET r == records[n][RevocationName(i, k)] IN
    k \in Revokers(records[n], i)' \/ r.at + r.ttl <= now'

(* A revocation that a page holds is not taken back before it expires, whatever  *)
(* versions others publish in the slot and whatever messages bring back, while  *)
(* the store is being read and after that (nameservice.ts:21-30).              *)
RevocationSticks ==
  [][\A n \in Node : Running(n) /\ phase'[n] = phase[n] => Sticks(n)]_nsVars

(* nameservice.ts:24, "Revocation is a MULTI-AUTHOR, MONOTONIC set": the same     *)
(* when the answer of the store is laid over what has been merged meanwhile.    *)
RevocationIsMonotonic ==
  [][\A n \in Node : Running(n) /\ Running(n)' => Sticks(n)]_nsVars
=============================================================================
