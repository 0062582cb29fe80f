------------------------------- MODULE Session -------------------------------
(***************************************************************************)
(* The list of conversations of one page (src/client/main.ts): boot() restores *)
(* it, opening a channel or DM adds to it, a changed list of relays restarts   *)
(* all of it, a relay that one conversation learns of is handed to all, and     *)
(* every operation yields to the others wherever it awaits. A conversation is   *)
(* an object whose start() and stop() take a while                            *)
(* (src/client/conversation.ts).                                             *)
(*                                                                          *)
(* Puts are done in the order they are called. Their transactions are committed   *)
(* some time later: a reload may come before that.                            *)
(***************************************************************************)
EXTENDS Integers, FiniteSets

CONSTANTS
  Net,        \* conversations, by network id
  Channels,   \* those that are channels; the others are DMs
  General,    \* the channel #general
  Url,        \* relays
  MaxConvs,   \* bound: objects at a time
  MaxRejoins, \* bound: rejoinAll under way at a time
  MaxOps,     \* bound: what the user or a peer does
  NoConv

ASSUME SessionAssumption ==
  /\ General \in Channels /\ Channels \subseteq Net
  /\ NoConv \notin [net : Net, phase : {"starting", "running", "stopped"}, urls : SUBSET Url]
  /\ MaxConvs \in Nat /\ MaxRejoins \in Nat /\ MaxOps \in Nat

Ids == 1..MaxConvs

VARIABLES
  conv,     \* id -> a Conversation object, or NoConv
  listed,   \* the objects in the Map `conversations`: ids
  closed,   \* those of them that stop() has closed while they were starting
  relays,   \* the list of relays
  opening,  \* objects that openChannel or openDm waits for
  boot,     \* the coroutine of boot(): [at, left, cur]
  rejoin,   \* id -> a coroutine of rejoinAll(): [at, specs, urls, seen, cur]
  saved,    \* the list of conversations put to IndexedDB last
  opened,   \* ghost: what the user has opened
  clash,    \* ghost: a rejoin overlapped another operation, or a reload cut one off
            \* or came before the commit
  ops       \* operations so far

vars == <<conv, listed, closed, relays, opening, boot, rejoin, saved, opened, clash, ops>>

NetsOf(ids) == {conv[i].net : i \in ids}

IsListed(net) == net \in NetsOf(listed)

NoTask == [at |-> "none"]

Rejoining == {k \in DOMAIN rejoin : rejoin[k] # NoTask}

Quiet == opening = {} /\ boot = NoTask /\ Rejoining = {}

Act == ops < MaxOps /\ ops' = ops + 1

-----------------------------------------------------------------------------
(* addConversation                                                           *)

(* A new object under the smallest free id, in the Map, its start() called.     *)
NewId == CHOOSE i \in Ids : conv[i] = NoConv /\ \A j \in 1..(i - 1) : conv[j] # NoConv

Add(net, urls) ==
  /\ \E i \in Ids : conv[i] = NoConv
  /\ conv' = [conv EXCEPT ![NewId] = [net |-> net, phase |-> "starting", urls |-> urls]]
  /\ listed' = listed \cup {NewId}

\* Mutant: a new conversation is not added to the stored list.
Added_NotStored(i) ==
  /\ conv' = [conv EXCEPT ![i].phase = "running"]
  /\ UNCHANGED saved

(* start() has returned: the timers of object i run. persistConversations stores *)
(* what is listed by now. If stop() has been called meanwhile, the timers run    *)
(* all the same, and the rest too unless it had closed it.                    *)
Added(i) ==
  /\ conv' = [conv EXCEPT ![i].phase = "running"]
  /\ saved' = NetsOf(listed)

(* openChannel, openDm                                                       *)
Open(net) ==
  /\ Act
  /\ IF IsListed(net)
     THEN opened' = opened \cup {net} /\ UNCHANGED <<conv, listed, opening>>
     ELSE /\ Add(net, relays)
          /\ opening' = opening \cup {NewId}
          /\ UNCHANGED opened
  /\ clash' = (clash \/ Rejoining # {})
  /\ UNCHANGED <<closed, relays, boot, rejoin, saved>>

Opened(i) ==
  /\ i \in opening
  /\ Added(i)
  /\ opening' = opening \ {i}
  /\ opened' = opened \cup {conv[i].net}
  /\ UNCHANGED <<listed, closed, relays, boot, rejoin, clash, ops>>

-----------------------------------------------------------------------------
(* boot                                                                      *)

Restoring(nets) == [at |-> "restoring", left |-> nets, cur |-> 0]

(* The next conversation of the stored list; after the last, #general if no      *)
(* channel is there.                                                         *)
BootAdds ==
  /\ boot # NoTask
  /\ boot.cur = 0
  /\ IF boot.left # {}
     THEN \E net \in boot.left :
            IF IsListed(net)
            THEN /\ boot' = [boot EXCEPT !.left = @ \ {net}]
                 /\ UNCHANGED <<conv, listed>>
            ELSE /\ Add(net, relays)
                 /\ boot' = [boot EXCEPT !.left = @ \ {net}, !.cur = NewId]
     ELSE IF NetsOf(listed) \cap Channels = {}
          THEN /\ Add(General, relays)
               /\ boot' = [boot EXCEPT !.cur = NewId]
          ELSE /\ boot' = NoTask
               /\ UNCHANGED <<conv, listed>>
  /\ UNCHANGED <<closed, relays, opening, rejoin, saved, opened, clash, ops>>

BootAdded ==
  /\ boot # NoTask
  /\ boot.cur # 0
  /\ Added(boot.cur)
  /\ boot' = [boot EXCEPT !.cur = 0]
  /\ UNCHANGED <<listed, closed, relays, opening, rejoin, opened, clash, ops>>

-----------------------------------------------------------------------------
(* addRelay, removeRelay, rejoinAll                                          *)

(* The new list is being stored; rejoinAll comes next.                         *)
ChangeRelays(k) ==
  /\ Act
  /\ rejoin[k] = NoTask
  /\ \E u \in Url : relays' = IF u \in relays THEN relays \ {u} ELSE relays \cup {u}
  /\ rejoin' = [rejoin EXCEPT ![k] = [at |-> "saving"]]
  /\ clash' = (clash \/ ~Quiet)
  /\ UNCHANGED <<conv, listed, closed, opening, boot, saved, opened>>

(* What will be restarted, and with which relays, is fixed here.               *)
Capture(k) ==
  /\ rejoin[k].at = "saving"
  /\ rejoin' = [rejoin EXCEPT ![k] =
                  [at |-> "stopping", specs |-> NetsOf(listed), urls |-> relays,
                   seen |-> {}, cur |-> 0]]
  /\ UNCHANGED <<conv, listed, closed, relays, opening, boot, saved, opened, clash, ops>>

(* stop() of an object of the Map. One that is still starting goes on: if stop()  *)
(* comes after pool.start(), its pool and mesh are closed, and if before, they   *)
(* are made later.                                                          *)
StopNext(k) ==
  /\ rejoin[k].at = "stopping"
  /\ \E i \in listed \ rejoin[k].seen :
       /\ IF conv[i].phase = "starting"
          THEN closed' \in {closed, closed \cup {i}} /\ UNCHANGED conv
          ELSE conv' = [conv EXCEPT ![i].phase = "stopped"] /\ UNCHANGED closed
       /\ rejoin' = [rejoin EXCEPT ![k].seen = @ \cup {i}]
  /\ UNCHANGED <<listed, relays, opening, boot, saved, opened, clash, ops>>

\* Mutant: the stopped objects stay in the Map.
Clear_Nothing(k) ==
  /\ rejoin[k].at = "stopping"
  /\ listed \subseteq rejoin[k].seen
  /\ rejoin' = [rejoin EXCEPT ![k].at = "adding", ![k].seen = {}]
  /\ UNCHANGED <<conv, listed, closed, relays, opening, boot, saved, opened, clash, ops>>

(* All are stopped: the Map is cleared, whatever it holds by now, and objects    *)
(* that nothing refers to any more are gone.                                  *)
Clear(k) ==
  /\ rejoin[k].at = "stopping"
  /\ listed \subseteq rejoin[k].seen
  /\ listed' = {} /\ closed' = {}
  /\ conv' = [i \in Ids |-> IF conv[i] # NoConv /\ conv[i].phase = "stopped"
                            THEN NoConv ELSE conv[i]]
  /\ rejoin' = [j \in DOMAIN rejoin |->
                  IF j = k THEN [rejoin[k] EXCEPT !.at = "adding", !.seen = {}]
                  ELSE IF rejoin[j].at = "stopping"
                       THEN [rejoin[j] EXCEPT !.seen = {}] ELSE rejoin[j]]
  /\ UNCHANGED <<relays, opening, boot, saved, opened, clash, ops>>

AddNext(k) ==
  /\ rejoin[k].at = "adding"
  /\ rejoin[k].cur = 0
  /\ IF rejoin[k].specs = {}
     THEN rejoin' = [rejoin EXCEPT ![k] = NoTask] /\ UNCHANGED <<conv, listed>>
     ELSE \E net \in rejoin[k].specs :
            IF IsListed(net)
            THEN /\ rejoin' = [rejoin EXCEPT ![k].specs = @ \ {net}]
                 /\ UNCHANGED <<conv, listed>>
            ELSE /\ Add(net, rejoin[k].urls)
                 /\ rejoin' = [rejoin EXCEPT ![k].specs = @ \ {net}, ![k].cur = NewId]
  /\ UNCHANGED <<closed, relays, opening, boot, saved, opened, clash, ops>>

AddedNext(k) ==
  /\ rejoin[k].at = "adding"
  /\ rejoin[k].cur # 0
  /\ Added(rejoin[k].cur)
  /\ rejoin' = [rejoin EXCEPT ![k].cur = 0]
  /\ UNCHANGED <<listed, closed, relays, opening, boot, opened, clash, ops>>

-----------------------------------------------------------------------------
\* Mutant: the relay is stored for the next start only.
Adopt_Later(u) ==
  /\ Act
  /\ u \notin relays
  /\ \E i \in Ids : conv[i] # NoConv
  /\ relays' = relays \cup {u}
  /\ clash' = (clash \/ Rejoining # {})
  /\ UNCHANGED <<conv, listed, closed, opening, boot, rejoin, saved, opened>>

(* adoptRelay: one conversation has learned of u; all that are listed get it.   *)
Adopt(u) ==
  /\ Act
  /\ u \notin relays
  /\ \E i \in Ids : conv[i] # NoConv
  /\ relays' = relays \cup {u}
  /\ conv' = [i \in Ids |-> IF i \in listed THEN [conv[i] EXCEPT !.urls = @ \cup {u}]
                            ELSE conv[i]]
  /\ clash' = (clash \/ Rejoining # {})
  /\ UNCHANGED <<listed, closed, opening, boot, rejoin, saved, opened>>

(* The page is loaded again.                                                  *)
Load(nets, urls) ==
  /\ conv' = [i \in Ids |-> NoConv]
  /\ listed' = {} /\ closed' = {}
  /\ relays' = urls
  /\ saved' = nets
  /\ opening' = {}
  /\ boot' = Restoring(nets)
  /\ rejoin' = [k \in DOMAIN rejoin |-> NoTask]

(* A reload finds the list as it was put last or, when it comes before that is      *)
(* committed, what an earlier put has stored: any list, as those are not kept.   *)
Reload ==
  /\ Act
  /\ \E nets \in SUBSET Net :
       /\ Load(nets, relays)
       /\ clash' = (clash \/ ~Quiet \/ nets # saved)
  /\ UNCHANGED opened

(* resetAll and firstRun: the store is emptied.                               *)
ResetAll ==
  /\ Act
  /\ Load({}, {})
  /\ opened' = {}
  /\ UNCHANGED clash

-----------------------------------------------------------------------------
Init ==
  /\ conv = [i \in Ids |-> NoConv]
  /\ listed = {} /\ closed = {}
  /\ relays = {}
  /\ opening = {}
  /\ boot = Restoring({})
  /\ rejoin = [k \in 1..MaxRejoins |-> NoTask]
  /\ saved = {}
  /\ opened = {}
  /\ clash = FALSE
  /\ ops = 0

RejoinStep(k) == Capture(k) \/ StopNext(k) \/ Clear(k) \/ AddNext(k) \/ AddedNext(k)

Next ==
  \/ \E net \in Net : Open(net)
  \/ \E i \in Ids : Opened(i)
  \/ BootAdds \/ BootAdded
  \/ \E k \in DOMAIN rejoin : ChangeRelays(k) \/ RejoinStep(k)
  \/ \E u \in Url : Adopt(u)
  \/ Reload \/ ResetAll

Spec == Init /\ [][Next]_vars

-----------------------------------------------------------------------------
(* Once every operation is over, each conversation in the list runs, however     *)
(* they overlapped: none is the object of an earlier round that was stopped, or   *)
(* closed while it started (main.ts:416-422).                                 *)
ListedRuns == Quiet => \A i \in listed : conv[i].phase = "running" /\ i \notin closed

(* ... and is what a reload will restore once it is committed.                   *)
ListSaved == Quiet => NetsOf(listed) \subseteq saved

(* As long as nothing overlaps a rejoin and no reload cuts off an operation or     *)
(* comes before its commit, nothing is lost: what the user has opened is listed, *)
(* nothing else runs, and all have every relay (main.ts:395-399).              *)
NothingLost ==
  Quiet /\ ~clash =>
    /\ opened \subseteq NetsOf(listed)
    /\ \A i \in Ids : conv[i] # NoConv => i \in listed /\ conv[i].urls = relays
=============================================================================
