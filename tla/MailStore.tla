------------------------------ MODULE MailStore ------------------------------
(***************************************************************************)
(* The mail half of the bridge's state: diskState (state.go), the sync     *)
(* pass that fills it from Exchange ActiveSync (syncMailOnce in sync.go    *)
(* over the EAS client) and the two IMAP commands that move mail           *)
(* (expungeMarked and Copy in imapd.go).                                   *)
(*                                                                         *)
(* A folder's message list is always sorted by UID, so the list            *)
(* s.Items[f] is kept as a multiplicity per ServerID and s.UIDs[f] as a    *)
(* partial map from ServerID to UID (0: no entry).  A dangling entry is a  *)
(* nonzero UID of a message whose multiplicity is 0.                       *)
(*                                                                         *)
(* s.mu is held over memory update, main file and shard file: `writing`    *)
(* names the folder whose shard the lock holder has still to write, and    *)
(* everything that needs s.mu waits for it.  A crash may come in between.  *)
(***************************************************************************)
EXTENDS Integers, FiniteSetsExt

CONSTANTS
    Folders,    \* EAS CollectionIds of the mail folders
    Msgs,       \* ServerIDs; the server never gives one to a second message
    NoFolder,   \* no shard write is outstanding
    Window,     \* bound: additions and deletions one Sync page carries
    MaxUID,     \* bound on the UIDs handed out
    MaxMoves,   \* bound on the IMAP moves in progress
    Slots,      \* sync passes that may run at once (4 in the program)
    Faults      \* what may go wrong in this instance

FaultNames == {"crash", "badShard", "status3", "status5", "pageError",
               "lostReply", "mainFails", "shardFails", "pushback", "crossed",
               "moveLost"}

ASSUME FoldersAssumption == NoFolder \notin Folders
ASSUME MsgsAssumption == IsFiniteSet(Msgs)
ASSUME BoundsAssumption == {Window, MaxUID, MaxMoves, Slots} \subseteq Nat
ASSUME FaultsAssumption == Faults \subseteq FaultNames

VARIABLES
    \* the mail server
    mailbox,    \* messages now in each folder on the server
    born,       \* ServerIDs already given out
    told,       \* what the server reckons the holder of its last key has
    \* diskState in memory
    Items, UIDs, NextUID, SyncKeys,
    \* the files under the state directory
    main,       \* state.json: SyncKeys and FolderMeta.NextUID of all folders
    shard,      \* folders/<f>.json: Items and UIDs of one folder
    \* goroutines
    flight,     \* the sync pass running for a folder
    writing,    \* the folder whose shard s.mu's holder is about to write
    pushed,     \* the key in the reply to a flag push not yet stored
    moves,      \* IMAP moves the server has done and the state has not
    \* history
    announced   \* every <<UID, ServerID>> pair a client may have been shown

server == <<mailbox, born, told>>
memory == <<Items, UIDs, NextUID, SyncKeys>>
disk   == <<main, shard>>
tasks  == <<flight, writing, pushed, moves>>
vars   == <<server, memory, disk, tasks, announced>>

(* A SyncKey is no more than what the server will say to it: "none" (no    *)
(* key stored, or "0") starts from scratch, "live" is the key the server   *)
(* issued last, "dead" an older one.                                       *)
SyncKeyStates == {"none", "live", "dead"}

(* The Adds and Changes, and the Deletes, of the pages collected so far.   *)
(* An Add and a Change have the same effect on the list.                   *)
NoBatch == [upserts |-> {}, deleted |-> {}]

Idle == [phase |-> "idle", retried |-> FALSE, moved |-> FALSE, got |-> NoBatch]

Batches == [upserts: SUBSET Msgs, deleted: SUBSET Msgs]

Flights == [phase: {"idle", "pull", "apply"}, retried: BOOLEAN,
            moved: BOOLEAN, got: Batches]

Shards == [items: [Msgs -> Nat], uids: [Msgs -> Nat]]

Mains == [keys: [Folders -> SyncKeyStates], next: [Folders -> Nat]]

Moves == [src: Folders, dst: Folders, from: Msgs, to: Msgs,
          stage: {"remove", "add"}]

TypeOK ==
    /\ mailbox \in [Folders -> SUBSET Msgs]
    /\ born \subseteq Msgs
    /\ told \in [Folders -> SUBSET Msgs]
    /\ Items \in [Folders -> [Msgs -> Nat]]
    /\ UIDs \in [Folders -> [Msgs -> Nat]]
    /\ NextUID \in [Folders -> Nat]
    /\ SyncKeys \in [Folders -> SyncKeyStates]
    /\ main \in Mains
    /\ shard \in [Folders -> Shards]
    /\ flight \in [Folders -> Flights]
    /\ writing \in Folders \cup {NoFolder}
    /\ pushed \in [Folders -> SyncKeyStates]
    /\ moves \subseteq Moves
    /\ announced \in [Folders -> SUBSET (Nat \X Msgs)]

Init ==
    /\ mailbox = [f \in Folders |-> {}]
    /\ born = {}
    /\ told = [f \in Folders |-> {}]
    /\ Items = [f \in Folders |-> [m \in Msgs |-> 0]]
    /\ UIDs = [f \in Folders |-> [m \in Msgs |-> 0]]
    /\ NextUID = [f \in Folders |-> 1]
    /\ SyncKeys = [f \in Folders |-> "none"]
    /\ main = [keys |-> SyncKeys, next |-> NextUID]
    /\ shard = [f \in Folders |-> [items |-> Items[f], uids |-> UIDs[f]]]
    /\ flight = [f \in Folders |-> Idle]
    /\ writing = NoFolder
    /\ pushed = [f \in Folders |-> "none"]
    /\ moves = {}
    /\ announced = [f \in Folders |-> {}]

-----------------------------------------------------------------------------
(* The data structure: UID assignment and the two kinds of file.           *)

Visible(f) == {m \in Msgs : Items[f][m] > 0}

Unlocked == writing = NoFolder

(* Slip: NextUID is recomputed from the map and the stored one ignored.    *)
FloorOfMap(f) == Max({1} \cup {UIDs[f][m] + 1 : m \in Msgs})

(* assignUIDs raises NextUID above every UID still in the map, dangling    *)
(* entries included, before it hands out new ones.                         *)
UIDFloor(f) == Max({NextUID[f]} \cup {UIDs[f][m] + 1 : m \in Msgs})

Newcomers(f, cnt) == {m \in Msgs : cnt[m] > 0 /\ UIDs[f][m] = 0}

NextAfter(f, cnt) == UIDFloor(f) + Cardinality(Newcomers(f, cnt))

(* The orders in which the newcomers of the list cnt may have arrived.     *)
Arrivals(f, cnt) ==
    Bijection(Newcomers(f, cnt), UIDFloor(f) .. NextAfter(f, cnt) - 1)

(* Slip: assignUIDs is given only the newcomers and forgets the others.    *)
NewcomerUIDs(f, cnt, arrival) ==
    [m \in Msgs |-> IF m \in Newcomers(f, cnt) THEN arrival[m] ELSE 0]

(* The map is rebuilt from the list: a message not on it loses its entry.  *)
AssignedUIDs(f, cnt, arrival) ==
    [m \in Msgs |-> IF cnt[m] = 0 THEN 0
                    ELSE IF UIDs[f][m] # 0 THEN UIDs[f][m] ELSE arrival[m]]

Entries(cnt, uids) == {<<uids[m], m>> : m \in {x \in Msgs : cnt[x] > 0}}

(* The list cnt becomes the folder's list, with UIDs assigned.             *)
AssignUIDs(f, cnt) ==
    \E arrival \in Arrivals(f, cnt) :
        /\ NextAfter(f, cnt) <= MaxUID + 1
        /\ Items' = [Items EXCEPT ![f] = cnt]
        /\ UIDs' = [UIDs EXCEPT ![f] = AssignedUIDs(f, cnt, arrival)]
        /\ NextUID' = [NextUID EXCEPT ![f] = NextAfter(f, cnt)]
        /\ announced' = [announced EXCEPT ![f] =
                            @ \cup Entries(cnt, AssignedUIDs(f, cnt, arrival))]

SaveMain == main' = [keys |-> SyncKeys', next |-> NextUID']

SaveShard(f) ==
    shard' = [shard EXCEPT ![f] = [items |-> Items'[f], uids |-> UIDs'[f]]]

(* Slip: only the shard is saved.                                          *)
SaveShardOnly(f) == SaveShard(f) /\ UNCHANGED <<main, writing>>

(* mutateFolder and addMovedItems: main file first, then the shard, all    *)
(* under s.mu; a failure of the first write returns at once.               *)
SaveMainThenShard(f) ==
    /\ UNCHANGED shard
    /\ \/ SaveMain /\ writing' = f
       \/ "mainFails" \in Faults /\ UNCHANGED <<main, writing>>

-----------------------------------------------------------------------------
(* The mail server and the account's other devices.                        *)

Arrive(f, m) ==
    /\ m \notin born
    /\ mailbox' = [mailbox EXCEPT ![f] = @ \cup {m}]
    /\ born' = born \cup {m}
    /\ UNCHANGED <<told, memory, disk, tasks, announced>>

Vanish(f, m) ==
    /\ m \in mailbox[f]
    /\ mailbox' = [mailbox EXCEPT ![f] = @ \ {m}]
    /\ UNCHANGED <<born, told, memory, disk, tasks, announced>>

(* What the server takes the client to have when it presents its key.      *)
Known(f) == IF SyncKeys[f] = "none" THEN {} ELSE told[f]

Accepted(f) == SyncKeys[f] # "dead"

(* A new key kills the one issued before it, wherever that is kept.        *)
Superseded(key) == IF key = "live" THEN "dead" ELSE key

(* The server answers a Sync with a new key, taking its holder to have     *)
(* `now`; the client stores the key in memory.                             *)
KeyAdvances(f, now) ==
    /\ told' = [told EXCEPT ![f] = now]
    /\ SyncKeys' = [SyncKeys EXCEPT ![f] = "live"]
    /\ pushed' = [pushed EXCEPT ![f] = Superseded(@)]

KeyOnFileDies(f) == main' = [main EXCEPT !.keys[f] = Superseded(@)]

-----------------------------------------------------------------------------
(* syncMail / syncMailOnce.                                                *)

(* Slip: a folder that shows something is not asked about any more.        *)
StartSyncIfEmpty(f) ==
    /\ flight[f].phase = "idle" /\ Visible(f) = {}
    /\ Unlocked
    /\ flight' = [flight EXCEPT ![f] = [Idle EXCEPT !.phase = "pull"]]
    /\ UNCHANGED <<server, memory, disk, writing, pushed, moves, announced>>

StartSync(f) ==
    /\ flight[f].phase = "idle"
    /\ Cardinality({g \in Folders : flight[g].phase # "idle"}) < Slots
    /\ Unlocked
    /\ flight' = [flight EXCEPT ![f] = [Idle EXCEPT !.phase = "pull"]]
    /\ UNCHANGED <<server, memory, disk, writing, pushed, moves, announced>>

Extend(got, page) ==
    [upserts |-> got.upserts \cup page.added \cup page.changed,
     deleted |-> got.deleted \cup page.deleted]

(* The pages the server may answer with.  A page is empty only when        *)
(* nothing is owed, or as the bootstrap answer to key 0, whose second      *)
(* request then failed unnoticed (SyncEmail returns the empty result).     *)
Pages(f) ==
    {p \in [added: SUBSET (mailbox[f] \ Known(f)),
            changed: SUBSET (mailbox[f] \cap Known(f)),
            deleted: SUBSET (Known(f) \ mailbox[f])] :
        /\ Cardinality(p.added) + Cardinality(p.deleted) <= Window
        /\ \/ p.added \cup p.deleted # {}
           \/ mailbox[f] = Known(f)
           \/ SyncKeys[f] = "none"}

After(f, p) == (Known(f) \cup p.added) \ p.deleted

MoreAvailable(f, p) ==
    p.added \cup p.deleted # {} /\ After(f, p) # mailbox[f]

(* One page: the key advances in memory, the items go to local slices.     *)
PullPage(f) ==
    /\ flight[f].phase = "pull"
    /\ Unlocked
    /\ Accepted(f)
    /\ \E p \in Pages(f) :
        /\ KeyAdvances(f, After(f, p))
        /\ flight' = [flight EXCEPT ![f] =
               [flight[f] EXCEPT
                   !.got = Extend(@, p),
                   !.moved = TRUE,
                   !.phase = IF MoreAvailable(f, p) THEN "pull" ELSE "apply"]]
    /\ KeyOnFileDies(f)
    /\ UNCHANGED <<mailbox, born, Items, UIDs, NextUID, shard, writing, moves,
                   announced>>

(* The empty 200 of a folder with no changes: the key stays.               *)
PullNothing(f) ==
    /\ flight[f].phase = "pull"
    /\ Unlocked
    /\ SyncKeys[f] = "live"
    /\ mailbox[f] = told[f]
    /\ flight' = [flight EXCEPT ![f].phase = "apply"]
    /\ UNCHANGED <<server, memory, disk, writing, pushed, moves, announced>>

(* Status 3: SyncEmail sets the key to "0" in memory and asks again.       *)
PullStatus3(f) ==
    /\ "status3" \in Faults
    /\ flight[f].phase = "pull"
    /\ Unlocked
    /\ SyncKeys[f] # "none"
    /\ SyncKeys' = [SyncKeys EXCEPT ![f] = "none"]
    /\ flight' = [flight EXCEPT ![f].moved = TRUE]
    /\ UNCHANGED <<server, Items, UIDs, NextUID, disk, writing, pushed,
                   moves, announced>>

(* The first Status 5 of a pass: resetSyncKey (which saves the main file), *)
(* drop what was collected, start again at the first page.  Only with the  *)
(* fault "crossed" does it come while a flag push awaits its reply, which  *)
(* will then store a key over the cleared one.                             *)
PullStatus5(f) ==
    /\ \/ "status5" \in Faults
       \/ ~Accepted(f)
    /\ pushed[f] = "none" \/ "crossed" \in Faults
    /\ flight[f].phase = "pull" /\ ~flight[f].retried
    /\ Unlocked
    /\ SyncKeys' = [SyncKeys EXCEPT ![f] = "none"]
    /\ UNCHANGED <<Items, UIDs, NextUID>>
    /\ \/ SaveMain
       \/ "mainFails" \in Faults /\ UNCHANGED main
    /\ flight' = [flight EXCEPT ![f] =
           [flight[f] EXCEPT !.retried = TRUE,
                             !.got = NoBatch,
                             !.moved = @ \/ SyncKeys[f] # "none"]]
    /\ UNCHANGED <<server, shard, writing, pushed, moves, announced>>

(* Slip: an error throws away the pages already collected.                 *)
PullErrorDropsPages(f) ==
    /\ "pageError" \in Faults /\ flight[f].phase = "pull"
    /\ flight' = [flight EXCEPT ![f] = Idle]
    /\ UNCHANGED <<server, memory, disk, writing, pushed, moves, announced>>

(* Any other error, a second Status 5 or the page limit ends the loop; the *)
(* pages already collected are still applied.                              *)
PullError(f) ==
    /\ \/ "pageError" \in Faults
       \/ ~Accepted(f) /\ flight[f].retried
    /\ flight[f].phase = "pull"
    /\ flight' = [flight EXCEPT ![f].phase = "apply"]
    /\ UNCHANGED <<server, memory, disk, writing, pushed, moves, announced>>

(* The reply to a page request is lost: the server has issued a new key    *)
(* that the client never sees.                                             *)
PullReplyLost(f) ==
    /\ "lostReply" \in Faults
    /\ flight[f].phase = "pull"
    /\ Unlocked
    /\ Accepted(f)
    /\ SyncKeys' = [SyncKeys EXCEPT ![f] = Superseded(@)]
    /\ pushed' = [pushed EXCEPT ![f] = Superseded(@)]
    /\ KeyOnFileDies(f)
    /\ flight' = [flight EXCEPT ![f].phase = "apply"]
    /\ UNCHANGED <<server, Items, UIDs, NextUID, shard, writing, moves,
                   announced>>

(* Nothing collected: saveNow if the key moved.                            *)
ApplyNothing(f) ==
    /\ flight[f].phase = "apply" /\ flight[f].got = NoBatch
    /\ Unlocked
    /\ UNCHANGED memory
    /\ \/ flight[f].moved /\ SaveMain
       \/ (~flight[f].moved \/ "mainFails" \in Faults) /\ UNCHANGED main
    /\ flight' = [flight EXCEPT ![f] = Idle]
    /\ UNCHANGED <<server, shard, writing, pushed, moves, announced>>

(* The list after a batch: an Add or a Change of an unknown message        *)
(* appends it, a Delete drops every copy, and Deletes are applied last.    *)
Merged(f, got) ==
    [m \in Msgs |->
        IF m \in got.deleted THEN 0
        ELSE IF Items[f][m] = 0 /\ m \in got.upserts THEN 1
        ELSE Items[f][m]]

(* mutateFolder(merge).                                                    *)
Apply(f) ==
    /\ flight[f].phase = "apply" /\ flight[f].got # NoBatch
    /\ Unlocked
    /\ AssignUIDs(f, Merged(f, flight[f].got))
    /\ UNCHANGED SyncKeys
    /\ SaveMainThenShard(f)
    /\ flight' = [flight EXCEPT ![f] = Idle]
    /\ UNCHANGED <<server, pushed, moves>>

(* The shard half of mutateFolder and addMovedItems, then s.mu is free.    *)
WriteShard ==
    /\ writing # NoFolder
    /\ UNCHANGED memory
    /\ \/ SaveShard(writing)
       \/ "shardFails" \in Faults /\ UNCHANGED shard
    /\ writing' = NoFolder
    /\ UNCHANGED <<server, main, flight, pushed, moves, announced>>

-----------------------------------------------------------------------------
(* IMAP STORE and the moving commands.                                     *)

(* pushEmailChanges, the request: an upstream Sync that the server answers *)
(* with a new key (a folder that has none is bootstrapped first); the key  *)
(* in memory is out of date until the reply is read.  The request carries  *)
(* no GetChanges: the server may put what it owes into the reply, of which *)
(* the client reads only the key and the Responses.                        *)
PushEmailChanges(f) ==
    /\ Visible(f) # {}
    /\ Unlocked
    /\ Accepted(f)
    /\ pushed[f] = "none"
    /\ \/ told' = [told EXCEPT ![f] = Known(f)]
       \/ /\ "pushback" \in Faults
          /\ \E p \in Pages(f) : told' = [told EXCEPT ![f] = After(f, p)]
    /\ SyncKeys' = [SyncKeys EXCEPT ![f] = "dead"]
    /\ pushed' = [pushed EXCEPT ![f] = "live"]
    /\ KeyOnFileDies(f)
    /\ flight' = [flight EXCEPT ![f].moved =
                     @ \/ (SyncKeys[f] = "none" /\ flight[f].phase # "idle")]
    /\ UNCHANGED <<mailbox, born, Items, UIDs, NextUID, shard, writing, moves,
                   announced>>

(* The reply: its key goes into memory, then saveNow.                      *)
PushReply(f) ==
    /\ pushed[f] # "none"
    /\ Unlocked
    /\ SyncKeys' = [SyncKeys EXCEPT ![f] = pushed[f]]
    /\ pushed' = [pushed EXCEPT ![f] = "none"]
    /\ UNCHANGED <<Items, UIDs, NextUID>>
    /\ \/ SaveMain
       \/ "mainFails" \in Faults /\ UNCHANGED main
    /\ flight' = [flight EXCEPT ![f].moved = flight[f].phase # "idle"]
    /\ UNCHANGED <<server, shard, writing, moves, announced>>

PushReplyLost(f) ==
    /\ "lostReply" \in Faults
    /\ pushed[f] # "none"
    /\ pushed' = [pushed EXCEPT ![f] = "none"]
    /\ UNCHANGED <<server, memory, disk, flight, writing, moves, announced>>

(* A push answered with Status 3: the client starts again from key 0.      *)
PushStatus3(f) ==
    /\ "status3" \in Faults
    /\ Visible(f) # {}
    /\ Unlocked
    /\ SyncKeys[f] # "none" /\ pushed[f] = "none"
    /\ KeyAdvances(f, {})
    /\ UNCHANGED <<Items, UIDs, NextUID>>
    /\ \/ SaveMain
       \/ "mainFails" \in Faults /\ KeyOnFileDies(f)
    /\ flight' = [flight EXCEPT ![f].moved = flight[f].phase # "idle"]
    /\ UNCHANGED <<mailbox, born, shard, writing, moves, announced>>

(* MoveItems: the server moves a message the client sees and gives it a    *)
(* new ServerID.  It will not echo either half to this device.  If the     *)
(* reply is lost or late the command fails and records neither half.       *)
MoveItems(src, dst, m, n) ==
    /\ src # dst
    /\ Unlocked
    /\ m \in mailbox[src] /\ m \in Visible(src)
    /\ n \notin born
    /\ Cardinality(moves) < MaxMoves
    /\ mailbox' = [mailbox EXCEPT ![src] = @ \ {m}, ![dst] = @ \cup {n}]
    /\ born' = born \cup {n}
    /\ told' = [told EXCEPT ![src] = @ \ {m}, ![dst] = @ \cup {n}]
    /\ \/ moves' = moves \cup {[src |-> src, dst |-> dst, from |-> m, to |-> n,
                                stage |-> "remove"]}
       \/ "moveLost" \in Faults /\ UNCHANGED moves
    /\ UNCHANGED <<memory, disk, flight, writing, pushed, announced>>

(* removeItems: the list loses the message, the UID map is left alone, the *)
(* shard is saved; if that fails the command ends here.                    *)
RemoveItems(v) ==
    /\ v.stage = "remove"
    /\ Unlocked
    /\ Items' = [Items EXCEPT ![v.src][v.from] = 0]
    /\ UNCHANGED <<UIDs, NextUID, SyncKeys>>
    /\ \/ /\ SaveShard(v.src)
          /\ moves' = (moves \ {v}) \cup {[v EXCEPT !.stage = "add"]}
       \/ /\ "shardFails" \in Faults
          /\ UNCHANGED shard
          /\ moves' = moves \ {v}
    /\ UNCHANGED <<server, main, flight, writing, pushed, announced>>

(* addMovedItems: append to the destination's list without looking whether *)
(* the message is on it, assign UIDs, save.                                *)
AddMovedItems(v) ==
    /\ v.stage = "add"
    /\ Unlocked
    /\ AssignUIDs(v.dst, [Items[v.dst] EXCEPT ![v.to] = @ + 1])
    /\ UNCHANGED SyncKeys
    /\ SaveMainThenShard(v.dst)
    /\ moves' = moves \ {v}
    /\ UNCHANGED <<server, flight, pushed>>

-----------------------------------------------------------------------------
(* loadState in a new process.                                             *)

(* Slip: FolderMeta is not read back.                                      *)
LoadWithoutMeta(bad) ==
    /\ Items' = [f \in Folders |-> shard[f].items]
    /\ UIDs' = [f \in Folders |-> shard[f].uids]
    /\ NextUID' = [f \in Folders |-> 1]
    /\ SyncKeys' = main.keys
    /\ flight' = [f \in Folders |-> Idle]
    /\ writing' = NoFolder
    /\ pushed' = [f \in Folders |-> "none"]
    /\ moves' = {}
    /\ UNCHANGED <<server, disk, announced>>

(* Slip: a skipped shard leaves its folder without lists.                  *)
LoadUnnormalized(bad) ==
    /\ Items' = [f \in Folders \ bad |-> shard[f].items]
    /\ UIDs' = [f \in Folders \ bad |-> shard[f].uids]
    /\ NextUID' = main.next
    /\ SyncKeys' = main.keys
    /\ flight' = [f \in Folders |-> Idle]
    /\ writing' = NoFolder
    /\ pushed' = [f \in Folders |-> "none"]
    /\ moves' = {}
    /\ UNCHANGED <<server, disk, announced>>

Load(bad) ==
    /\ Items' = [f \in Folders |-> IF f \in bad THEN [m \in Msgs |-> 0]
                                   ELSE shard[f].items]
    /\ UIDs' = [f \in Folders |-> IF f \in bad THEN [m \in Msgs |-> 0]
                                  ELSE shard[f].uids]
    /\ NextUID' = main.next
    /\ SyncKeys' = main.keys
    /\ flight' = [f \in Folders |-> Idle]
    /\ writing' = NoFolder
    /\ pushed' = [f \in Folders |-> "none"]
    /\ moves' = {}
    /\ UNCHANGED <<server, disk, announced>>

Crash ==
    /\ "crash" \in Faults
    /\ Load({})

(* A clean restart with nothing in progress that finds a shard unreadable  *)
(* and skips it.                                                           *)
RestartBadShard(f) ==
    /\ "badShard" \in Faults
    /\ Unlocked /\ moves = {}
    /\ \A g \in Folders : flight[g] = Idle /\ pushed[g] = "none"
    /\ Load({f})

-----------------------------------------------------------------------------
Next ==
    \/ \E f \in Folders, m \in Msgs : Arrive(f, m) \/ Vanish(f, m)
    \/ \E f \in Folders :
        \/ StartSync(f)
        \/ PullPage(f) \/ PullNothing(f)
        \/ PullStatus3(f) \/ PullStatus5(f)
        \/ PullError(f) \/ PullReplyLost(f)
        \/ ApplyNothing(f) \/ Apply(f)
        \/ PushEmailChanges(f) \/ PushReply(f) \/ PushReplyLost(f)
        \/ PushStatus3(f)
        \/ RestartBadShard(f)
    \/ WriteShard
    \/ \E src, dst \in Folders, m, n \in Msgs : MoveItems(src, dst, m, n)
    \/ \E v \in moves : RemoveItems(v) \/ AddMovedItems(v)
    \/ Crash

Spec == Init /\ [][Next]_vars

(* The server answers a page request, if only to reject the key.           *)
Answered(f) ==
    \/ PullPage(f) \/ PullNothing(f)
    \/ ~Accepted(f) /\ (PullStatus5(f) \/ (flight[f].retried /\ PullError(f)))

(* The poller synchronises every folder again and again, a request in      *)
(* flight ends (2 minute timeout), and upstream answers infinitely often.  *)
(* s.mu is a sync.Mutex and the slots are a channel: neither starves a     *)
(* waiter, hence strong fairness of what waits for them.                   *)
Fairness ==
    /\ \A f \in Folders :
        /\ SF_vars(StartSync(f))
        /\ SF_vars(Answered(f))
        /\ SF_vars(ApplyNothing(f) \/ Apply(f))
        /\ SF_vars(PushReply(f))
    /\ WF_vars(WriteShard)
    /\ SF_vars(\E v \in moves : RemoveItems(v) \/ AddMovedItems(v))

FairSpec == Spec /\ Fairness

-----------------------------------------------------------------------------
(* Safety.                                                                 *)

(* A UID a client has seen never comes to name another message, across     *)
(* sync-side deletions, moves, failed shard writes, crashes and lost       *)
(* shards (assignUIDs, mutateFolder, loadState).                           *)
OneMessagePerUID ==
    \A f \in Folders : \A p, q \in announced[f] : p[1] = q[1] => p = q

(* The UIDs shown to clients follow the rules of the abstract ledger, step *)
(* by step: every number given lies at or above the UIDNEXT of the moment  *)
(* and UIDNEXT never falls, not even over a crash.                         *)
Ledger == INSTANCE UIDLedger WITH next <- NextUID, bound <- announced

KeepsLedger == Ledger!Spec

(* Every message on a folder's list has a UID, no two messages share one,  *)
(* and UIDNEXT lies above all of them: what SELECT, FETCH and the snapshot *)
(* of an IMAP session take for granted of s.Items and s.UIDs.              *)
ListedMessagesHaveUIDs ==
    \A f \in Folders : \A m \in Visible(f) :
        /\ UIDs[f][m] \in 1 .. NextUID[f] - 1
        /\ \A n \in Visible(f) : UIDs[f][n] = UIDs[f][m] => n = m

(* The main file is never behind a shard: whatever instant the process     *)
(* dies at, a restart finds a NextUID above every UID a client was shown   *)
(* (the write order of mutateFolder and addMovedItems).                    *)
DurableUIDFloor ==
    \A f \in Folders :
        /\ \A p \in announced[f] : p[1] < main.next[f]
        /\ \A m \in Msgs : shard[f].uids[m] < main.next[f]

(* Messages on the list, or in the hands of a sync pass or a move.          *)
Held(f) ==
    Visible(f) \cup flight[f].got.upserts
               \cup {v.to : v \in {w \in moves : w.dst = f}}

(* What the server reckons delivered under the client's current key, and   *)
(* still stores, is on the folder's list, in the pages the running pass    *)
(* has collected, or in a move about to be recorded: no error path of      *)
(* syncMailOnce and no interleaving with a move drops a message whose key  *)
(* has been consumed.                                                      *)
NoMailLost ==
    \A f \in Folders :
        SyncKeys[f] = "live" => told[f] \cap mailbox[f] \subseteq Held(f)

(* A crash between the two writes of mutateFolder costs only UID numbers   *)
(* (state.go:359-362): no delivered message is lost.                       *)
CrashCostsOnlyUIDs == NoMailLost

(* A shard that cannot be read is skipped because a full sync rebuilds it  *)
(* (state.go:161): its messages are not lost.                              *)
BadShardIsRebuilt == NoMailLost

(* Clearing a rejected key and pulling everything again heals the folder   *)
(* (sync.go:434-435): once nothing is owed, collected or being moved, the  *)
(* list shows no message the server no longer has.                         *)
FullPullHeals ==
    \A f \in Folders :
        /\ SyncKeys[f] = "live" /\ told[f] = mailbox[f]
        /\ flight[f] = Idle /\ moves = {}
        => Visible(f) \subseteq mailbox[f]

(* A rejected key is cleared and the folder pulled in full                 *)
(* (sync.go:434-435), so what was collected may be dropped: no message is  *)
(* lost, even if a flag push is waiting for its reply meanwhile.           *)
RetryStartsAgain == NoMailLost

(* A request that carries local flag changes upstream does not consume     *)
(* what the server has to deliver (changes.go:145-146).                    *)
PushConsumesNothing == NoMailLost

(* The server does not echo a move to the device that made it, so the      *)
(* bridge puts the message on the destination's list itself                *)
(* (imapd.go:696-697): a message moved is lost to neither folder.          *)
MovedMailIsKept == NoMailLost

(* A message that comes onto a folder's list, or comes onto it once more,  *)
(* has a UID not below the UIDNEXT clients have been told: UIDs ascend and *)
(* no entry of a message that left survives to be used again.              *)
ArrivalsGetFreshUIDs ==
    [][\A f \in Folders, m \in Msgs :
            Items'[f][m] > Items[f][m] => UIDs'[f][m] >= NextUID[f]]_vars

-----------------------------------------------------------------------------
(* Liveness.                                                               *)

(* What makes the client lose, or leave behind, the key it works with.     *)
KeyDisturbed ==
    \E f \in Folders : \/ PullStatus3(f) \/ PullStatus5(f)
                      \/ PushEmailChanges(f) \/ PushStatus3(f)

(* If the server stops rejecting keys and the user stops changing flags,   *)
(* every message the server keeps is eventually listed, whatever replies   *)
(* were lost, pages failed and files could not be written before.          *)
EveryMailArrives ==
    <>[][~KeyDisturbed]_vars =>
        \A f \in Folders, m \in Msgs :
            m \in mailbox[f] ~> (m \in Visible(f) \/ m \notin mailbox[f])
=============================================================================
