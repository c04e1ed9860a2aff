------------------------------- MODULE FlagSync -------------------------------
(***************************************************************************)
(* \Seen and \Flagged in one mail folder: STORE marks messages in the      *)
(* bridge's list and then pushes the marks to the server (applyFlagMuta-   *)
(* tions and pushEmailChanges in imapd.go), while sync passes bring in     *)
(* what other devices did (syncMailOnce in sync.go).                       *)
(*                                                                         *)
(* A cell is one of the two flags of one message.  The server does not     *)
(* report a client's own changes back to it, so a cell is owed to the      *)
(* bridge only when someone else changed it, or when the SyncKey starts    *)
(* over and everything is sent again: then its message comes as an         *)
(* addition, otherwise as a change.                                        *)
(*                                                                         *)
(* Which messages there are, and the SyncKeys themselves, are MailStore's; *)
(* here a key that the server refuses owes the bridge every cell, and a    *)
(* key that has passed a report nobody read no longer owes its cell.       *)
(***************************************************************************)
EXTENDS Integers

CONSTANTS
    Cells,          \* flags of messages
    Sessions,       \* IMAP connections that have the folder selected
    MaxChanges,     \* bound on the changes other devices make
    MaxStores,      \* bound on the STORE commands
    MaxTroubles,    \* bound on refused keys, page errors and crashes
    Faults          \* what may go wrong in this instance

FaultNames == {"status3", "status5", "pageError", "saveFails", "clientGone",
               "pushFails", "pushback", "refused", "crash"}

ASSUME BoundsAssumption == {MaxChanges, MaxStores, MaxTroubles} \subseteq Nat
ASSUME FaultsAssumption == Faults \subseteq FaultNames

VARIABLES
    server,     \* the flags the mail server holds
    owed,       \* cells the server has still to report
    anew,       \* those of them whose messages it sends as additions
    local,      \* s.Items: the flags the bridge shows its clients
    file,       \* the flags in the folder's shard file
    pass,       \* the sync pass of the folder
    store,      \* the STORE each session is serving
    spent,      \* how much of each bound is used
    \* history
    dirty,      \* cells that two of the pass and the STOREs have held at once
    doubt,      \* cells let go while dirty, by a STORE that did not succeed, or
                \* with their report lost behind the key
    unsaved     \* cells that changed in memory while the shard was not written

data  == <<server, owed, anew, local, file>>
tasks == <<pass, store>>
vars  == <<server, owed, anew, local, file, pass, store, spent, dirty, doubt, unsaved>>

NoPage == [c \in {} |-> FALSE]

NoPass == [at |-> "idle", added |-> NoPage, changed |-> NoPage, stale |-> {},
           retried |-> FALSE]

NoStore == [at |-> "idle", todo |-> {}, done |-> {}, value |-> FALSE]

Flags == [Cells -> BOOLEAN]

Pages == UNION {[D -> BOOLEAN] : D \in SUBSET Cells}

(* stale is history: cells that came as a change and later as an addition, *)
(* or whose newer report a push has discarded.                             *)
Passes == [at: {"idle", "more", "last"}, added: Pages, changed: Pages,
           stale: SUBSET Cells, retried: BOOLEAN]

Stores == [at: {"idle", "marking", "pushing", "failed"}, todo: SUBSET Cells,
           done: SUBSET Cells, value: BOOLEAN]

Budgets == [changes: 0 .. MaxChanges, stores: 0 .. MaxStores,
            troubles: 0 .. MaxTroubles]

TypeOK ==
    /\ server \in Flags
    /\ owed \subseteq Cells
    /\ anew \subseteq Cells
    /\ local \in Flags
    /\ file \in Flags
    /\ pass \in Passes
    /\ store \in [Sessions -> Stores]
    /\ spent \in Budgets
    /\ dirty \subseteq Cells
    /\ doubt \subseteq Cells
    /\ unsaved \subseteq Cells

(* The folder has been pulled once.                                        *)
Init ==
    /\ server \in Flags
    /\ owed = {}
    /\ anew = {}
    /\ local = server
    /\ file = server
    /\ pass = NoPass
    /\ store = [s \in Sessions |-> NoStore]
    /\ spent = [changes |-> 0, stores |-> 0, troubles |-> 0]
    /\ dirty = {}
    /\ doubt = {}
    /\ unsaved = {}

(* The cells whose value a pass or a STORE carries.                        *)
Brought == DOMAIN pass.added \cup DOMAIN pass.changed

Marked == UNION {store[s].done : s \in Sessions}

Held == Brought \cup Marked

Contended ==
    {c \in Cells :
        \/ c \in Brought \cap Marked
        \/ \E s, t \in Sessions : s # t /\ c \in store[s].done \cap store[t].done}

Value(D, v) == [c \in D |-> v]

(* The function f with p laid over it.                                     *)
Over(p, f) ==
    [c \in DOMAIN p \cup DOMAIN f |-> IF c \in DOMAIN p THEN p[c] ELSE f[c]]

(* What the pages come to: all additions first, then all changes.          *)
Page == Over(pass.changed, pass.added)

(* The key starts over: everything is sent again.                          *)
Reset == owed' = Cells /\ anew' = Cells

Trouble(name) ==
    /\ name \in Faults
    /\ spent.troubles < MaxTroubles
    /\ spent' = [spent EXCEPT !.troubles = @ + 1]

-----------------------------------------------------------------------------
(* Other devices.                                                          *)

OthersChange(c) ==
    /\ spent.changes < MaxChanges
    /\ spent' = [spent EXCEPT !.changes = @ + 1]
    /\ server' = [server EXCEPT ![c] = ~@]
    /\ owed' = owed \cup {c}
    /\ UNCHANGED <<anew, local, file, tasks, doubt, unsaved>>

-----------------------------------------------------------------------------
(* The sync pass.                                                          *)

StartPass ==
    /\ pass.at = "idle"
    /\ pass' = [NoPass EXCEPT !.at = "more"]
    /\ UNCHANGED <<data, store, spent, doubt, unsaved>>

(* What the server has for the cells D.                                    *)
Sent(D) == [c \in D |-> server[c]]

PullPage ==
    /\ pass.at = "more"
    /\ \E D \in SUBSET owed :
          /\ D = {} => owed = {}
          /\ owed' = owed \ D
          /\ anew' = anew \ D
          /\ pass' = [pass EXCEPT
                         !.added = Over(Sent(D \cap anew), @),
                         !.changed = Over(Sent(D \ anew), @),
                         !.stale = (@ \cup (D \cap anew \cap DOMAIN pass.changed))
                                      \ (D \ anew),
                         !.at = IF D = owed THEN "last" ELSE "more"]
    /\ UNCHANGED <<server, local, file, store, spent, doubt, unsaved>>

(* The client resets a key refused with Status 3 within the same call.     *)
PullStatus3 ==
    /\ pass.at = "more"
    /\ Trouble("status3")
    /\ Reset
    /\ UNCHANGED <<server, local, file, tasks, doubt, unsaved>>

(* The first Status 5 of a pass drops the pages and starts over, a second  *)
(* one ends the pass with what it has.                                     *)
PullStatus5 ==
    /\ pass.at = "more"
    /\ Trouble("status5")
    /\ Reset
    /\ pass' = IF pass.retried
                  THEN [pass EXCEPT !.at = "last"]
                  ELSE [NoPass EXCEPT !.at = "more", !.retried = TRUE]
    /\ UNCHANGED <<server, local, file, store, doubt, unsaved>>

(* Slip: a failure leaves the pass at once, without the pages it has.      *)
PullErrorDrops ==
    /\ pass.at = "more"
    /\ Trouble("pageError")
    /\ Reset \/ UNCHANGED <<owed, anew>>
    /\ pass' = NoPass
    /\ UNCHANGED <<server, local, file, store, doubt, unsaved>>

(* Any other failure ends the pass with the pages it has.  If the reply    *)
(* was lost on its way, the key in hand is an old one.                     *)
PullError ==
    /\ pass.at = "more"
    /\ Trouble("pageError")
    /\ Reset \/ UNCHANGED <<owed, anew>>
    /\ pass' = [pass EXCEPT !.at = "last"]
    /\ UNCHANGED <<server, local, file, store, doubt, unsaved>>

(* Slip: the flags a Change does not carry are cleared instead of kept.    *)
MergedBlind(page) == Over(page, Value(Cells, FALSE))

(* Slip: the page takes the place of the list.                             *)
MergedAlone(page) == page

(* A Change replaces the flags it carries and keeps the others.            *)
Merged(page) == Over(page, local)

(* A shard write under s.mu: it takes the whole folder.                    *)
Saved == file' = local' /\ unsaved' = {}

(* It failed, after memory had changed in the cells D.                     *)
NotSaved(D) ==
    /\ "saveFails" \in Faults
    /\ unsaved' = unsaved \cup D
    /\ UNCHANGED file

(* mutateFolder.  A pass that brought nothing writes no shard.             *)
Apply ==
    /\ pass.at = "last"
    /\ pass' = NoPass
    /\ local' = Merged(Page)
    /\ \/ Brought = {} /\ UNCHANGED <<file, unsaved>>
       \/ Brought # {} /\ (Saved \/ NotSaved(Brought))
    /\ doubt' = (doubt \ Brought) \cup ((dirty \cup pass.stale) \cap Brought)
    /\ UNCHANGED <<server, owed, anew, store, spent>>

-----------------------------------------------------------------------------
(* STORE: mark every message, answer the client, push the marks.           *)

StoreBegin(s) ==
    /\ store[s].at = "idle"
    /\ spent.stores < MaxStores
    /\ spent' = [spent EXCEPT !.stores = @ + 1]
    /\ \E C \in SUBSET Cells, v \in BOOLEAN :
          /\ C # {}
          /\ store' = [store EXCEPT ![s] = [NoStore EXCEPT
                          !.at = "marking", !.todo = C, !.value = v]]
    /\ UNCHANGED <<data, pass, doubt, unsaved>>

AfterMark(r, c) == [r EXCEPT !.todo = @ \ {c}, !.done = @ \cup {c}]

AfterFailure(r, c) == [r EXCEPT !.at = "failed", !.done = @ \cup {c}]

(* Slip: the shard is left for the next sync pass to write.                *)
MarkInMemory(s) ==
    /\ store[s].at = "marking"
    /\ \E c \in store[s].todo :
          /\ local' = [local EXCEPT ![c] = store[s].value]
          /\ store' = [store EXCEPT ![s] = AfterMark(@, c)]
    /\ UNCHANGED <<server, owed, anew, file, pass, spent, doubt, unsaved>>

(* markRead, markUnread, setFlagged: memory and shard under s.mu.          *)
Mark(s) ==
    /\ store[s].at = "marking"
    /\ \E c \in store[s].todo :
          /\ local' = [local EXCEPT ![c] = store[s].value]
          /\ Saved
          /\ store' = [store EXCEPT ![s] = AfterMark(@, c)]
    /\ UNCHANGED <<server, owed, anew, pass, spent, doubt>>

(* The save failed after memory changed.                                   *)
MarkFails(s) ==
    /\ store[s].at = "marking"
    /\ \E c \in store[s].todo :
          /\ local' = [local EXCEPT ![c] = store[s].value]
          /\ NotSaved({c})
          /\ store' = [store EXCEPT ![s] = AfterFailure(@, c)]
          /\ doubt' = doubt \cup {c}
    /\ UNCHANGED <<server, owed, anew, pass, spent>>

(* The command ends here: what it marked stays marked and is not pushed.   *)
Abandon(s) ==
    /\ store' = [store EXCEPT ![s] = NoStore]
    /\ doubt' = doubt \cup store[s].done

(* STORE returns the error of the save.                                    *)
GiveUp(s) ==
    /\ store[s].at = "failed"
    /\ Abandon(s)
    /\ UNCHANGED <<data, pass, spent, unsaved>>

Answer(s) ==
    /\ store[s].at = "marking"
    /\ store[s].todo = {}
    /\ store' = [store EXCEPT ![s].at = "pushing"]
    /\ UNCHANGED <<data, pass, spent, doubt, unsaved>>

(* The client has gone: STORE returns before it pushes.                    *)
AnswerFails(s) ==
    /\ store[s].at = "marking"
    /\ store[s].todo = {}
    /\ "clientGone" \in Faults
    /\ Abandon(s)
    /\ UNCHANGED <<data, pass, spent, unsaved>>

(* ApplyEmailChanges resets a refused key and sends the changes again.     *)
PushStatus3(s) ==
    /\ store[s].at = "pushing"
    /\ Trouble("status3")
    /\ Reset
    /\ UNCHANGED <<server, local, file, tasks, doubt, unsaved>>

(* The server may keep its own value of a cell another device changed and  *)
(* the bridge has not heard of, or refuse an item outright; the status of  *)
(* the items is discarded.  So are the changes D the reply may carry, as   *)
(* the request names no GetChanges: the key of the reply has passed them.  *)
Push(s) ==
    /\ store[s].at = "pushing"
    /\ \E kept \in SUBSET store[s].done, D \in SUBSET owed :
          /\ kept \subseteq owed \/ "refused" \in Faults
          /\ D = {} \/ "pushback" \in Faults
          /\ server' = Over(Value(store[s].done \ kept, store[s].value), server)
          /\ owed' = owed \ D
          /\ anew' = anew \ D
          /\ pass' = [pass EXCEPT !.stale = @ \cup (D \cap Brought)]
          /\ doubt' = (doubt \ store[s].done) \cup (dirty \cap store[s].done)
                         \cup ((kept \cup (D \ store[s].done)) \ owed')
    /\ store' = [store EXCEPT ![s] = NoStore]
    /\ UNCHANGED <<local, file, spent, unsaved>>

(* The push failed or timed out, before the server acted on it or after;   *)
(* the failure is logged and the command succeeds.                         *)
PushFails(s) ==
    /\ store[s].at = "pushing"
    /\ "pushFails" \in Faults
    /\ \E D \in {{}, store[s].done} : server' = Over(Value(D, store[s].value), server)
    /\ Reset \/ UNCHANGED <<owed, anew>>
    /\ Abandon(s)
    /\ UNCHANGED <<local, file, pass, spent, unsaved>>

(* What a crash takes: the pages of a pass and the changes not on file.    *)
Lost == Brought \cup {c \in Cells : file[c] # local[c]}

(* The process dies and loads its files again.  Of what it lost the key on *)
(* file has passed some, as mutateFolder and the saves of other folders    *)
(* write the keys before this folder's shard: that is not sent again.      *)
Crash ==
    /\ Trouble("crash")
    /\ local' = file
    /\ \/ /\ Reset
          /\ doubt' = doubt \cup Marked
       \/ \E again \in SUBSET Lost :
             /\ owed' = owed \cup again
             /\ anew' = anew \cup (again \cap DOMAIN pass.added)
             /\ doubt' = doubt \cup Marked \cup (Lost \ again)
    /\ pass' = NoPass
    /\ store' = [s \in Sessions |-> NoStore]
    /\ unsaved' = {}
    /\ UNCHANGED <<server, file>>

-----------------------------------------------------------------------------
(* What is held by two at once stays dirty until nobody holds it.          *)
Watch == dirty' = (dirty \cup Contended') \cap Held'

Step ==
    \/ \E c \in Cells : OthersChange(c)
    \/ StartPass \/ PullPage \/ PullStatus3 \/ PullStatus5 \/ PullError \/ Apply
    \/ \E s \in Sessions :
          \/ StoreBegin(s) \/ Mark(s) \/ MarkFails(s) \/ GiveUp(s)
          \/ Answer(s) \/ AnswerFails(s)
          \/ PushStatus3(s) \/ Push(s) \/ PushFails(s)
    \/ Crash

Next == Step /\ Watch

Spec == Init /\ [][Next]_vars

(* The poller comes back for ever and each of its requests ends, in an     *)
(* answer or at a time limit; so does every command of a session.          *)
Fairness ==
    /\ WF_vars(StartPass /\ Watch)
    /\ WF_vars(PullPage /\ Watch)
    /\ WF_vars(Apply /\ Watch)
    /\ \A s \in Sessions :
          /\ WF_vars((Mark(s) \/ MarkFails(s)) /\ Watch)
          /\ WF_vars(GiveUp(s) /\ Watch)
          /\ WF_vars((Answer(s) \/ AnswerFails(s)) /\ Watch)
          /\ WF_vars((Push(s) \/ PushFails(s)) /\ Watch)

FairSpec == Spec /\ Fairness

-----------------------------------------------------------------------------
(* Where nothing is under way the bridge shows what the server holds,      *)
(* except for a flag whose STORE did not get through or that a pass and a  *)
(* STORE, or two STOREs, carried at the same time (syncMailOnce merges its *)
(* pages under s.mu and keeps the flags a Change does not carry), one that *)
(* a pass has as a change from before a reset and as an addition from      *)
(* after it (the merge takes the change), or one whose report the SyncKey  *)
(* has passed unread, in the reply to a push or in a page a crash took.    *)
FlagsAgree ==
    \A c \in Cells \ (Held \cup owed \cup doubt) : local[c] = server[c]

(* What the shard file says of a flag is what memory says, except of one   *)
(* that a mark or a merge changed while the shard could not be written:    *)
(* markRead and setFlagged save before they let go of s.mu, mutateFolder   *)
(* too, and the next shard written takes in what the others missed.        *)
FileFollows == \A c \in Cells \ unsaved : file[c] = local[c]

(* A flag set on another device reaches the bridge, whatever pages fail    *)
(* and keys are refused on the way (sync.go's "中途出错时先落盘已拉到的页"),  *)
(* unless the key has passed its report unread.                            *)
OthersFlagsArrive ==
    \A c \in Cells : []<>(c \in doubt \/ local[c] = server[c])

(* README.md says of a push that failed that it is not retried and that    *)
(* the next incremental sync makes the two sides converge.                 *)
FlagsConverge == <>[](local = server)
=============================================================================
