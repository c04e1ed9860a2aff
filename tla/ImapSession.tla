------------------------------ MODULE ImapSession ------------------------------
(***************************************************************************)
(* IMAP sessions on one selected folder (imapd.go): the snapshot a session *)
(* works on, the numbering its client derives from the responses, EXPUNGE  *)
(* and COPY with their move on the mail server, and IDLE with broadcast.   *)
(*                                                                         *)
(* A message is named once and for all: MailStore has what keeps ServerIDs *)
(* and UIDs in step, and what a sync pass does in detail.  Here a pass     *)
(* only brings the list up to date, one message at a time, in one step.    *)
(* The client fetches what it is told of, and marks \Deleted what it likes *)
(* of its snapshot, so that EXPUNGE may take any part of it.               *)
(***************************************************************************)
EXTENDS Integers, Sequences, FiniteSets, SequencesExt

CONSTANTS
    Sessions, Msgs,
    Returning,  \* messages another device may move back, each once
    QueueSize,  \* notifications a channel holds, 16 in the program
    Faults      \* subset of {"refused", "moveLost", "saveFails", "removeFails"}

ASSUME QueueAssumption == QueueSize \in Nat \ {0}

VARIABLES
    where,      \* the server: "unborn", "here", "trash", "gone"
    Items,      \* st.Items of the folder, by UID
    UIDs,       \* st.UIDs of the folder: the messages in it, by UID
    Trash,      \* st.Items of the trash, or of COPY's destination
    sess,       \* imapSession
    queue,      \* notifications in the channel subs holds for a session
    view,       \* the client's numbering, as long as it can know it
    disturbed,  \* history: the client can no longer know the numbering
    swallowed,  \* history: an EXISTS is still owed for mail of the snapshot
    unheard,    \* history: moved, but the command that did it ended early
    returned    \* history: moved back by another device

store == <<where, Items, UIDs, Trash>>
history == <<disturbed, swallowed, unheard, returned>>
vars == <<store, sess, queue, view, history>>

Phases == {"closed", "ready", "moving", "moved", "removed", "added", "poll", "idle"}
Commands == {"none", "expunge", "copy"}

(* at: where the command stands; snap: the mboxSnapshot; ids: what         *)
(* MoveItems was asked for; got: what it moved.                            *)
SessionStates == [at : Phases, snap : Seq(Msgs),
                  cmd : Commands, ids : SUBSET Msgs, got : SUBSET Msgs]

Closed == [at |-> "closed", snap |-> <<>>, cmd |-> "none", ids |-> {}, got |-> {}]

TypeOK ==
    /\ where \in [Msgs -> {"unborn", "here", "trash", "gone"}]
    /\ Items \in Seq(Msgs) /\ IsInjective(Items)
    /\ UIDs \in Seq(Msgs) /\ IsInjective(UIDs) /\ ToSet(Items) \subseteq ToSet(UIDs)
    /\ {Trash, unheard, returned} \subseteq SUBSET Msgs
    /\ sess \in [Sessions -> SessionStates]
    /\ queue \in [Sessions -> 0 .. QueueSize]
    /\ view \in [Sessions -> Seq(Msgs)]
    /\ {disturbed, swallowed} \subseteq [Sessions -> BOOLEAN]
    /\ \A s \in Sessions : sess[s].got \subseteq sess[s].ids

Init ==
    /\ where = [m \in Msgs |-> "unborn"]
    /\ Items = <<>> /\ UIDs = <<>> /\ Trash = {} /\ unheard = {} /\ returned = {}
    /\ sess = [s \in Sessions |-> Closed]
    /\ queue = [s \in Sessions |-> 0]
    /\ view = [s \in Sessions |-> <<>>]
    /\ disturbed = [s \in Sessions |-> FALSE] /\ swallowed = [s \in Sessions |-> FALSE]

Fault(f) == f \in Faults
Saves(f) == {TRUE} \cup IF Fault(f) THEN {FALSE} ELSE {}

Listed == ToSet(Items)

(* What is kept of the first n of a list.                                  *)
Kept(list, gone) ==
    LET kept[n \in 0 .. Len(list)] ==
          IF n = 0 THEN <<>>
          ELSE IF list[n] \in gone THEN kept[n - 1] ELSE Append(kept[n - 1], list[n])
    IN  kept

Without(list, gone) == Kept(list, gone)[Len(list)]

Open == {s \in Sessions : sess[s].at # "closed"}

(* These clients can no longer know the numbering, until they SELECT.      *)
Disturb(some) ==
    /\ disturbed' = [s \in Sessions |-> disturbed[s] \/ s \in some]
    /\ swallowed' = [s \in Sessions |-> swallowed[s] /\ s \notin some]
    /\ view' = [s \in Sessions |-> IF s \in some THEN <<>> ELSE view[s]]

-----------------------------------------------------------------------------
(* The server, the other devices and the sync passes.                      *)

Arrive(m) ==
    /\ where[m] = "unborn"
    /\ where' = [where EXCEPT ![m] = "here"]
    /\ UNCHANGED <<Items, UIDs, Trash, sess, queue, view, history>>

Vanish(m) ==
    /\ where[m] = "here"
    /\ where' = [where EXCEPT ![m] = "gone"]
    /\ UNCHANGED <<Items, UIDs, Trash, sess, queue, view, history>>

(* Another device moves it back, under the same ServerID; the pass that    *)
(* drops it from the trash is taken with it.                               *)
Returns(m) ==
    /\ where[m] = "trash" /\ m \in Returning \ returned
    /\ where' = [where EXCEPT ![m] = "here"]
    /\ Trash' = Trash \ {m} /\ unheard' = unheard \ {m} /\ returned' = returned \cup {m}
    /\ UNCHANGED <<Items, UIDs, sess, queue, view, disturbed, swallowed>>

(* assignUIDs: the list by UID.  Whom the map still knows, since no pass   *)
(* has rebuilt it after removeItems, keeps its place in it.                *)
WithNew(m) ==
    IF m \in ToSet(UIDs) THEN Without(UIDs, Msgs \ (Listed \cup {m})) ELSE Append(Items, m)

(* Slip: what a page brings is appended unseen.                            *)
SyncAppends(m) ==
    /\ where[m] = "here"
    /\ Items' = Append(Items, m) /\ UIDs' = Items'
    /\ UNCHANGED <<where, Trash, sess, queue, view, history>>

(* A pass by the poller, or for SELECT and STATUS, and the map it leaves.  *)
(* A message that is not put last renumbers those after it.                *)
SyncAdds(m) ==
    /\ where[m] = "here" /\ m \notin Listed
    /\ Items' = WithNew(m) /\ UIDs' = Items'
    /\ Disturb(IF Items' = Append(Items, m) THEN {} ELSE Open)
    /\ UNCHANGED <<where, Trash, sess, queue, unheard, returned>>

(* A pass drops one.                                                       *)
SyncDrops(m) ==
    /\ where[m] = "gone" /\ m \in Listed
    /\ Items' = Without(Items, {m}) /\ UIDs' = Items'
    /\ Disturb(Open)
    /\ UNCHANGED <<where, Trash, sess, queue, unheard, returned>>

(* A pass that changes something else.                                     *)
SyncChanges ==
    /\ UIDs # Items /\ UIDs' = Items
    /\ UNCHANGED <<where, Items, Trash, sess, queue, view, history>>


(* broadcast: to every channel of subs that has room.                      *)
Broadcast ==
    queue' = [s \in Sessions |->
                IF sess[s].at = "idle" /\ queue[s] < QueueSize THEN queue[s] + 1 ELSE queue[s]]

(* Slip: the poller broadcasts only if its own pass found something.       *)
PollerTellsNews ==
    /\ Broadcast /\ queue' # queue
    /\ \E m \in Msgs : where[m] = "here" /\ m \notin Listed /\ Items' = WithNew(m) /\ UIDs' = Items'
    /\ UNCHANGED <<where, Trash, sess, view, history>>

(* The poller broadcasts after each pass that went well, whether or not it *)
(* found anything.                                                         *)
PollerTells ==
    /\ Broadcast /\ queue' # queue
    /\ UNCHANGED <<store, sess, view, history>>

-----------------------------------------------------------------------------
(* Responses and the client.                                               *)

(* refreshSnapshot, at the end of which the session is at `at`.            *)
Refreshed(s, at) ==
    [sess[s] EXCEPT !.at = at, !.snap = Items,
                    !.cmd = "none", !.ids = {}, !.got = {}]

(* * n EXISTS, written when the snapshot has grown.                        *)
Exists(s, list) ==
    IF ~disturbed[s] /\ Len(list) > Len(sess[s].snap) /\ Len(list) > Len(view[s])
    THEN view[s] \o SubSeq(list, Len(view[s]) + 1, Len(list)) ELSE view[s]

Owes(s, owes) == swallowed' = [swallowed EXCEPT ![s] = owes]
StillOwes(s) == swallowed[s] /\ Len(Items) <= Len(sess[s].snap)

(* Slip: the old count is taken after the refresh.                         *)
PollLate(s) ==
    /\ sess[s].at = "poll"
    /\ sess' = [sess EXCEPT ![s] = Refreshed(s, "ready")]
    /\ UNCHANGED <<store, queue, view, history>>

(* Poll, which go-imap calls after every command that went well.           *)
Poll(s) ==
    /\ sess[s].at = "poll"
    /\ sess' = [sess EXCEPT ![s] = Refreshed(s, "ready")]
    /\ view' = [view EXCEPT ![s] = Exists(s, Items)]
    /\ Owes(s, StillOwes(s))
    /\ UNCHANGED <<store, queue, disturbed, unheard, returned>>

(* * n EXPUNGE for each that is gone, numbered as in the snapshot and in   *)
(* its order; each renumbers what comes after it.  told[n] is the client's *)
(* list when the first n of the snapshot are dealt with.                   *)
Told(list, snap, gone) ==
    LET told[n \in 0 .. Len(snap)] ==
          IF n = 0 THEN list
          ELSE IF snap[n] \in gone /\ n \in DOMAIN told[n - 1]
               THEN RemoveAt(told[n - 1], n) ELSE told[n - 1]
    IN  told

Expunges(list, snap, gone) == Told(list, snap, gone)[Len(snap)]

-----------------------------------------------------------------------------
(* Commands.                                                               *)

Select(s) ==
    /\ sess[s].at \in {"closed", "ready"}
    /\ sess' = [sess EXCEPT ![s] = Refreshed(s, "poll")]
    /\ view' = [view EXCEPT ![s] = Items]
    /\ disturbed' = [disturbed EXCEPT ![s] = FALSE] /\ Owes(s, FALSE)
    /\ UNCHANGED <<store, queue, unheard, returned>>

Unselect(s) ==
    /\ sess[s].at = "ready"
    /\ sess' = [sess EXCEPT ![s] = Closed]
    /\ view' = [view EXCEPT ![s] = <<>>]
    /\ disturbed' = [disturbed EXCEPT ![s] = FALSE] /\ Owes(s, FALSE)
    /\ UNCHANGED <<store, queue, unheard, returned>>

Noop(s) ==
    /\ sess[s].at = "ready"
    /\ sess' = [sess EXCEPT ![s].at = "poll"]
    /\ UNCHANGED <<store, queue, view, history>>

StartMove(s, cmd, ids) ==
    /\ sess[s].at = "ready" /\ ids # {}
    /\ sess' = [sess EXCEPT ![s].at = "moving", ![s].cmd = cmd, ![s].ids = ids]
    /\ UNCHANGED <<store, queue, view, history>>

(* EXPUNGE, or UID EXPUNGE of some: what the snapshot holds as marked.     *)
Expunge(s, marked) == StartMove(s, "expunge", ToSet(sess[s].snap) \cap marked)

Copy(s, ids) == StartMove(s, "copy", ToSet(sess[s].snap) \cap ids)

(* The command ends with NO and without Poll.                              *)
Fails(s) ==
    sess' = [sess EXCEPT ![s].at = "ready", ![s].cmd = "none", ![s].ids = {}, ![s].got = {}]

(* MoveItems moves what is there and is not refused.  A request that fails *)
(* ends as one of which nothing was moved, unless its answer was lost or   *)
(* came too late.                                                          *)
MoveAnswer(s) ==
    LET there == {m \in sess[s].ids : where[m] = "here"}
    IN  /\ sess[s].at = "moving"
        /\ \E got \in {there} \cup IF Fault("refused") THEN SUBSET there ELSE {},
              heard \in Saves("moveLost") :
              /\ where' = [m \in Msgs |-> IF m \in got THEN "trash" ELSE where[m]]
              /\ IF got = {} \/ ~heard THEN Fails(s)
                 ELSE sess' = [sess EXCEPT ![s].at = "moved", ![s].got = got]
              /\ unheard' = IF heard THEN unheard ELSE unheard \cup got
        /\ UNCHANGED <<Items, UIDs, Trash, queue, view, disturbed, swallowed, returned>>

(* Slip: everything that was asked for is removed.                         *)
RemoveAsked(s) ==
    /\ sess[s].at = "moved"
    /\ Items' = Without(Items, sess[s].ids)
    /\ sess' = [sess EXCEPT ![s].at = "removed"]
    /\ Disturb(Open \ {s})
    /\ UNCHANGED <<where, UIDs, Trash, queue, unheard, returned>>

(* removeItems; a write that fails ends the command here.                  *)
RemoveMoved(s) ==
    /\ sess[s].at = "moved"
    /\ Items' = Without(Items, sess[s].got)
    /\ \E saved \in Saves("removeFails") :
          /\ IF saved THEN sess' = [sess EXCEPT ![s].at = "removed"] ELSE Fails(s)
          /\ Disturb(IF saved THEN Open \ {s} ELSE Open)
          /\ unheard' = IF saved THEN unheard ELSE unheard \cup sess[s].got
    /\ UNCHANGED <<where, UIDs, Trash, queue, returned>>

(* Slip: COPY reports what was refused before it does the rest.            *)
AddMovedIfAll(s) ==
    /\ sess[s].at = "removed"
    /\ IF sess[s].got = sess[s].ids
       THEN Trash' = Trash \cup sess[s].got /\ sess' = [sess EXCEPT ![s].at = "added"]
       ELSE UNCHANGED Trash /\ Fails(s)
    /\ UNCHANGED <<where, Items, UIDs, queue, view, history>>

(* addMovedItems, another section under s.mu.                              *)
AddMoved(s) ==
    /\ sess[s].at = "removed"
    /\ Trash' = Trash \cup sess[s].got
    /\ \E saved \in Saves("saveFails") :
          /\ IF saved THEN sess' = [sess EXCEPT ![s].at = "added"] ELSE Fails(s)
          /\ Disturb(IF saved THEN {} ELSE {s})
    /\ UNCHANGED <<where, Items, UIDs, queue, unheard, returned>>

(* The rest of EXPUNGE and COPY: refreshSnapshot, broadcast, and EXPUNGE's *)
(* responses, each a number in the snapshot.  A COPY that moved only some  *)
(* ends with NO.  Of mail that came meanwhile the client is not told.      *)
Finish(s) ==
    LET self == sess[s]
        expunge == self.cmd = "expunge"
        after == IF expunge \/ self.got = self.ids THEN "poll" ELSE "ready"
        rest == Without(self.snap, self.got)
    IN  /\ self.at = "added"
        /\ sess' = [sess EXCEPT ![s] = Refreshed(s, after)]
        /\ Broadcast
        /\ IF disturbed[s] \/ ~expunge \/ Cardinality(self.got) > 1 \/ ~IsPrefix(rest, Items)
           THEN Disturb({s})
           ELSE /\ view' = [view EXCEPT ![s] = Expunges(@, self.snap, self.got)]
                /\ Owes(s, swallowed[s] \/ rest # Items)
                /\ UNCHANGED disturbed
        /\ UNCHANGED <<store, unheard, returned>>

(* IDLE subscribes without a look at the state; leaving it unsubscribes.   *)
Idle(s) ==
    /\ sess[s].at = "ready"
    /\ sess' = [sess EXCEPT ![s].at = "idle"]
    /\ UNCHANGED <<store, queue, view, history>>

IdleReads(s) ==
    /\ sess[s].at = "idle" /\ queue[s] > 0
    /\ queue' = [queue EXCEPT ![s] = @ - 1]
    /\ sess' = [sess EXCEPT ![s] = Refreshed(s, "idle")]
    /\ view' = [view EXCEPT ![s] = Exists(s, Items)]
    /\ Owes(s, StillOwes(s))
    /\ UNCHANGED <<store, disturbed, unheard, returned>>

IdleStops(s) ==
    /\ sess[s].at = "idle"
    /\ queue' = [queue EXCEPT ![s] = 0]
    /\ sess' = [sess EXCEPT ![s].at = "poll"]
    /\ UNCHANGED <<store, view, history>>

-----------------------------------------------------------------------------
Server(s) == Poll(s) \/ MoveAnswer(s) \/ RemoveMoved(s) \/ AddMoved(s) \/ Finish(s) \/ IdleReads(s)

Next ==
    \/ \E m \in Msgs : Arrive(m) \/ Vanish(m) \/ Returns(m) \/ SyncAdds(m) \/ SyncDrops(m)
    \/ SyncChanges \/ PollerTells
    \/ \E s \in Sessions :
        \/ Server(s)
        \/ Select(s) \/ Unselect(s) \/ Noop(s) \/ Idle(s) \/ IdleStops(s)
        \/ \E ids \in SUBSET Msgs : Expunge(s, ids) \/ Copy(s, ids)

Spec == Init /\ [][Next]_vars

(* The poller goes on and passes succeed; commands come to an end.         *)
Fairness ==
    /\ WF_vars(PollerTells)
    /\ \A s \in Sessions : WF_vars(Server(s))

FairSpec == Spec /\ Fairness

-----------------------------------------------------------------------------
(* imapd.go 810-824, 851-867: as long as the list changes only in ways the *)
(* client is told of, or at its end, a number means the same to it as to   *)
(* its session, so that a command by number reaches the message the client *)
(* means; and the client knows of every message its session has, but for   *)
(* those whose EXISTS an EXPUNGE has swallowed.                            *)
InStep ==
    \A s \in Sessions : s \in Open /\ ~disturbed[s] =>
        IsPrefix(view[s], sess[s].snap) /\ (view[s] = sess[s].snap \/ swallowed[s])

(* imapd.go 693-700, 786-792: what this device moved is never reported     *)
(* back by the server, so it is in the destination's list, or a command    *)
(* that will put it there is still running, or the command never heard     *)
(* that it was moved or could not save that it is gone.                    *)
MovedIsListed ==
    \A m \in Msgs : where[m] = "trash" =>
        \/ m \in Trash \cup unheard
        \/ \E s \in Sessions : sess[s].at \in {"moved", "removed"} /\ m \in sess[s].got

(* imapd.go 666-692, 761-788: a message leaves the list only after it has  *)
(* left the folder on the server, or as MoveItems has said that it has; a  *)
(* refused one stays.                                                      *)
LeavesOnlyWhenGone ==
    [][\A m \in Msgs : m \in Listed /\ m \notin ToSet(Items') =>
        where[m] # "here" \/ \E s \in Sessions : sess[s].at = "moved" /\ m \in sess[s].got]_vars

(* imapd.go 109, 122-131: an idle client hears of every message in the     *)
(* list, whoever synced it, and however many notifications were dropped,   *)
(* but not of what an EXPUNGE has swallowed before more mail comes.        *)
IdleHears ==
    \A s \in Sessions :
        sess[s].at = "idle" ~>
            \/ sess[s].at # "idle" \/ disturbed[s] \/ view[s] = Items
            \/ swallowed[s] /\ sess[s].snap = Items

(* imapd.go 109, 851-868: a notification leaves a channel by being read,   *)
(* and its client then knows the whole list, however many were dropped     *)
(* before it for want of room, or with the IDLE it was for; only what an   *)
(* EXPUNGE has swallowed waits for more mail to come.                      *)
OneNotificationIsEnough ==
    [][\A s \in Sessions :
        queue'[s] < queue[s] =>
            \/ sess'[s].at # "idle" \/ disturbed[s] \/ view'[s] = Items'
            \/ swallowed[s] /\ sess[s].snap = Items']_vars

(* imapd.go 816-824: EXISTS carries a number only, as if all new mail came *)
(* last.                                                                   *)
NewMailComesLast == [][Listed \subseteq ToSet(Items') => IsPrefix(Items, Items')]_vars

(* README.md:13: new mail is pushed by IDLE and NOOP, so after a command   *)
(* the client knows of as many messages as its session.                    *)
NewMailIsAnnounced ==
    \A s \in Sessions :
        sess[s].at = "ready" /\ ~disturbed[s] => Len(view[s]) >= Len(sess[s].snap)

(* imapd.go 626-627: the numbers EXPUNGE answers with are those of the     *)
(* removed messages: what is left in the client's view is what was left.   *)
ExpungeNamesRemoved ==
    \A s \in Sessions :
        sess[s].at = "added" /\ sess[s].cmd = "expunge" =>
            Expunges(sess[s].snap, sess[s].snap, sess[s].got) = Without(sess[s].snap, sess[s].got)
=============================================================================
