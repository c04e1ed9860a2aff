----------------------------- MODULE CalendarReads -----------------------------
(***************************************************************************)
(* CalDAV reads of the calendar (prepareCalendarRead, maybeSyncCalendar    *)
(* and syncCalendar in caldavd.go) next to the poller, the warm-up and the *)
(* background refreshes, which share one calendar pass at a time.          *)
(*                                                                         *)
(* Of the calendar itself (CalendarStore) only this is kept: whether there *)
(* are events, and whether a SyncKey is stored.  A read is refused or      *)
(* served by that alone; what the pass returned does not matter to it.     *)
(***************************************************************************)
EXTENDS Integers

CONSTANTS
    Readers,        \* CalDAV requests
    Workers,        \* poller, warm-up, background refreshes (a bound on the last)
    Nobody,         \* no pass runs
    MaxTroubles,    \* bound on the passes that do not get through
    ReadFaults      \* what may go wrong in this instance

ASSUME NobodyAssumption == Nobody \notin Readers \cup Workers
ASSUME TroublesAssumption == MaxTroubles \in Nat
ASSUME ReadFaultsAssumption ==
    ReadFaults \subseteq {"skip", "fail", "status5", "secondFails", "stall", "cancel"}

VARIABLES
    eventful,   \* the server's calendar has events
    keyed,      \* a SyncKey other than "0" is stored
    shown,      \* st.Events is not empty
    fresh,      \* lastCalSync is less than calSyncTTL ago
    leader,     \* who runs the pass
    pass,       \* how far it is: its result once it has ended
    caller,     \* what each reader and worker is doing
    troubles,
    ahead,      \* the server has a change that memory lacks
    \* history
    synced,     \* a pass has brought all the server had
    overdue,    \* it had such a change when the calendar last became fresh
    excused     \* the pass that made it fresh ended well without having it all

calendar == <<eventful, keyed, shown, ahead, synced, overdue>>
freshness == <<fresh, excused>>
readVars == <<calendar, freshness, leader, pass, caller, troubles>>

Callers == Readers \cup Workers

(* How a pass ends.  "ok", "stalled" and "hidden" are all nil to its       *)
(* callers.                                                                *)
Results == {"ok", "stalled", "hidden", "skipped", "error"}

ReadTypeOK ==
    /\ eventful \in BOOLEAN /\ keyed \in BOOLEAN /\ shown \in BOOLEAN
    /\ fresh \in BOOLEAN /\ excused \in BOOLEAN
    /\ ahead \in BOOLEAN /\ synced \in BOOLEAN /\ overdue \in BOOLEAN
    /\ leader \in Callers \cup {Nobody}
    /\ pass \in {"none", "asking", "bootstrapped"} \cup Results
    /\ caller \in [Callers -> {"idle", "asked", "due", "leading", "following",
                               "back", "serving", "empty"}]
    /\ troubles \in 0 .. MaxTroubles
    /\ leader = Nobody <=> pass = "none"
    /\ \A c \in Callers : caller[c] = "leading" <=> leader = c

(* Nothing on disk: the process starts for the first time.                 *)
ReadInit ==
    /\ eventful \in BOOLEAN
    /\ keyed = FALSE /\ shown = FALSE /\ fresh = FALSE
    /\ ahead = TRUE /\ synced = FALSE /\ overdue = FALSE /\ excused = FALSE
    /\ leader = Nobody /\ pass = "none"
    /\ caller = [c \in Callers |-> "idle"]
    /\ troubles = 0

(* hasUsableCalendarCache.                                                 *)
Usable == shown \/ keyed

Moves(c, from, to) == caller[c] = from /\ caller' = [caller EXCEPT ![c] = to]

Trouble(name) ==
    /\ name \in ReadFaults
    /\ troubles < MaxTroubles
    /\ troubles' = troubles + 1

-----------------------------------------------------------------------------
(* Others change the calendar.                                             *)

ServerChanges ==
    /\ eventful' \in BOOLEAN
    /\ ahead' = TRUE
    /\ UNCHANGED <<keyed, shown, synced, overdue, freshness, leader, pass, caller, troubles>>

-----------------------------------------------------------------------------
(* A read.                                                                 *)

Ask(r) ==
    /\ Moves(r, "idle", "asked") \/ Moves(r, "empty", "asked")
    /\ UNCHANGED <<calendar, freshness, leader, pass, troubles>>

(* maybeSyncCalendar: within calSyncTTL nothing is done; a calendar that   *)
(* can be used is refreshed in the background; else the read waits.        *)
CheckFresh(r) ==
    /\ fresh
    /\ Moves(r, "asked", "back")
    /\ UNCHANGED <<calendar, freshness, leader, pass, troubles>>

CheckStale(r) ==
    /\ ~fresh /\ Usable
    /\ caller[r] = "asked"
    /\ \/ \E w \in Workers :
             /\ caller[w] = "idle"
             /\ caller' = [caller EXCEPT ![r] = "back", ![w] = "due"]
       \/ /\ \A w \in Workers : caller[w] # "idle"
          /\ caller' = [caller EXCEPT ![r] = "back"]
    /\ UNCHANGED <<calendar, freshness, leader, pass, troubles>>

CheckUnusable(r) ==
    /\ ~fresh /\ ~Usable
    /\ Moves(r, "asked", "due")
    /\ UNCHANGED <<calendar, freshness, leader, pass, troubles>>

(* prepareCalendarRead, with the pass's answer or without.                 *)
Decide(r) ==
    /\ Moves(r, "back", IF Usable THEN "serving" ELSE "idle")
    /\ UNCHANGED <<calendar, freshness, leader, pass, troubles>>

(* allObjects reads the events.                                            *)
Serve(r) ==
    /\ Moves(r, "serving", IF shown THEN "idle" ELSE "empty")
    /\ UNCHANGED <<calendar, freshness, leader, pass, troubles>>

(* Slip: whoever runs the pass leaves like those who follow it.            *)
LeaveAnyway(r) ==
    /\ Trouble("cancel")
    /\ Moves(r, "following", "idle") \/ Moves(r, "leading", "idle")
    /\ UNCHANGED <<calendar, freshness, leader, pass>>

(* The client goes away while it follows another's pass.                   *)
Leave(r) ==
    /\ Trouble("cancel")
    /\ Moves(r, "following", "idle")
    /\ UNCHANGED <<calendar, freshness, leader, pass>>

-----------------------------------------------------------------------------
(* The calendar pass.                                                      *)

(* The poller's tick, or the warm-up.                                      *)
Tick(w) ==
    /\ Moves(w, "idle", "due")
    /\ UNCHANGED <<calendar, freshness, leader, pass, troubles>>

(* syncCalendar: follow the pass that runs, or run one.                    *)
Join(c) ==
    /\ \/ /\ leader # Nobody
          /\ Moves(c, "due", "following")
          /\ UNCHANGED <<leader, pass>>
       \/ /\ leader = Nobody
          /\ Moves(c, "due", "leading")
          /\ leader' = c
          /\ pass' = "asking"
    /\ UNCHANGED <<calendar, freshness, troubles>>

Ends(result) ==
    /\ pass' = result
    /\ UNCHANGED <<freshness, leader, caller>>

(* Status 5 and replay back-off, and the breaker, pass the pass over.      *)
PassSkipped ==
    /\ pass = "asking"
    /\ Trouble("skip")
    /\ Ends("skipped")
    /\ UNCHANGED calendar

(* A request failed, a save failed, or the leader's own client went away.  *)
PassFails ==
    /\ pass = "asking"
    /\ Trouble("fail")
    /\ Ends("error")
    /\ UNCHANGED calendar

(* A later page failed: the events of the pages before it are there.       *)
PullBreaks ==
    /\ pass = "bootstrapped" \/ (pass = "asking" /\ keyed)
    /\ Trouble("fail")
    /\ shown' = (shown \/ eventful)
    /\ Ends("error")
    /\ UNCHANGED <<eventful, keyed, ahead, synced, overdue>>

(* The key is reset, and the pass asks again.                              *)
PassStatus5 ==
    /\ pass = "asking" /\ keyed
    /\ Trouble("status5")
    /\ keyed' = FALSE
    /\ UNCHANGED <<eventful, shown, ahead, synced, overdue, freshness, leader, pass, caller>>

(* The answer to the first request carries a key and no events: the client *)
(* stores the key and asks a second time.                                  *)
Bootstrap ==
    /\ pass = "asking" /\ ~keyed
    /\ keyed' = TRUE
    /\ pass' = "bootstrapped"
    /\ UNCHANGED <<eventful, shown, ahead, synced, overdue, freshness, leader, caller,
                   troubles>>

Pull ==
    /\ pass = "bootstrapped" \/ (pass = "asking" /\ keyed)
    /\ shown' = eventful
    /\ ahead' = FALSE /\ overdue' = FALSE
    /\ synced' = TRUE
    /\ Ends("ok")
    /\ UNCHANGED <<eventful, keyed, troubles>>

(* Too many pages without progress: the pass ends although the server has  *)
(* more, and without an error.                                             *)
PullStalls ==
    /\ pass = "bootstrapped" \/ (pass = "asking" /\ keyed)
    /\ Trouble("stall")
    /\ shown' \in {shown, shown \/ eventful}
    /\ Ends("stalled")
    /\ UNCHANGED <<eventful, keyed, ahead, synced, overdue>>

(* SyncCalendar then returns what the first request brought, without error.*)
SecondFails ==
    /\ pass = "bootstrapped"
    /\ Trouble("secondFails")
    /\ Ends("hidden")
    /\ UNCHANGED calendar

(* Slip: the channel is not closed, only the leader goes on.               *)
ReleasedLeader(f) ==
    [f EXCEPT ![leader] = IF leader \in Readers THEN "back" ELSE "idle"]

(* Followers get the leader's result.                                      *)
Released(f) ==
    [c \in Callers |->
        IF f[c] \notin {"leading", "following"} THEN f[c]
        ELSE IF c \in Readers THEN "back" ELSE "idle"]

(* Slip: a pass that was passed over counts as a success.                  *)
CountsSkips(result) == result # "error"

(* Slip: the freshness is kept by the reads, not by the poller.            *)
CountsReads(result) == result = "ok" /\ leader \in Readers

Counts(result) == result \in {"ok", "stalled", "hidden"}

(* finishCalendarSync.                                                     *)
Finish ==
    /\ pass \in Results
    /\ fresh' = (fresh \/ Counts(pass))
    /\ excused' = IF Counts(pass) THEN pass \in {"stalled", "hidden"} ELSE excused
    /\ overdue' = (overdue \/ (Counts(pass) /\ pass # "ok" /\ ahead))
    /\ leader' = Nobody
    /\ pass' = "none"
    /\ caller' = Released(caller)
    /\ UNCHANGED <<eventful, keyed, shown, ahead, synced, troubles>>

Expire ==
    /\ fresh
    /\ fresh' = FALSE
    /\ UNCHANGED <<calendar, excused, leader, pass, caller, troubles>>

-----------------------------------------------------------------------------
PassStep ==
    \/ PassSkipped \/ PassFails \/ PassStatus5
    \/ Bootstrap \/ Pull \/ PullStalls \/ PullBreaks \/ SecondFails

ReaderStep(r) ==
    CheckFresh(r) \/ CheckStale(r) \/ CheckUnusable(r) \/ Decide(r) \/ Serve(r)

ReadNext ==
    \/ \E r \in Readers : Ask(r) \/ ReaderStep(r) \/ Leave(r)
    \/ \E w \in Workers : Tick(w)
    \/ \E c \in Callers : Join(c)
    \/ PassStep \/ Finish \/ Expire \/ ServerChanges

ReadSpec == ReadInit /\ [][ReadNext]_readVars

(* Requests and passes come to an end (each has a time limit), and the     *)
(* poller ticks for ever.                                                  *)
FairReadSpec ==
    /\ ReadSpec
    /\ \A r \in Readers : WF_readVars(ReaderStep(r))
    /\ \A c \in Callers : WF_readVars(Join(c))
    /\ \A w \in Workers : WF_readVars(Tick(w))
    /\ WF_readVars(PassStep) /\ WF_readVars(Finish)

-----------------------------------------------------------------------------
(* lastCalSync moves on only with a real success (sync.go 576-577): within *)
(* the TTL no request asks the server, so each time it starts memory has   *)
(* what the server had then.  A pass that was passed over, broken off or   *)
(* whose leader went away must not start it; one that stalled does (sync.go*)
(* 736-747), and one whose second request failed, which the client hides.  *)
FreshMeansSynced == fresh /\ overdue => excused

(* caldavd.go 145-147: no empty calendar is served before a pass has       *)
(* ended well, or clients take an outage for a mass deletion.              *)
EmptyMeansSynced ==
    \A r \in Readers : caller[r] = "empty" => synced \/ ~eventful

(* Who follows a pass has one to follow (caldavd.go 195-213, 244-255):     *)
(* clearing the flight and closing its channel leaves nobody behind.       *)
FollowersHaveLeader == \A c \in Callers : caller[c] = "following" => leader # Nobody

(* Every read is answered or refused, whoever runs the pass it waits for   *)
(* and however that ends.                                                  *)
ReadsAreAnswered ==
    \A r \in Readers : caller[r] = "asked" ~> caller[r] \in {"idle", "empty"}

(* A calendar that has grown stale is refreshed, whether anyone reads it   *)
(* or not.                                                                 *)
StaleIsRefreshed == []<>fresh
=============================================================================
