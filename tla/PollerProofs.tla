------------------------------ MODULE PollerProofs ------------------------------
(***************************************************************************)
(* Proofs about what the poller works on.  FolderList, for any folders,    *)
(* names and bounds and all faults: the key on file never outruns the list *)
(* next to it, and until a key is refused the list is exactly what the key *)
(* stands for.  CalendarReads, the calendar pass the poller shares with    *)
(* CalDAV's reads, for any callers and bounds and all faults: a calendar   *)
(* is fresh only after a pass that brought it.                             *)
(***************************************************************************)
EXTENDS FolderList, CalendarReads, TLAPS

(* The list has what the key stands for.                                   *)
Covers(l, k) == \A i \in Ids : Known(k)[i] # Absent => l[i] = Known(k)[i]

(* A reply that has not been merged: what it does not speak of is listed   *)
(* as the key has it, but for folders that a full reply is silent about.   *)
ReplyFits ==
    /\ key \in Hierarchies
    /\ \A i \in DOMAIN reply.put : reply.put[i] = key[i]
    /\ \A i \in reply.gone : key[i] = Absent
    /\ \A i \in Ids \ (DOMAIN reply.put \cup reply.gone) :
          key[i] # Absent \/ ~reset => list[i] = key[i]

ListInv ==
    /\ TypeOK
    /\ Covers(file.list, file.key)
    /\ ~reset => file.list = Known(file.key)
    /\ pc = "loaded" => list = file.list /\ key = file.key
    /\ pc = "merging" => ReplyFits
    /\ pc = "up" => key \in Hierarchies /\ Covers(list, key) /\ (~reset => list = key)

-----------------------------------------------------------------------------
(* NoKey stands for no folders, a key for a hierarchy.                     *)
LEMMA KnownHierarchy ==
    ASSUME NEW k \in Keys
    PROVE  Known(k) \in Hierarchies /\ (k \in Hierarchies => Known(k) = k)
  BY KeyAssumption DEF Known, Keys, Hierarchies, NoFolders

(* A reply is a map from some folders to names and a set of folders.       *)
LEMMA ReplyShape ==
    ASSUME NEW D \in SUBSET Ids, NEW put \in [D -> Names], NEW gone \in SUBSET Ids
    PROVE  [put |-> put, gone |-> gone] \in Replies
  BY DEF Replies

LEMMA ReplyParts ==
    ASSUME NEW r \in Replies
    PROVE  /\ DOMAIN r.put \in SUBSET Ids /\ r.put \in [DOMAIN r.put -> Names]
           /\ r.gone \in SUBSET Ids
  BY DEF Replies

LEMMA NoReplyShape ==
    NoReply \in Replies /\ DOMAIN NoReply.put = {} /\ NoReply.gone = {}
<1>1. [i \in {} |-> Absent] \in [{} -> Names]
  OBVIOUS
<1>2. QED
  BY <1>1, ReplyShape DEF NoReply

LEMMA InitList == Init => ListInv
<1> SUFFICES ASSUME Init PROVE ListInv
  OBVIOUS
<1>1. NoFolders \in Hierarchies /\ NoKey \in Keys
  BY DEF NoFolders, Hierarchies, Keys
<1>2. edits \in 0 .. MaxEdits
  BY EditsAssumption DEF Init
<1>3. TypeOK
  BY <1>1, <1>2, NoReplyShape DEF Init, TypeOK
<1>4. QED
  BY <1>3 DEF Init, ListInv, Covers, Known, NoFolders

(* A dead process leaves the file.                                         *)
LEMMA DieStep ==
    ASSUME ListInv, Die
    PROVE  ListInv'
<1>1. NoFolders \in Hierarchies /\ NoKey \in Keys
  BY DEF NoFolders, Hierarchies, Keys
<1>2. TypeOK'
  BY <1>1, NoReplyShape DEF Die, ListInv, TypeOK
<1>3. QED
  BY <1>2 DEF Die, ListInv, Covers, Known

(* The answer to a request under key k fits a list that covers k.          *)
LEMMA FolderSyncStep ==
    ASSUME ListInv, NEW k \in Keys, FolderSync(k), reset' \in BOOLEAN,
           Covers(list, k), ~reset' => ~reset /\ list = Known(k)
    PROVE  ListInv'
<1>1. /\ server \in Hierarchies /\ server' = server /\ list' = list /\ file' = file
      /\ key' = server /\ reply' = Difference(k) /\ pc' = "merging" /\ edits' = edits
  BY DEF FolderSync, ListInv, TypeOK
<1>2. Known(k) \in Hierarchies
  BY KnownHierarchy
<1> DEFINE new == {i \in Ids : server[i] \notin {Absent, Known(k)[i]}}
           gone == {i \in Ids : server[i] = Absent /\ Known(k)[i] # Absent}
<1>3. Difference(k) = [put |-> [i \in new |-> server[i]], gone |-> gone]
  BY DEF Difference
<1>4. [i \in new |-> server[i]] \in [new -> Names]
  BY <1>1 DEF Hierarchies
<1>5. reply' \in Replies
  BY <1>1, <1>3, <1>4, ReplyShape
<1>6. TypeOK'
  BY <1>1, <1>5 DEF ListInv, TypeOK, Keys
<1>7. /\ DOMAIN reply'.put = new /\ reply'.gone = gone
      /\ \A i \in new : reply'.put[i] = server[i]
  BY <1>1, <1>3
<1>8. ASSUME NEW i \in Ids \ (new \cup gone), server[i] # Absent \/ ~reset'
      PROVE  list[i] = server[i]
  <2>1. CASE server[i] # Absent
    BY <1>8, <2>1 DEF Covers
  <2>2. CASE server[i] = Absent /\ ~reset'
    BY <1>8, <2>2
  <2>3. QED
    BY <1>8, <2>1, <2>2
<1>9. ReplyFits'
  BY <1>1, <1>7, <1>8 DEF ReplyFits
<1>10. QED
  BY <1>1, <1>6, <1>9 DEF ListInv, Covers, Known

(* Once merged, the list has what the key stands for.                      *)
LEMMA MergeStep ==
    ASSUME ListInv, Merge
    PROVE  ListInv'
<1>1. /\ list' = Merged(reply) /\ file' = [list |-> list', key |-> key] /\ reply' = NoReply
      /\ pc' = "up" /\ UNCHANGED <<server, key, edits, reset>> /\ ReplyFits
  BY DEF Merge, ListInv
<1>2. reply \in Replies /\ list \in Hierarchies /\ key \in Hierarchies
  BY <1>1 DEF ListInv, TypeOK, ReplyFits
<1>3. /\ DOMAIN reply.put \in SUBSET Ids /\ reply.put \in [DOMAIN reply.put -> Names]
      /\ reply.gone \in SUBSET Ids
  BY <1>2, ReplyParts
<1>4. \A i \in Ids : list'[i] = CASE i \in reply.gone -> Absent
                                  [] i \in DOMAIN reply.put \ reply.gone -> reply.put[i]
                                  [] OTHER -> list[i]
  BY <1>1 DEF Merged
<1>5. list' \in Hierarchies
  <2>1. \A i \in Ids : list'[i] \in Names \cup {Absent}
    BY <1>2, <1>3, <1>4 DEF Hierarchies
  <2>2. QED
    BY <1>1, <2>1 DEF Merged, Hierarchies
<1>6. ASSUME NEW i \in Ids, key[i] # Absent \/ ~reset
      PROVE  list'[i] = key[i]
  BY <1>1, <1>4, <1>6 DEF ReplyFits
<1>7. TypeOK'
  BY <1>1, <1>2, <1>5, NoReplyShape DEF ListInv, TypeOK, Keys
<1>8. Known(key) = key
  BY <1>2, KnownHierarchy DEF Keys
<1>9. Covers(list', key)
  BY <1>6, <1>8 DEF Covers
<1>10. ~reset => list' = key
  BY <1>2, <1>5, <1>6 DEF Hierarchies
<1>11. QED
  BY <1>1, <1>2, <1>7, <1>8, <1>9, <1>10 DEF ListInv, Covers, Known

(* A reply without changes says that the list is what the key stands for.  *)
LEMMA MergeNothingStep ==
    ASSUME ListInv, MergeNothing
    PROVE  ListInv'
<1>1. ReplyFits /\ reply = NoReply /\ pc' = "up"
      /\ UNCHANGED <<server, list, key, reply, file, edits, reset>>
  BY DEF MergeNothing, ListInv
<1>2. key \in Hierarchies /\ list \in Hierarchies
      /\ \A i \in Ids : key[i] # Absent \/ ~reset => list[i] = key[i]
  BY <1>1, NoReplyShape DEF ReplyFits, ListInv, TypeOK
<1>3. Known(key) = key
  BY <1>2, KnownHierarchy DEF Keys
<1>4. Covers(list, key)
  BY <1>2, <1>3 DEF Covers
<1>5. ~reset => list = key
  BY <1>2 DEF Hierarchies
<1>6. TypeOK'
  BY <1>1 DEF ListInv, TypeOK
<1>7. QED
  BY <1>1, <1>2, <1>4, <1>5, <1>6 DEF ListInv, Covers, Known

(* The main file takes key and list together.                              *)
LEMMA SaveMainStep ==
    ASSUME ListInv, SaveMain
    PROVE  ListInv'
<1>1. /\ pc = "up" /\ key \in Hierarchies /\ list \in Hierarchies
      /\ Covers(list, key) /\ (~reset => list = key)
      /\ file' = [list |-> list, key |-> key]
      /\ UNCHANGED <<server, pc, list, key, reply, edits, reset>>
  BY DEF SaveMain, ListInv, TypeOK
<1>2. Known(key) = key
  BY <1>1, KnownHierarchy DEF Keys
<1>3. TypeOK'
  BY <1>1 DEF ListInv, TypeOK, Keys
<1>4. QED
  BY <1>1, <1>2, <1>3 DEF ListInv, Covers, Known

LEMMA ListStep ==
    ASSUME ListInv, [Next]_vars
    PROVE  ListInv'
<1>1. CASE Edit
  <2>1. PICK i \in Ids, n \in Names \cup {Absent} : server' = [server EXCEPT ![i] = n]
    BY <1>1 DEF Edit
  <2>2. server' \in Hierarchies /\ edits' \in 0 .. MaxEdits
    BY <1>1, <2>1, EditsAssumption DEF Edit, ListInv, TypeOK, Hierarchies
  <2>3. QED
    BY <1>1, <2>2 DEF Edit, ListInv, TypeOK, Covers, Known, ReplyFits
<1>2. CASE Load
  BY <1>2 DEF Load, ListInv, TypeOK, Covers, Known
<1>3. CASE FolderSyncOK
  <2>1. key \in Keys /\ reset' = reset /\ Covers(list, key) /\ (~reset => list = Known(key))
    BY <1>3 DEF FolderSyncOK, FolderSync, ListInv, TypeOK
  <2>2. QED
    BY <1>3, <2>1, FolderSyncStep DEF FolderSyncOK, ListInv, TypeOK
<1>4. CASE FolderSyncStatus3
  <2>1. NoKey \in Keys /\ Covers(list, NoKey)
    BY DEF Keys, Covers, Known, NoFolders
  <2>2. QED
    BY <1>4, <2>1, FolderSyncStep DEF FolderSyncStatus3
<1>5. CASE FolderSyncFails \/ MergeFails \/ Crash
  BY <1>5, DieStep DEF FolderSyncFails, MergeFails, Crash
<1>6. CASE UNCHANGED vars
  BY <1>6 DEF vars, ListInv, TypeOK, Covers, Known, ReplyFits
<1>7. QED
  BY <1>1, <1>2, <1>3, <1>4, <1>5, <1>6, MergeStep, MergeNothingStep, SaveMainStep DEF Next

-----------------------------------------------------------------------------
(* syncFolders and FolderSync: key and list are saved in one file, and the *)
(* key moves on in memory only until the reply is merged; a death in       *)
(* between, or a save that fails, loses no folder.                         *)
THEOREM KeyNeverOutruns == Spec => [](TypeOK /\ KeyIsCovered)
<1>1. ListInv => TypeOK /\ KeyIsCovered
  BY KnownHierarchy DEF ListInv, TypeOK, KeyIsCovered, Covers, Known
<1>2. ListInv /\ [Next]_vars => ListInv'
  BY ListStep
<1>3. QED
  BY <1>1, <1>2, InitList, PTL DEF Spec

(* The same for what is removed: until a key is refused the poller reads   *)
(* no folder that the server had removed before the last start.            *)
THEOREM ListHasNoGhosts == Spec => []NoGhosts
<1>1. ListInv => NoGhosts
  BY DEF ListInv, NoGhosts
<1>2. ListInv /\ [Next]_vars => ListInv'
  BY ListStep
<1>3. QED
  BY <1>1, <1>2, InitList, PTL DEF Spec

-----------------------------------------------------------------------------
(* CalendarReads.                                                          *)

(* A pass that has ended with all the server had has left nothing overdue, *)
(* and nobody waits for a pass that does not run.                          *)
PassInv ==
    /\ ReadTypeOK
    /\ pass = "ok" => ~overdue
    /\ FreshMeansSynced
    /\ FollowersHaveLeader

(* One caller goes on; who leads stays, and so does the pass.              *)
LEMMA CallerMoves ==
    ASSUME PassInv, NEW c \in Readers \cup Workers,
           NEW to \in {"idle", "asked", "due", "following", "back", "serving", "empty"},
           caller[c] # "leading", caller' = [caller EXCEPT ![c] = to],
           to = "following" => leader # Nobody, troubles' \in 0 .. MaxTroubles,
           UNCHANGED <<calendar, freshness, leader, pass>>
    PROVE  PassInv'
<1>1. caller' \in [Callers -> {"idle", "asked", "due", "leading", "following",
                               "back", "serving", "empty"}]
  BY DEF PassInv, ReadTypeOK, Callers
<1>2. \A d \in Callers : caller'[d] = "leading" <=> leader = d
  BY DEF PassInv, ReadTypeOK, Callers
<1>3. QED
  BY <1>1, <1>2 DEF calendar, freshness, PassInv, ReadTypeOK, FreshMeansSynced, FollowersHaveLeader, Callers

(* A read and its caller, and a tick.                                      *)
LEMMA CallerSteps ==
    ASSUME PassInv,
           \/ \E r \in Readers : Ask(r) \/ ReaderStep(r) \/ Leave(r)
           \/ \E w \in Workers : Tick(w)
    PROVE  PassInv'
<1>1. troubles \in 0 .. MaxTroubles
  BY DEF PassInv, ReadTypeOK
<1>2. ASSUME NEW r \in Readers, Ask(r) PROVE PassInv'
  BY <1>1, <1>2, CallerMoves DEF Ask, Moves
<1>3. ASSUME NEW r \in Readers, CheckFresh(r) PROVE PassInv'
  BY <1>1, <1>3, CallerMoves DEF CheckFresh, Moves
<1>4. ASSUME NEW r \in Readers, CheckStale(r) PROVE PassInv'
  <2>1. /\ caller[r] = "asked" /\ troubles' = troubles
        /\ UNCHANGED <<calendar, freshness, leader, pass>>
    BY <1>4 DEF CheckStale
  <2>2. CASE caller' = [caller EXCEPT ![r] = "back"]
    BY <1>1, <2>1, <2>2, CallerMoves
  <2>3. ASSUME NEW w \in Workers, caller[w] = "idle",
               caller' = [caller EXCEPT ![r] = "back", ![w] = "due"]
        PROVE  PassInv'
    <3>1. caller' \in [Callers -> {"idle", "asked", "due", "leading", "following",
                                   "back", "serving", "empty"}]
      BY <2>3 DEF PassInv, ReadTypeOK, Callers
    <3>2. \A d \in Callers : caller'[d] = "leading" <=> leader = d
      BY <2>1, <2>3 DEF PassInv, ReadTypeOK, Callers
    <3>3. FollowersHaveLeader'
      BY <2>1, <2>3 DEF PassInv, ReadTypeOK, FollowersHaveLeader, Callers
    <3>4. QED
      BY <2>1, <3>1, <3>2, <3>3 DEF calendar, freshness, PassInv, ReadTypeOK, FreshMeansSynced, Callers
  <2>4. QED
    BY <1>4, <2>2, <2>3 DEF CheckStale
<1>5. ASSUME NEW r \in Readers, CheckUnusable(r) PROVE PassInv'
  BY <1>1, <1>5, CallerMoves DEF CheckUnusable, Moves
<1>6. ASSUME NEW r \in Readers, Decide(r) PROVE PassInv'
  BY <1>1, <1>6, CallerMoves DEF Decide, Moves
<1>7. ASSUME NEW r \in Readers, Serve(r) PROVE PassInv'
  BY <1>1, <1>7, CallerMoves DEF Serve, Moves
<1>8. ASSUME NEW r \in Readers, Leave(r) PROVE PassInv'
  <2>1. troubles' \in 0 .. MaxTroubles
    BY <1>1, <1>8, TroublesAssumption DEF Leave, Trouble
  <2>2. QED
    BY <1>8, <2>1, CallerMoves DEF Leave, Moves
<1>9. ASSUME NEW w \in Workers, Tick(w) PROVE PassInv'
  BY <1>1, <1>9, CallerMoves DEF Tick, Moves
<1>10. QED
  BY <1>2, <1>3, <1>4, <1>5, <1>6, <1>7, <1>8, <1>9 DEF ReaderStep

(* Following the pass that runs, or running one.                           *)
LEMMA JoinStep ==
    ASSUME PassInv, NEW c \in Readers \cup Workers, Join(c)
    PROVE  PassInv'
<1>1. UNCHANGED <<calendar, freshness, troubles>> /\ caller[c] = "due"
  BY DEF Join, Moves
<1>2. CASE leader # Nobody
  <2>1. caller' = [caller EXCEPT ![c] = "following"] /\ UNCHANGED <<leader, pass>>
    BY <1>1, <1>2 DEF Join, Moves
  <2>2. troubles' \in 0 .. MaxTroubles
    BY <1>1 DEF PassInv, ReadTypeOK
  <2>3. caller[c] # "leading" /\ ("following" = "following" => leader # Nobody)
    BY <1>1, <1>2
  <2>4. UNCHANGED <<calendar, freshness, leader, pass>>
    BY <1>1, <2>1
  <2>5. QED
    BY <2>1, <2>2, <2>3, <2>4, CallerMoves
<1>3. CASE leader = Nobody
  <2>1. caller' = [caller EXCEPT ![c] = "leading"] /\ leader' = c /\ pass' = "asking"
    BY <1>3 DEF Join, Moves
  <2>2. caller' \in [Callers -> {"idle", "asked", "due", "leading", "following",
                                 "back", "serving", "empty"}]
    BY <2>1 DEF PassInv, ReadTypeOK, Callers
  <2>3. \A d \in Callers : caller[d] # "leading"
    BY <1>3, NobodyAssumption DEF PassInv, ReadTypeOK, Callers
  <2>4. \A d \in Callers : caller'[d] = "leading" <=> leader' = d
    BY <2>1, <2>3 DEF PassInv, ReadTypeOK, Callers
  <2>5. leader' # Nobody /\ leader' \in Callers
    BY <2>1, NobodyAssumption DEF Callers
  <2>6. QED
    BY <1>1, <2>1, <2>2, <2>4, <2>5
       DEF calendar, freshness, PassInv, ReadTypeOK, FreshMeansSynced, FollowersHaveLeader, Callers
<1>4. QED
  BY <1>2, <1>3

(* The pass: it ends with all the server had only by a pull that leaves    *)
(* nothing overdue.                                                        *)
LEMMA PassSteps ==
    ASSUME PassInv, PassStep
    PROVE  PassInv'
<1>1. UNCHANGED <<leader, caller, freshness>> /\ pass \in {"asking", "bootstrapped"}
  BY DEF PassStep, PassSkipped, PassFails, PassStatus5, Bootstrap,
         Pull, PullStalls, PullBreaks, SecondFails, Ends
<1>2. troubles' \in 0 .. MaxTroubles
  BY TroublesAssumption DEF PassStep, PassSkipped, PassFails, PassStatus5, Bootstrap,
         Pull, PullStalls, PullBreaks, SecondFails, Trouble, calendar,
         Ends, PassInv, ReadTypeOK
<1>3. /\ eventful' \in BOOLEAN /\ keyed' \in BOOLEAN /\ shown' \in BOOLEAN
      /\ ahead' \in BOOLEAN /\ synced' \in BOOLEAN /\ overdue' \in BOOLEAN
      /\ overdue' \in {overdue, FALSE}
  BY DEF PassStep, PassSkipped, PassFails, PassStatus5, Bootstrap,
         Pull, PullStalls, PullBreaks, SecondFails, calendar, PassInv, ReadTypeOK
<1>4. /\ pass' \in {"asking", "bootstrapped"} \cup Results
      /\ pass' = "ok" => ~overdue'
  BY <1>1 DEF PassStep, PassSkipped, PassFails, PassStatus5,
         Bootstrap, Pull, PullStalls, PullBreaks, SecondFails, Ends, Results
<1>5. leader' # Nobody /\ leader' \in Callers /\ pass' # "none"
  BY <1>1, <1>4 DEF PassInv, ReadTypeOK, Results
<1>6. \A d \in Callers : caller'[d] = "leading" <=> leader' = d
  BY <1>1 DEF PassInv, ReadTypeOK
<1>7. QED
  BY <1>1, <1>2, <1>3, <1>4, <1>5, <1>6
     DEF calendar, freshness, PassInv, ReadTypeOK, FreshMeansSynced, FollowersHaveLeader, Callers, Results

(* finishCalendarSync: only a pass that ended well makes it fresh, and     *)
(* everybody who led or followed is let go.                                *)
LEMMA FinishPass ==
    ASSUME PassInv, Finish
    PROVE  PassInv'
<1>1. /\ leader' = Nobody /\ pass' = "none"
      /\ UNCHANGED <<eventful, keyed, shown, ahead, synced, troubles>>
      /\ fresh' = (fresh \/ Counts(pass)) /\ caller' = Released(caller)
      /\ excused' = IF Counts(pass) THEN pass \in {"stalled", "hidden"} ELSE excused
      /\ overdue' = (overdue \/ (Counts(pass) /\ pass # "ok" /\ ahead))
  BY DEF Finish
<1>2. /\ caller' \in [Callers -> {"idle", "asked", "due", "leading", "following",
                                  "back", "serving", "empty"}]
      /\ \A d \in Callers : caller'[d] \notin {"leading", "following"}
  BY <1>1 DEF Released, PassInv, ReadTypeOK
<1>3. /\ fresh' \in BOOLEAN /\ excused' \in BOOLEAN /\ overdue' \in BOOLEAN
      /\ fresh' /\ overdue' => excused'
  <2>1. /\ fresh \in BOOLEAN /\ excused \in BOOLEAN /\ overdue \in BOOLEAN /\ ahead \in BOOLEAN
        /\ (pass = "ok" => ~overdue) /\ (fresh /\ overdue => excused) /\ pass \in Results
    BY DEF Finish, PassInv, ReadTypeOK, FreshMeansSynced
  <2>2. CASE Counts(pass)
    <3>1. pass = "ok" \/ excused'
      BY <1>1, <2>2 DEF Counts
    <3>2. fresh' \in BOOLEAN /\ overdue' \in BOOLEAN
      BY <1>1, Zenon
    <3>3. excused' \in BOOLEAN
      BY <1>1, <2>2
    <3>4. QED
      BY <1>1, <2>1, <3>1, <3>2, <3>3
  <2>3. CASE ~Counts(pass)
    BY <1>1, <2>1, <2>3
  <2>4. QED
    BY <2>2, <2>3
<1>4. QED
  BY <1>1, <1>2, <1>3, NobodyAssumption DEF calendar, freshness, PassInv, ReadTypeOK, FreshMeansSynced, FollowersHaveLeader, Callers

LEMMA PassInvHolds == ReadSpec => []PassInv
<1>1. ReadInit => PassInv
  <2> SUFFICES ASSUME ReadInit PROVE PassInv
    OBVIOUS
  <2>1. \A c \in Callers : caller[c] = "idle" /\ leader # c
    BY NobodyAssumption DEF ReadInit, Callers
  <2>2. caller \in [Callers -> {"idle", "asked", "due", "leading", "following",
                                "back", "serving", "empty"}]
    BY DEF ReadInit
  <2>3. /\ keyed = FALSE /\ shown = FALSE /\ fresh = FALSE /\ ahead = TRUE
        /\ synced = FALSE /\ overdue = FALSE /\ excused = FALSE
        /\ leader = Nobody /\ pass = "none" /\ troubles = 0 /\ eventful \in BOOLEAN
    BY DEF ReadInit
  <2>4. ReadTypeOK
    <3>1. troubles \in 0 .. MaxTroubles
      BY <2>3, TroublesAssumption
    <3>2. \A c \in Callers : caller[c] = "leading" <=> leader = c
      BY <2>1
    <3>3. QED
      BY <2>2, <2>3, <3>1, <3>2 DEF ReadTypeOK
  <2>5. QED
    BY <2>1, <2>3, <2>4 DEF PassInv, FreshMeansSynced, FollowersHaveLeader
<1>2. PassInv /\ [ReadNext]_readVars => PassInv'
  <2> SUFFICES ASSUME PassInv, [ReadNext]_readVars PROVE PassInv'
    OBVIOUS
  <2>1. CASE UNCHANGED readVars
    BY <2>1 DEF readVars, calendar, freshness, PassInv, ReadTypeOK, FreshMeansSynced, FollowersHaveLeader
  <2>2. CASE Expire
    BY <2>2 DEF Expire, calendar, PassInv, ReadTypeOK, FreshMeansSynced, FollowersHaveLeader
  <2>3. CASE ServerChanges
    BY <2>3 DEF ServerChanges, freshness, PassInv, ReadTypeOK, FreshMeansSynced, FollowersHaveLeader
  <2>4. QED
    BY <2>1, <2>2, <2>3, CallerSteps, JoinStep, PassSteps, FinishPass DEF ReadNext, Callers
<1>3. QED
  BY <1>1, <1>2, PTL DEF ReadSpec

(* caldavd.go 210-262: a pass has a leader as long as it runs, exactly one *)
(* caller is that leader, and each caller is where the code can be.        *)
THEOREM ReadTypes == ReadSpec => []ReadTypeOK
<1>1. PassInv => ReadTypeOK
  BY DEF PassInv
<1>2. QED
  BY <1>1, PassInvHolds, PTL

(* caldavd.go 195-213, 244-255: whoever waits for a pass waits for one     *)
(* that runs; nobody is left behind when it ends, or joins one that has.   *)
THEOREM NobodyWaitsInVain == ReadSpec => []FollowersHaveLeader
<1>1. PassInv => FollowersHaveLeader
  BY DEF PassInv
<1>2. QED
  BY <1>1, PassInvHolds, PTL

(* sync.go 576-577: when the time begins in which nobody asks the server,  *)
(* memory has what the server had, unless the pass stalled or its second   *)
(* request failed unseen; a pass passed over or broken off never starts it.*)
THEOREM OnlySyncsAreFresh == ReadSpec => []FreshMeansSynced
<1>1. PassInv => FreshMeansSynced
  BY DEF PassInv
<1>2. QED
  BY <1>1, PassInvHolds, PTL
=============================================================================
