---------------------------- MODULE CalendarStore ----------------------------
(***************************************************************************)
(* The calendar's files and the pass that fills them: events.json, the     *)
(* journal events.jsonl and the calendar's SyncKey in state.json           *)
(* (state.go 309-327, 651-905), syncCalendarOnce (sync.go 587-751) over    *)
(* the library's SyncCalendar, and CalDAV's writes (caldav_write.go).      *)
(*                                                                         *)
(* A ServerID has one entry, which stands for an event, an alias or        *)
(* nothing (Absent); CalendarAliases has what aliases do to each other.    *)
(* The server's changes are a history; a SyncKey is a position in it.      *)
(***************************************************************************)
EXTENDS Integers, Sequences, FiniteSets, FiniteSetsExt

CONSTANTS
    IDs, Junk,      \* ServerIDs; Junk names a page of duplicates only
    Values, Absent,
    MaxChanges,     \* bound: changes on the server
    MaxRejections,  \* bound: SyncKeys the server rejects
    PagesPerSave,   \* 10 in the program
    MaxPages,       \* 100 in the program
    MaxNoProgress,  \* maxCalendarNoProgressPages, 3 in the program
    Faults      \* subset of {"crash", "tear", "appendFails", "mainFails", "pageError",
                \*            "mailSave", "caldav", "badJournal"}

ASSUME AbsentAssumption == Absent \notin Values /\ Junk \notin IDs
ASSUME BoundsAssumption ==
    /\ MaxChanges \in Nat /\ MaxRejections \in Nat
    /\ MaxPages \in Nat \ {0} /\ MaxNoProgress \in Nat \ {0}

VARIABLES
    hist, floor,    \* the server: its changes; up to floor it sends no deletions
    rejections,     \* Status 3 and 5 answered so far
    mem, key,       \* st.Events and the calendar's SyncKey
    files,          \* events.json, events.jsonl, the SyncKey in state.json
    job,            \* the write under s.mu, if any
    pass,           \* syncCalendarOnce
    backoff,        \* calendarReplayBackoff runs
    put,            \* PutCalendarObject or DeleteCalendarObject
    synced          \* history: some pass has ended well

vars == <<hist, floor, rejections, mem, key, files, job, pass, backoff, put, synced>>
server == <<hist, floor, rejections>>

Entries == Values \cup {Absent}
Overlays == UNION {[D -> Entries] : D \in SUBSET IDs}
Nothing == [x \in {} |-> Absent]
One(id, v) == [x \in {id} |-> v]
Laid(b, m) == [k \in DOMAIN m |-> IF k \in DOMAIN b THEN b[k] ELSE m[k]]
Over(b, c) == [k \in DOMAIN b \cup DOMAIN c |-> IF k \in DOMAIN b THEN b[k] ELSE c[k]]

NoKey == -1
Changes == [id : IDs \cup {Junk}, val : Entries, own : BOOLEAN]
NoPage == [id |-> Junk, val |-> Absent, own |-> FALSE]

-----------------------------------------------------------------------------
(* The server.                                                             *)

(* The last position up to n that changed a ServerID, 0 if there is none.  *)
Last(id, n) ==
    LET s == {i \in 1 .. n : hist[i].id = id} IN IF s = {} THEN 0 ELSE Max(s)

Current(id) == LET i == Last(id, Len(hist)) IN IF i = 0 THEN Absent ELSE hist[i].val

(* A full pull sends what there is; afterwards every change but one's own. *)
Sent(i) ==
    IF i <= floor /\ hist[i].id # Junk
    THEN hist[i].val # Absent /\ i = Last(hist[i].id, floor)
    ELSE ~hist[i].own

Coming(k) == {i \in 1 .. Len(hist) : i > k /\ Sent(i)}

-----------------------------------------------------------------------------
(* The files.                                                              *)

Files == [snap : [IDs -> Entries], log : Overlays, torn : BOOLEAN,
          key : NoKey .. MaxChanges]

(* events.json with events.jsonl laid over it.  The journal is kept as     *)
(* what replaying its lines comes to; torn: its last line has no end.      *)
Restored == Laid(files.log, files.snap)

WithLog(log, torn) ==
    [snap |-> files.snap, log |-> log, torn |-> torn, key |-> files.key]
WithKey(k) ==
    [snap |-> files.snap, log |-> files.log, torn |-> files.torn, key |-> k]
WithSnap(snap) ==
    [snap |-> snap, log |-> files.log, torn |-> files.torn, key |-> files.key]

(* What follows a line without an end becomes part of it, and the whole    *)
(* of it is skipped by replayEventLogLocked; the line after is sound.      *)
Appended(b) ==
    IF b = Nothing THEN files
    ELSE WithLog(IF files.torn THEN files.log ELSE Over(b, files.log), FALSE)

Stages == {"none", "append", "main", "truncate"}
Ends == {"more", "last", "stalled", "limit", "put"}

Job(stage, b, end, report) ==
    [stage |-> stage, batch |-> b, end |-> end, report |-> report]
NoJob(report) == Job("none", Nothing, "more", report)

Free == job.stage = "none"

-----------------------------------------------------------------------------
Passes == [at : {"idle", "asking", "again", "got", "saving"}, page : Changes,
           more : BOOLEAN, pending : Overlays, retried : BOOLEAN,
           idle : 0 .. MaxNoProgress, progress : BOOLEAN, count : 0 .. MaxPages]

IdlePass == [at |-> "idle", page |-> NoPage, more |-> FALSE, pending |-> Nothing,
             retried |-> FALSE, idle |-> 0, progress |-> FALSE, count |-> 0]

NoPut == [at |-> "idle", id |-> Junk, val |-> Absent]

TypeOK ==
    /\ hist \in Seq(Changes) /\ Len(hist) <= MaxChanges
    /\ floor \in 0 .. MaxChanges /\ rejections \in 0 .. MaxRejections
    /\ mem \in [IDs -> Entries] /\ key \in NoKey .. MaxChanges
    /\ files \in Files
    /\ job \in [stage : Stages, batch : Overlays, end : Ends,
                report : {"none", "saved", "failed"}]
    /\ pass \in Passes
    /\ put \in [at : {"idle", "asking", "accepted", "saving"}, id : IDs \cup {Junk}, val : Entries]
    /\ backoff \in BOOLEAN /\ synced \in BOOLEAN
    /\ pass.at \in {"idle", "saving"} => pass.pending = Nothing
    /\ pass.at = "saving" => job.stage \in {"append", "main"}

Init ==
    /\ hist = <<>> /\ floor = 0 /\ rejections = 0
    /\ mem = [i \in IDs |-> Absent] /\ key = NoKey
    /\ files = [snap |-> [i \in IDs |-> Absent], log |-> Nothing, torn |-> FALSE, key |-> NoKey]
    /\ job = NoJob("none") /\ pass = IdlePass /\ put = NoPut
    /\ backoff = FALSE /\ synced = FALSE

Fault(f) == f \in Faults

(* A change the server can make; ServerIDs are not used twice.             *)
Possible(id, v) ==
    /\ Len(hist) < MaxChanges
    /\ v # Current(id) /\ (Last(id, Len(hist)) # 0 => Current(id) # Absent)

(* Somebody else changes the calendar.                                     *)
ServerChanges(id, v) ==
    /\ Possible(id, v)
    /\ hist' = Append(hist, [id |-> id, val |-> v, own |-> FALSE])
    /\ UNCHANGED <<floor, rejections, mem, key, files, job, pass, backoff, put, synced>>

(* The server will send a page that brings nothing new.                    *)
ServerRepeats ==
    /\ Len(hist) < MaxChanges
    /\ hist' = Append(hist, NoPage)
    /\ UNCHANGED <<floor, rejections, mem, key, files, job, pass, backoff, put, synced>>

-----------------------------------------------------------------------------
(* syncCalendarOnce and the library's SyncCalendar below it.               *)

(* Slip: every pass pulls the calendar from its start.                     *)
StartPassAfresh ==
    /\ pass.at = "idle" /\ ~backoff
    /\ pass' = [pass EXCEPT !.at = "asking"]
    /\ key' = IF key = NoKey THEN NoKey ELSE 0
    /\ UNCHANGED <<server, mem, files, job, backoff, put, synced>>

StartPass ==
    /\ pass.at = "idle" /\ ~backoff
    /\ pass' = [pass EXCEPT !.at = "asking"]
    /\ UNCHANGED <<server, mem, key, files, job, backoff, put, synced>>

(* Slip: the first page of several comes with the key of the last.         *)
PullPageWithLastKey ==
    /\ pass.at \in {"asking", "again"} /\ key # NoKey /\ Coming(key) # {}
    /\ key' = Max(Coming(key))
    /\ pass' = [pass EXCEPT !.at = "got", !.page = hist[Min(Coming(key))], !.more = Coming(key') # {}]
    /\ UNCHANGED <<server, mem, files, job, backoff, put, synced>>

(* A reply stores its SyncKey before the caller sees the page.             *)
PullPage ==
    /\ pass.at \in {"asking", "again"} /\ key # NoKey /\ Coming(key) # {}
    /\ key' = Min(Coming(key))
    /\ pass' = [pass EXCEPT !.at = "got", !.page = hist[key'], !.more = Coming(key') # {}]
    /\ UNCHANGED <<server, mem, files, job, backoff, put, synced>>

(* An empty reply is asked for once more: the first one to key 0 always is *)
(* empty and only brings a key.                                            *)
PullNothing ==
    /\ pass.at = "asking" /\ (key = NoKey \/ Coming(key) = {})
    /\ key' = IF key = NoKey THEN 0 ELSE key
    /\ pass' = [pass EXCEPT !.at = "again"]
    /\ UNCHANGED <<server, mem, files, job, backoff, put, synced>>

(* The second answer is empty too, or fails, which SyncCalendar hides.     *)
PullNothingAgain ==
    /\ pass.at = "again" /\ (Coming(key) = {} \/ Fault("pageError"))
    /\ pass' = [pass EXCEPT !.at = "got", !.page = NoPage, !.more = FALSE]
    /\ UNCHANGED <<server, mem, key, files, job, backoff, put, synced>>

PageError ==
    /\ pass.at = "asking" /\ Fault("pageError")
    /\ pass' = IdlePass
    /\ UNCHANGED <<server, mem, key, files, job, backoff, put, synced>>

Reject ==
    /\ pass.at = "asking" /\ key # NoKey /\ rejections < MaxRejections
    /\ rejections' = rejections + 1
    /\ UNCHANGED hist

(* Status 3: the library asks with key 0 at once.                          *)
PullStatus3 ==
    /\ Reject /\ floor' = Len(hist)
    /\ \/ key' = 0 /\ pass' = [pass EXCEPT !.at = "again"]
       \/ Fault("pageError") /\ key' = NoKey /\ pass' = IdlePass
    /\ UNCHANGED <<mem, files, job, backoff, put, synced>>

(* Status 5: the key is cleared, the pending batch dropped, once.  The     *)
(* second one in a pass ends it with the key as it is.                     *)
PullStatus5 ==
    /\ Reject
    /\ \/ /\ pass.retried
          /\ pass' = IdlePass
          /\ UNCHANGED <<floor, key, files>>
       \/ /\ ~pass.retried /\ Free
          /\ floor' = Len(hist) /\ key' = NoKey
          /\ pass' = [IdlePass EXCEPT !.at = "asking", !.retried = TRUE, !.progress = pass.progress]
          /\ files' \in {WithKey(NoKey)} \cup IF Fault("mainFails") THEN {files} ELSE {}
    /\ UNCHANGED <<mem, job, backoff, put, synced>>

(* Slip: the batch is handed over and kept.                                *)
SaveBatchAndKeep(next, pending, end) ==
    /\ pass' = [next EXCEPT !.at = "saving", !.pending = pending]
    /\ job' = Job("append", pending, end, "none")

SaveBatch(next, pending, end) ==
    /\ pass' = [next EXCEPT !.at = "saving", !.pending = Nothing]
    /\ job' = Job("append", pending, end, "none")

(* One page under s.mu.  What it changed joins the batch, and the batch is *)
(* saved every tenth page, on the last, on a stalled and on the hundredth. *)
ApplyPage ==
    LET p == pass.page
        changed == p.id \in IDs /\ mem[p.id] # p.val
        pending == IF changed THEN Over(One(p.id, p.val), pass.pending) ELSE pass.pending
        idle == IF changed THEN 0 ELSE pass.idle + 1
        end == IF ~pass.more THEN "last"
               ELSE IF idle >= MaxNoProgress THEN "stalled"
               ELSE IF pass.count + 1 = MaxPages THEN "limit" ELSE "more"
        next == [pass EXCEPT !.page = NoPage, !.more = FALSE, !.idle = idle,
                             !.progress = @ \/ changed, !.count = @ + 1]
    IN  /\ pass.at = "got" /\ Free
        /\ mem' = IF changed THEN [mem EXCEPT ![p.id] = p.val] ELSE mem
        /\ IF end # "more" \/ (pass.count + 1) % PagesPerSave = 0
           THEN SaveBatch(next, pending, end)
           ELSE /\ pass' = [next EXCEPT !.at = "asking", !.pending = pending]
                /\ UNCHANGED job
        /\ UNCHANGED <<server, key, files, backoff, put, synced>>

-----------------------------------------------------------------------------
(* saveCalendarLocked, for a pass and for CalDAV's writes.                 *)

(* The caller goes on, or gives up, after the write.                       *)
WriteEnds(report) ==
    /\ job' = NoJob(report)
    /\ IF job.end = "put" THEN put' = NoPut /\ UNCHANGED <<pass, synced, backoff>>
       ELSE /\ pass' = IF report = "saved" /\ job.end = "more"
                       THEN [pass EXCEPT !.at = "asking"] ELSE IdlePass
            /\ IF report = "saved" /\ job.end \in {"last", "stalled"}
               THEN synced' = TRUE /\ backoff' = (job.end = "stalled" /\ ~pass.progress)
               ELSE UNCHANGED <<synced, backoff>>
            /\ UNCHANGED put

AppendBatch ==
    /\ job.stage = "append"
    /\ files' = Appended(job.batch)
    /\ job' = [job EXCEPT !.stage = "main"]
    /\ UNCHANGED <<server, mem, key, pass, backoff, put, synced>>

(* An append that fails may leave part of its line.                        *)
Torn == {files.torn} \cup IF Fault("tear") THEN {TRUE} ELSE {}

AppendFails ==
    /\ job.stage = "append" /\ Fault("appendFails") /\ job.batch # Nothing
    /\ \E torn \in Torn : files' = WithLog(files.log, torn)
    /\ WriteEnds("failed")
    /\ UNCHANGED <<server, mem, key>>

(* Slip: with no event to save the SyncKey is not saved either.            *)
SaveMainWithEvents ==
    /\ job.stage = "main"
    /\ files' = IF job.batch = Nothing THEN files ELSE WithKey(key)
    /\ WriteEnds("saved")
    /\ UNCHANGED <<server, mem, key>>

SaveMain ==
    /\ job.stage = "main"
    /\ files' = WithKey(key)
    /\ WriteEnds("saved")
    /\ UNCHANGED <<server, mem, key>>

SaveMainFails ==
    /\ job.stage = "main" /\ Fault("mainFails")
    /\ WriteEnds("failed")
    /\ UNCHANGED <<server, mem, key, files>>

(* A mail folder's save puts every SyncKey of memory on file.              *)
MailSave ==
    /\ Free /\ Fault("mailSave") /\ files.key # key
    /\ files' = WithKey(key)
    /\ UNCHANGED <<server, mem, key, job, pass, backoff, put, synced>>

(* Slip: the journal is emptied before the snapshot is written.            *)
TruncateFirst ==
    /\ Free /\ files.log # Nothing
    /\ files' = WithLog(Nothing, FALSE)
    /\ job' = [job EXCEPT !.stage = "truncate"]
    /\ UNCHANGED <<server, mem, key, pass, backoff, put, synced>>

(* writeEventsSnapshotLocked: events.json becomes memory, then the journal *)
(* is emptied, or kept if that fails.                                      *)
Compact ==
    /\ Free /\ files.log # Nothing
    /\ files' = WithSnap(mem)
    /\ job' = [job EXCEPT !.stage = "truncate"]
    /\ UNCHANGED <<server, mem, key, pass, backoff, put, synced>>

Truncate ==
    /\ job.stage = "truncate"
    /\ files' \in {WithLog(Nothing, FALSE), files}
    /\ job' = [job EXCEPT !.stage = "none"]
    /\ UNCHANGED <<server, mem, key, pass, backoff, put, synced>>

-----------------------------------------------------------------------------
(* PutCalendarObject (v # Absent) and DeleteCalendarObject.                *)

PutLooks(id, v) ==
    /\ Fault("caldav") /\ put.at = "idle" /\ Free
    /\ v # Absent /\ mem[id] = Absent => Last(id, Len(hist)) = 0
    /\ put' = [at |-> "asking", id |-> id, val |-> v]
    /\ UNCHANGED <<server, mem, key, files, job, pass, backoff, synced>>

PutRefused ==
    /\ put.at = "asking"
    /\ put' = NoPut
    /\ UNCHANGED <<server, mem, key, files, job, pass, backoff, synced>>

(* ensureSynced has fetched a key if there was none; GetChanges is 0.      *)
PutAccepted ==
    /\ put.at = "asking" /\ Possible(put.id, put.val)
    /\ hist' = Append(hist, [id |-> put.id, val |-> put.val, own |-> TRUE])
    /\ key' = IF key = NoKey THEN 0 ELSE key
    /\ put' = [put EXCEPT !.at = "accepted"]
    /\ UNCHANGED <<floor, rejections, mem, files, job, pass, backoff, synced>>

(* upsertEvent, deleteEvent.                                               *)
PutSaves ==
    /\ put.at = "accepted" /\ Free
    /\ mem' = [mem EXCEPT ![put.id] = put.val]
    /\ job' = Job("append", One(put.id, put.val), "put", "none")
    /\ put' = [put EXCEPT !.at = "saving"]
    /\ UNCHANGED <<server, key, files, pass, backoff, synced>>

-----------------------------------------------------------------------------
BackoffEnds ==
    /\ backoff /\ backoff' = FALSE
    /\ UNCHANGED <<server, mem, key, files, job, pass, put, synced>>

(* The process dies and loadState reads the files.                         *)
Restart ==
    /\ Fault("crash")
    /\ \E torn \in IF job.stage = "append" /\ job.batch # Nothing THEN Torn ELSE {files.torn} :
         files' = WithLog(files.log, torn)
    /\ mem' = Restored /\ key' = files.key
    /\ job' = NoJob("none") /\ pass' = IdlePass /\ put' = NoPut
    /\ backoff' = FALSE
    /\ UNCHANGED <<server, synced>>

(* events.jsonl cannot be read: loadState renames it and goes on from       *)
(* events.json, with the SyncKey of the main file.                         *)
RestartWithoutJournal ==
    /\ Fault("badJournal") /\ files.log # Nothing
    /\ files' = WithLog(Nothing, FALSE)
    /\ mem' = files.snap /\ key' = files.key
    /\ job' = NoJob("none") /\ pass' = IdlePass /\ put' = NoPut
    /\ backoff' = FALSE
    /\ UNCHANGED <<server, synced>>

PassStep ==
    \/ StartPass \/ PullPage \/ PullNothing \/ PullNothingAgain \/ ApplyPage
    \/ PageError \/ PullStatus3 \/ PullStatus5

WriteStep == AppendBatch \/ AppendFails \/ SaveMain \/ SaveMainFails \/ Truncate

Next ==
    \/ PassStep \/ WriteStep \/ Compact \/ MailSave \/ BackoffEnds
    \/ Restart \/ RestartWithoutJournal
    \/ \E id \in IDs, v \in Entries : ServerChanges(id, v) \/ PutLooks(id, v)
    \/ ServerRepeats \/ PutRefused \/ PutAccepted \/ PutSaves

Spec == Init /\ [][Next]_vars

(* The poller starts passes, back-off ends, the steps under s.mu end, and  *)
(* a server asked again and again answers in the end.                      *)
Fairness ==
    /\ WF_vars(PassStep) /\ WF_vars(WriteStep) /\ WF_vars(BackoffEnds)
    /\ SF_vars(PullPage) /\ SF_vars(PullNothing) /\ SF_vars(ApplyPage)

FairSpec == Spec /\ Fairness

-----------------------------------------------------------------------------
(* state.go 725-728 and 309-311: a batch that was reported as saved is     *)
(* found by every later restart, a failed one whole or not at all, through *)
(* crashes between the snapshot and the truncation and between journal and *)
(* main file; and a restart that cannot read the journal still has what    *)
(* memory was at the last snapshot (187-189).                              *)
Map == INSTANCE DurableMap WITH
    Keys <- IDs, memory <- mem, durable <- Restored, base <- files.snap, batch <- job.batch, report <- job.report,
    phase <- CASE job.stage = "append" -> "begun" [] job.stage = "main" -> "stored"
               [] OTHER -> "none"

FilesKeepPromise == Map!Spec

(* state.go 725-728: an incomplete last line costs only the write it was   *)
(* part of: once an append has returned, its batch is on file.             *)
AppendedIsDurable == job.stage = "main" => Laid(job.batch, Restored) = Restored

(* sync.go 723-724, DEV-NOTES.md:131: the SyncKey on file has not passed a *)
(* change that is not on file, so what a crash loses is pulled again.      *)
Others == {id \in IDs : \A j \in 1 .. Len(hist) : hist[j].id = id => ~hist[j].own}

KeyNotAhead ==
    \A id \in Others :
        LET i == Last(id, files.key)
        IN  i > floor => \E j \in i .. Len(hist) : hist[j].id = id /\ Restored[id] = hist[j].val

(* state.go 188-189: what a journal that cannot be read takes with it, "the *)
(* next sync makes up for": the server still has it to send.               *)
MissedIsToCome ==
    \A id \in Others :
        mem[id] # Current(id) => \E i \in Coming(key) : hist[i].id = id

NextSyncMakesUp == [][RestartWithoutJournal => MissedIsToCome']_vars

(* hasUsableCalendarCache.                                                 *)
Usable == key # NoKey \/ \E id \in IDs : mem[id] # Absent

(* Once a pass has ended well CalDAV is served for good, restarts or not,  *)
(* unless the server rejects the key.                                      *)
SyncedStaysServed == synced /\ rejections = 0 => Usable

(* sync.go 723-724, 734-740: in a process that lives the SyncKey in memory  *)
(* passes no change by others but with the page that brings it: what is    *)
(* not in memory is still to be pulled, whatever pages of duplicates,      *)
(* rejections, failed requests and writes, and CalDAV writes come between. *)
NothingIsMissed ==
    \A id \in Others :
        LET i == Last(id, Len(hist))
        IN  i \in 1 .. key /\ mem[id] # hist[i].val /\ Sent(i) =>
                pass.at = "got" /\ pass.page.id = id

(* sync.go 737-740: an event somebody else made or changed reaches memory  *)
(* as long as the process lives, whatever pages of duplicates, rejections, *)
(* page errors and failing writes come before it.                          *)
EveryChangeArrives ==
    <>[](\A id \in Others : Current(id) # Absent => mem[id] = Current(id))
=============================================================================
