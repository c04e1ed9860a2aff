-------------------------- MODULE CalendarStoreProofs --------------------------
(***************************************************************************)
(* Proofs about CalendarStore, for any ServerIDs, entries and bounds: as   *)
(* long as a write that fails leaves no part of a line behind, snapshot    *)
(* and journal together are the durable map; that a calendar served once   *)
(* is served for good; the types, with the bounds a pass keeps while its   *)
(* write is on its way; that the key in memory passes no change that       *)
(* memory does not get.                                                    *)
(***************************************************************************)
EXTENDS CalendarStore, WellFoundedInduction, TLAPS

-----------------------------------------------------------------------------
(* A set of positions that is not empty has a smallest.                    *)
LEMMA SmallestPosition ==
    ASSUME NEW S \in SUBSET Nat, S # {}
    PROVE  Min(S) \in S /\ \A y \in S : Min(S) =< y
<1>1. PICK x \in S : \A y \in S : ~(<<y, x>> \in OpToRel(<, Nat))
  BY NatLessThanWellFounded, WFMin
<1>2. \A y \in S : ~(y < x)
  BY <1>1 DEF OpToRel
<1>3. \A y \in S : x =< y
  BY <1>2
<1>4. QED
  BY <1>3 DEF Min

(* What a reply brings is a change, at a position after none of the key's. *)
LEMMA NextChange ==
    ASSUME hist \in Seq(Changes), NEW k, Coming(k) # {}
    PROVE  Min(Coming(k)) \in Nat /\ hist[Min(Coming(k))] \in Changes
<1>1. Coming(k) \in SUBSET Nat /\ Coming(k) \subseteq 1 .. Len(hist)
  BY DEF Coming
<1>2. Min(Coming(k)) \in 1 .. Len(hist)
  BY <1>1, SmallestPosition
<1>3. QED
  BY <1>2

-----------------------------------------------------------------------------
(* Batches and the journal: maps on some ServerIDs.                        *)

(* An overlay is a map from some ServerIDs, and the other way round.       *)
LEMMA OverlayDef ==
    ASSUME NEW b
    PROVE  /\ b \in Overlays => b \in [DOMAIN b -> Entries] /\ DOMAIN b \subseteq IDs
           /\ \A D \in SUBSET IDs : b \in [D -> Entries] => b \in Overlays
  BY DEF Overlays

(* The empty batch is one.                                                 *)
LEMMA NothingOverlay == Nothing \in Overlays /\ DOMAIN Nothing = {}
<1>1. Nothing \in [{} -> Entries]
  BY DEF Nothing
<1>2. QED
  BY <1>1, OverlayDef

(* So is a batch with one mutation.                                        *)
LEMMA OneOverlay ==
    ASSUME NEW id \in IDs, NEW v \in Entries
    PROVE  One(id, v) \in Overlays
<1>1. One(id, v) \in [{id} -> Entries]
  BY DEF One
<1>2. QED
  BY <1>1, OverlayDef

(* And one batch over another.                                             *)
LEMMA OverOverlay ==
    ASSUME NEW b \in Overlays, NEW c \in Overlays
    PROVE  Over(b, c) \in Overlays
<1>1. b \in [DOMAIN b -> Entries] /\ DOMAIN b \subseteq IDs
  BY OverlayDef
<1>2. c \in [DOMAIN c -> Entries] /\ DOMAIN c \subseteq IDs
  BY OverlayDef
<1>3. Over(b, c) \in [DOMAIN b \cup DOMAIN c -> Entries]
  BY <1>1, <1>2 DEF Over
<1>4. DOMAIN b \cup DOMAIN c \in SUBSET IDs
  BY <1>1, <1>2
<1>5. QED
  BY <1>3, <1>4, OverlayDef

(* A batch laid over a calendar gives a calendar.                          *)
LEMMA LaidMap ==
    ASSUME NEW b \in Overlays, NEW m \in [IDs -> Entries]
    PROVE  Laid(b, m) \in [IDs -> Entries]
<1>1. b \in [DOMAIN b -> Entries]
  BY OverlayDef
<1>2. QED
  BY <1>1 DEF Laid

(* The empty batch changes nothing.                                        *)
LEMMA LaidNothing ==
    ASSUME NEW m \in [IDs -> Entries]
    PROVE  Laid(Nothing, m) = m
  BY NothingOverlay DEF Laid

(* Replaying a journal with one more line is laying that line on what the  *)
(* journal gave before.                                                    *)
LEMMA LaidOver ==
    ASSUME NEW b \in Overlays, NEW c \in Overlays, NEW m \in [IDs -> Entries]
    PROVE  Laid(Over(b, c), m) = Laid(b, Laid(c, m))
<1>1. DOMAIN Over(b, c) = DOMAIN b \cup DOMAIN c
  BY DEF Over
<1>2. DOMAIN Laid(Over(b, c), m) = IDs /\ DOMAIN Laid(c, m) = IDs /\ DOMAIN Laid(b, Laid(c, m)) = IDs
  BY DEF Laid
<1>3. ASSUME NEW k \in IDs PROVE Laid(Over(b, c), m)[k] = Laid(b, Laid(c, m))[k]
  BY <1>1, <1>3 DEF Laid, Over
<1>4. Laid(Over(b, c), m) = [k \in IDs |-> Laid(Over(b, c), m)[k]]
  BY <1>2 DEF Laid
<1>5. Laid(b, Laid(c, m)) = [k \in IDs |-> Laid(b, Laid(c, m))[k]]
  BY <1>2 DEF Laid
<1>6. QED
  BY <1>3, <1>4, <1>5

-----------------------------------------------------------------------------
(* The invariant: types, and while the journal is still to be truncated    *)
(* events.json is what memory is.  If no write that fails leaves part of a *)
(* line, none is in the journal.                                           *)

NoTear == "tear" \notin Faults

PassShape == [at : {"idle", "asking", "again", "got", "saving"}, page : Changes,
              more : BOOLEAN, pending : Overlays, retried : BOOLEAN,
              idle : Int, progress : BOOLEAN, count : Int]

PutShape == [at : {"idle", "asking", "accepted", "saving"}, id : IDs \cup {Junk}, val : Entries]

Whole == [snap : [IDs -> Entries], log : Overlays, torn : BOOLEAN, key : Int]

Jobs == [stage : Stages, batch : Overlays, end : Ends, report : {"none", "saved", "failed"}]

StoreInv ==
    /\ hist \in Seq(Changes)
    /\ mem \in [IDs -> Entries]
    /\ key \in Int
    /\ files \in Whole
    /\ job \in Jobs
    /\ pass \in PassShape
    /\ put \in PutShape
    /\ put.at \in {"asking", "accepted"} => put.id \in IDs
    /\ job.stage = "truncate" => files.snap = mem
    /\ NoTear => files.torn = FALSE

(* What a restart reads is a calendar.                                     *)
LEMMA RestoredMap == StoreInv => Restored \in [IDs -> Entries]
  BY LaidMap DEF StoreInv, Whole, Restored

(* The empty page has the shape of a change.                               *)
LEMMA NoPageChange == NoPage \in Changes
  BY DEF NoPage, Changes, Entries

(* Values that start or end a pass, a CalDAV request or a write.           *)
LEMMA IdleShape == IdlePass \in PassShape
  BY NoPageChange, NothingOverlay DEF IdlePass, PassShape

(* No request.                                                             *)
LEMMA NoPutShape == NoPut \in PutShape /\ NoPut.at = "idle"
  BY DEF NoPut, PutShape, Entries

(* No write, with the report of the last one.                              *)
LEMMA NoJobShape ==
    ASSUME NEW r \in {"none", "saved", "failed"}
    PROVE  NoJob(r) \in Jobs /\ NoJob(r).stage = "none"
  BY NothingOverlay DEF NoJob, Job, Jobs, Stages, Ends

(* The write that begins with an append.                                   *)
LEMMA AppendJobShape ==
    ASSUME NEW b \in Overlays, NEW end \in Ends
    PROVE  /\ Job("append", b, end, "none") \in Jobs
           /\ Job("append", b, end, "none").stage = "append"
           /\ Job("append", b, end, "none").batch = b
           /\ Job("append", b, end, "none").report = "none"
  BY DEF Job, Jobs, Stages

(* The invariant holds in the empty store.                                 *)
LEMMA InitInv == Init => StoreInv
<1> SUFFICES ASSUME Init PROVE StoreInv
  OBVIOUS
<1>1. files \in Whole /\ files.torn = FALSE
  BY NothingOverlay DEF Init, Whole, NoKey, Entries
<1>2. hist \in Seq(Changes) /\ key \in Int /\ mem \in [IDs -> Entries]
  BY DEF Init, NoKey, Entries
<1>3. job \in Jobs /\ pass \in PassShape /\ put \in PutShape /\ put.at = "idle" /\ job.stage = "none"
  BY NoJobShape, IdleShape, NoPutShape DEF Init
<1>4. QED
  BY <1>1, <1>2, <1>3 DEF StoreInv

(* The empty store is an empty map.                                        *)
LEMMA InitMap == Init => Map!Init
<1> SUFFICES ASSUME Init PROVE Map!Init
  OBVIOUS
<1>1. mem \in [IDs -> Entries] /\ Restored = mem
  BY LaidNothing DEF Init, Restored, Entries
<1>2. job.stage = "none" /\ job.batch = Nothing /\ job.report = "none" /\ files.snap = mem
  BY DEF Init, NoJob, Job
<1>3. Nothing \in Map!Overlays
  BY NothingOverlay DEF Overlays, Map!Overlays
<1>4. QED
  BY <1>1, <1>2, <1>3 DEF Map!Init, Map!Maps

-----------------------------------------------------------------------------
(* Steps that only the server, a request or the keys notice: the map does  *)
(* not move.                                                               *)

(* Where memory, files and the write stay, so does the map.                *)
LEMMA QuietStutters ==
    ASSUME mem' = mem, job' = job, files'.snap = files.snap, files'.log = files.log
    PROVE  UNCHANGED Map!Vars
  BY DEF Map!Vars, Restored

(* A step of the pass alone.                                               *)
LEMMA PassStays ==
    ASSUME StoreInv, pass' \in PassShape,
           UNCHANGED <<hist, mem, files, job, put>>, key' \in Int
    PROVE  StoreInv' /\ UNCHANGED Map!Vars
<1>1. UNCHANGED Map!Vars
  BY QuietStutters
<1>2. QED
  BY <1>1 DEF StoreInv

(* Requests and their answers.                                             *)
LEMMA PullSteps ==
    ASSUME StoreInv, StartPass \/ PullPage \/ PullNothing \/ PullNothingAgain \/ PageError
    PROVE  StoreInv' /\ UNCHANGED Map!Vars
<1>1. CASE StartPass
  <2>1. pass' \in PassShape
    BY <1>1 DEF StartPass, StoreInv, PassShape
  <2>2. QED
    BY <1>1, <2>1, PassStays DEF StartPass, server, StoreInv
<1>2. CASE PullPage
  <2>1. key' \in Int /\ hist[key'] \in Changes
    BY <1>2, NextChange DEF PullPage, StoreInv
  <2>2. pass' \in PassShape
    BY <1>2, <2>1 DEF PullPage, StoreInv, PassShape
  <2>3. QED
    BY <1>2, <2>1, <2>2, PassStays DEF PullPage, server
<1>3. CASE PullNothing
  <2>1. pass' \in PassShape /\ key' \in Int
    BY <1>3 DEF PullNothing, StoreInv, PassShape
  <2>2. QED
    BY <1>3, <2>1, PassStays DEF PullNothing, server
<1>4. CASE PullNothingAgain
  <2>1. pass' \in PassShape
    BY <1>4, NoPageChange DEF PullNothingAgain, StoreInv, PassShape
  <2>2. QED
    BY <1>4, <2>1, PassStays DEF PullNothingAgain, server, StoreInv
<1>5. CASE PageError
  <2>1. pass' \in PassShape
    BY <1>5, IdleShape DEF PageError
  <2>2. QED
    BY <1>5, <2>1, PassStays DEF PageError, server, StoreInv
<1>6. QED
  BY <1>1, <1>2, <1>3, <1>4, <1>5

(* Saving a SyncKey leaves the events on file alone.                       *)
LEMMA WithKeyFiles ==
    ASSUME files \in Whole, NEW k \in Int
    PROVE  /\ WithKey(k) \in Whole
           /\ WithKey(k).snap = files.snap /\ WithKey(k).log = files.log
           /\ WithKey(k).torn = files.torn
  BY DEF WithKey, Whole

(* Status 3 and 5.                                                         *)
LEMMA RejectedSteps ==
    ASSUME StoreInv, PullStatus3 \/ PullStatus5
    PROVE  StoreInv' /\ UNCHANGED Map!Vars
<1>1. CASE PullStatus3
  <2>1. pass' \in PassShape /\ key' \in Int
    BY <1>1, IdleShape DEF PullStatus3, StoreInv, PassShape, NoKey
  <2>2. QED
    BY <1>1, <2>1, PassStays DEF PullStatus3, Reject
<1>2. CASE PullStatus5
  <2>1. key' \in Int /\ NoKey \in Int
    BY <1>2 DEF PullStatus5, NoKey, StoreInv
  <2>2. pass' \in PassShape
    BY <1>2, IdleShape DEF PullStatus5, StoreInv, PassShape
  <2>3. files' \in {files, WithKey(NoKey)}
    BY <1>2 DEF PullStatus5
  <2>4. files' \in Whole /\ files'.snap = files.snap /\ files'.log = files.log
        /\ files'.torn = files.torn
    BY <2>1, <2>3, WithKeyFiles DEF StoreInv
  <2>5. UNCHANGED <<hist, mem, job, put>>
    BY <1>2 DEF PullStatus5, Reject
  <2>6. QED
    BY <2>1, <2>2, <2>4, <2>5, QuietStutters DEF StoreInv
<1>3. QED
  BY <1>1, <1>2

(* The server, CalDAV's requests, mail folders and the back-off.           *)
LEMMA OutsideSteps ==
    ASSUME StoreInv,
           \/ \E id \in IDs, v \in Entries : ServerChanges(id, v) \/ PutLooks(id, v)
           \/ ServerRepeats \/ PutRefused \/ PutAccepted \/ MailSave \/ BackoffEnds
    PROVE  StoreInv' /\ UNCHANGED Map!Vars
<1>1. ASSUME NEW id \in IDs, NEW v \in Entries, ServerChanges(id, v)
      PROVE  StoreInv' /\ UNCHANGED Map!Vars
  <2>1. [id |-> id, val |-> v, own |-> FALSE] \in Changes
    BY DEF Changes
  <2>2. hist' \in Seq(Changes)
    BY <1>1, <2>1 DEF ServerChanges, StoreInv
  <2>3. QED
    BY <1>1, <2>2, QuietStutters DEF ServerChanges, StoreInv
<1>2. ASSUME NEW id \in IDs, NEW v \in Entries, PutLooks(id, v)
      PROVE  StoreInv' /\ UNCHANGED Map!Vars
  <2>1. put' \in PutShape /\ put'.id \in IDs
    BY <1>2 DEF PutLooks, PutShape
  <2>2. QED
    BY <1>2, <2>1, QuietStutters DEF PutLooks, StoreInv, server
<1>3. CASE ServerRepeats
  <2>1. hist' \in Seq(Changes)
    BY <1>3, NoPageChange DEF ServerRepeats, StoreInv
  <2>2. QED
    BY <1>3, <2>1, QuietStutters DEF ServerRepeats, StoreInv
<1>4. CASE PutRefused
  BY <1>4, NoPutShape, QuietStutters DEF PutRefused, StoreInv, server
<1>5. CASE PutAccepted
  <2>1. put' \in PutShape /\ put'.id = put.id /\ put.id \in IDs /\ put.val \in Entries
    BY <1>5 DEF PutAccepted, StoreInv, PutShape
  <2>2. [id |-> put.id, val |-> put.val, own |-> TRUE] \in Changes
    BY <2>1 DEF Changes
  <2>3. hist' \in Seq(Changes) /\ key' \in Int
    BY <1>5, <2>2 DEF PutAccepted, StoreInv
  <2>4. QED
    BY <1>5, <2>1, <2>3, QuietStutters DEF PutAccepted, StoreInv
<1>6. CASE MailSave
  <2>1. files' \in Whole /\ files'.snap = files.snap /\ files'.log = files.log
        /\ files'.torn = files.torn
    BY <1>6, WithKeyFiles DEF MailSave, StoreInv
  <2>2. QED
    BY <1>6, <2>1, QuietStutters DEF MailSave, StoreInv, server
<1>7. CASE BackoffEnds
  BY <1>7, QuietStutters DEF BackoffEnds, StoreInv, server
<1>8. QED
  BY <1>1, <1>2, <1>3, <1>4, <1>5, <1>6, <1>7

-----------------------------------------------------------------------------
(* Memory moves: a page, or CalDAV's upsert.                               *)

(* Under s.mu memory changes and an append is begun.                       *)
LEMMA SavesBatch ==
    ASSUME StoreInv, Free, NEW b \in Overlays, NEW end \in Ends,
           job' = Job("append", b, end, "none"), mem' \in [IDs -> Entries], files' = files
    PROVE  job' \in Jobs /\ job'.stage = "append" /\ Map!Next
<1>1. job' \in Jobs /\ job'.stage = "append" /\ job'.batch = b /\ job'.report = "none"
  BY AppendJobShape
<1>2. b \in Map!Overlays
  BY DEF Overlays, Map!Overlays
<1>3. Restored' = Restored /\ files'.snap = files.snap
  BY DEF Restored
<1>4. Map!Begin
  BY <1>1, <1>2, <1>3 DEF Map!Begin, Map!Maps, Free
<1>5. QED
  BY <1>1, <1>4 DEF Map!Next

(* A page either waits in the pending batch or takes it to the files.      *)
LEMMA ApplyPageStep ==
    ASSUME StoreInv, ApplyPage
    PROVE  StoreInv' /\ Map!Next
<1> DEFINE p == pass.page
           changed == p.id \in IDs /\ mem[p.id] # p.val
           pending == IF changed THEN Over(One(p.id, p.val), pass.pending) ELSE pass.pending
           idle == IF changed THEN 0 ELSE pass.idle + 1
           end == IF ~pass.more THEN "last"
                  ELSE IF idle >= MaxNoProgress THEN "stalled"
                  ELSE IF pass.count + 1 = MaxPages THEN "limit" ELSE "more"
           next == [pass EXCEPT !.page = NoPage, !.more = FALSE, !.idle = idle,
                                !.progress = @ \/ changed, !.count = @ + 1]
<1>1. pass \in PassShape /\ p \in Changes /\ pass.pending \in Overlays
  BY DEF StoreInv, PassShape
<1>2. pending \in Overlays
  <2>1. CASE changed
    <3>1. p.val \in Entries
      BY <1>1 DEF Changes
    <3>2. QED
      BY <1>1, <2>1, <3>1, OneOverlay, OverOverlay
  <2>2. CASE ~changed
    BY <1>1, <2>2
  <2>3. QED
    BY <2>1, <2>2
<1>3. mem' \in [IDs -> Entries]
  BY <1>1 DEF ApplyPage, StoreInv, Changes
<1>4. next \in PassShape
  <2>1. idle \in Int /\ (pass.progress \/ changed) \in BOOLEAN /\ pass.count + 1 \in Int
    BY <1>1 DEF PassShape
  <2> HIDE DEF idle, changed
  <2>2. QED
    BY <1>1, <2>1, NoPageChange DEF PassShape
<1>5. end \in Ends
  BY DEF Ends
<1>6. Free /\ files' = files /\ UNCHANGED <<hist, key, put>>
  BY DEF ApplyPage, server
<1>7. \/ SaveBatch(next, pending, end)
      \/ pass' = [next EXCEPT !.at = "asking", !.pending = pending] /\ job' = job
  BY DEF ApplyPage
<1> HIDE DEF pending, end, next
<1>8. CASE SaveBatch(next, pending, end)
  <2>1. pass' \in PassShape
    BY <1>4, <1>8, NothingOverlay DEF SaveBatch, PassShape
  <2>2. job' = Job("append", pending, end, "none")
    BY <1>8 DEF SaveBatch
  <2>3. job' \in Jobs /\ job'.stage = "append" /\ Map!Next
    BY <1>2, <1>3, <1>5, <1>6, <2>2, SavesBatch
  <2>4. QED
    BY <1>3, <1>6, <2>1, <2>3 DEF StoreInv
<1>9. CASE pass' = [next EXCEPT !.at = "asking", !.pending = pending] /\ job' = job
  <2>1. pass' \in PassShape
    BY <1>2, <1>4, <1>9 DEF PassShape
  <2>2. Restored' = Restored /\ files'.snap = files.snap
    BY <1>6 DEF Restored
  <2>3. Map!Change
    BY <1>3, <1>6, <1>9, <2>2 DEF Map!Change, Map!Maps, Free
  <2>4. StoreInv'
    BY <1>3, <1>6, <1>9, <2>1 DEF StoreInv, Free
  <2>5. QED
    BY <2>3, <2>4 DEF Map!Next
<1>10. QED
  BY <1>7, <1>8, <1>9

(* CalDAV's upsert or deletion is a batch of its own.                      *)
LEMMA PutSavesStep ==
    ASSUME StoreInv, PutSaves
    PROVE  StoreInv' /\ Map!Next
<1>1. put.id \in IDs /\ put.val \in Entries /\ put' \in PutShape /\ put'.at = "saving"
  BY DEF PutSaves, StoreInv, PutShape
<1>2. mem' \in [IDs -> Entries] /\ One(put.id, put.val) \in Overlays /\ "put" \in Ends
  BY <1>1, OneOverlay DEF PutSaves, StoreInv, Ends
<1>3. Free /\ files' = files /\ UNCHANGED <<hist, key, pass>>
      /\ job' = Job("append", One(put.id, put.val), "put", "none")
  BY DEF PutSaves, server
<1>4. job' \in Jobs /\ job'.stage = "append" /\ Map!Next
  BY <1>2, <1>3, SavesBatch
<1>5. QED
  BY <1>1, <1>2, <1>3, <1>4 DEF StoreInv

-----------------------------------------------------------------------------
(* The write under s.mu.                                                   *)

(* A journal written anew.                                                 *)
LEMMA WithLogFiles ==
    ASSUME files \in Whole, NEW b \in Overlays, NEW t \in BOOLEAN
    PROVE  /\ WithLog(b, t) \in Whole
           /\ WithLog(b, t).snap = files.snap /\ WithLog(b, t).log = b
           /\ WithLog(b, t).torn = t
  BY DEF WithLog, Whole

(* What the caller does when a write ends keeps the types.                 *)
LEMMA WriteEndsShapes ==
    ASSUME StoreInv, NEW r \in {"saved", "failed"}, WriteEnds(r)
    PROVE  /\ job' = NoJob(r) /\ job' \in Jobs /\ job'.stage = "none"
           /\ pass' \in PassShape /\ put' \in PutShape
           /\ put'.at \in {"asking", "accepted"} => put'.id \in IDs
<1>1. job' = NoJob(r) /\ job' \in Jobs /\ job'.stage = "none"
  BY NoJobShape DEF WriteEnds
<1>2. pass' \in PassShape
  BY IdleShape DEF WriteEnds, StoreInv, PassShape
<1>3. put' \in PutShape /\ (put'.at \in {"asking", "accepted"} => put'.id \in IDs)
  BY NoPutShape DEF WriteEnds, StoreInv
<1>4. QED
  BY <1>1, <1>2, <1>3

(* However a write ends, the map makes the step of that name if the files  *)
(* still give the same events.                                             *)
LEMMA WriteEndsMap ==
    ASSUME StoreInv, NEW r \in {"saved", "failed"}, WriteEnds(r), UNCHANGED <<mem, Restored, files.snap>>,
           \/ job.stage = "append" /\ r = "failed"
           \/ job.stage = "main"
    PROVE  Map!Next
<1>1. job'.stage = "none" /\ job'.batch = Nothing /\ job'.report = r
  BY DEF WriteEnds, NoJob, Job
<1>2. Nothing \in Map!Overlays
  BY NothingOverlay DEF Overlays, Map!Overlays
<1>3. CASE r = "saved"
  BY <1>1, <1>2, <1>3 DEF Map!Saved, Map!Next
<1>4. CASE r = "failed"
  BY <1>1, <1>2, <1>4 DEF Map!Failed, Map!Next
<1>5. QED
  BY <1>3, <1>4

(* What an append that fails, or is cut off by a crash, leaves.            *)
LEMMA TornLines ==
    ASSUME StoreInv
    PROVE  \A torn \in Torn :
               /\ torn \in BOOLEAN
               /\ NoTear => torn = FALSE
               /\ WithLog(files.log, torn) \in Whole
               /\ WithLog(files.log, torn).snap = files.snap
               /\ WithLog(files.log, torn).log = files.log
               /\ WithLog(files.log, torn).torn = torn
<1>1. NoTear => ~Fault("tear")
  BY DEF NoTear, Fault
<1>2. files.torn \in BOOLEAN /\ files \in Whole /\ files.log \in Overlays
      /\ (NoTear => files.torn = FALSE)
  BY DEF StoreInv, Whole
<1>3. ASSUME NEW torn \in Torn PROVE torn \in BOOLEAN /\ (NoTear => torn = FALSE)
  BY <1>1, <1>2 DEF Torn
<1>4. QED
  BY <1>2, <1>3, WithLogFiles

(* The append stores the batch in the map.                                 *)
LEMMA AppendBatchStep ==
    ASSUME StoreInv, AppendBatch
    PROVE  StoreInv' /\ (NoTear => Map!Next)
<1>1. files \in Whole /\ job.batch \in Overlays /\ files.log \in Overlays
  BY DEF StoreInv, Whole, Jobs
<1>2. UNCHANGED <<hist, mem, key, pass, put>> /\ job.stage = "append"
  BY DEF AppendBatch, server
<1>3. job' \in Jobs /\ job'.stage = "main" /\ job'.batch = job.batch /\ job'.report = job.report
  BY DEF AppendBatch, StoreInv, Jobs, Stages
<1>4. files.snap \in [IDs -> Entries] /\ (NoTear => files.torn = FALSE)
  BY <1>1 DEF Whole, StoreInv
<1>5. /\ files' \in Whole /\ (NoTear => files'.torn = FALSE) /\ files'.snap = files.snap
      /\ NoTear => Restored' = Laid(job.batch, Restored)
  <2>1. CASE job.batch = Nothing
    <3>1. files' = files
      BY <2>1 DEF AppendBatch, Appended
    <3>2. Laid(job.batch, Restored) = Restored
      BY <2>1, RestoredMap, LaidNothing
    <3>3. QED
      BY <1>1, <1>4, <3>1, <3>2 DEF Restored
  <2>2. CASE job.batch # Nothing /\ files.torn
    <3>1. files' = WithLog(files.log, FALSE)
      BY <2>2 DEF AppendBatch, Appended
    <3>2. QED
      BY <1>1, <1>4, <2>2, <3>1, WithLogFiles
  <2>3. CASE job.batch # Nothing /\ ~files.torn
    <3>1. files' = WithLog(Over(job.batch, files.log), FALSE)
      BY <2>3 DEF AppendBatch, Appended
    <3>2. Over(job.batch, files.log) \in Overlays
      BY <1>1, OverOverlay
    <3>3. files' \in Whole /\ files'.snap = files.snap /\ files'.log = Over(job.batch, files.log)
          /\ files'.torn = FALSE
      BY <1>1, <3>1, <3>2, WithLogFiles
    <3>4. Restored' = Laid(Over(job.batch, files.log), files.snap)
      BY <3>3 DEF Restored
    <3>5. QED
      BY <1>1, <1>4, <3>3, <3>4, LaidOver DEF Restored
  <2>4. QED
    BY <2>1, <2>2, <2>3
<1>6. NoTear => Map!Store
  BY <1>2, <1>3, <1>5 DEF Map!Store, Map!Laid, Laid
<1>7. StoreInv'
  BY <1>2, <1>3, <1>5 DEF StoreInv, NoTear
<1>8. QED
  BY <1>6, <1>7 DEF Map!Next

(* An append that fails leaves the map as it was.                          *)
LEMMA AppendFailsStep ==
    ASSUME StoreInv, AppendFails
    PROVE  StoreInv' /\ (NoTear => Map!Next)
<1>1. PICK torn \in Torn : files' = WithLog(files.log, torn)
  BY DEF AppendFails
<1>2. files' \in Whole /\ files'.snap = files.snap /\ files'.log = files.log
      /\ (NoTear => files'.torn = FALSE)
  BY <1>1, TornLines
<1>3. WriteEnds("failed") /\ job.stage = "append" /\ UNCHANGED <<hist, mem, key>>
  BY DEF AppendFails, server
<1>4. Restored' = Restored
  BY <1>2 DEF Restored
<1>5. Map!Next
  BY <1>2, <1>3, <1>4, WriteEndsMap
<1>6. StoreInv'
  BY <1>2, <1>3, WriteEndsShapes DEF StoreInv, NoTear
<1>7. QED
  BY <1>5, <1>6

(* The main file ends the write either way.                                *)
LEMMA SaveMainSteps ==
    ASSUME StoreInv, SaveMain \/ SaveMainFails
    PROVE  StoreInv' /\ Map!Next
<1>1. PICK r \in {"saved", "failed"} : WriteEnds(r)
  BY DEF SaveMain, SaveMainFails
<1>2. job.stage = "main" /\ UNCHANGED <<hist, mem, key>> /\ key \in Int
  BY DEF SaveMain, SaveMainFails, server, StoreInv
<1>3. files' \in {files, WithKey(key)}
  BY DEF SaveMain, SaveMainFails
<1>4. files' \in Whole /\ files'.snap = files.snap /\ files'.log = files.log
      /\ files'.torn = files.torn
  BY <1>2, <1>3, WithKeyFiles DEF StoreInv
<1>5. Restored' = Restored
  BY <1>4 DEF Restored
<1>6. Map!Next
  BY <1>1, <1>2, <1>4, <1>5, WriteEndsMap
<1>7. StoreInv'
  BY <1>1, <1>2, <1>4, WriteEndsShapes DEF StoreInv
<1>8. QED
  BY <1>6, <1>7

-----------------------------------------------------------------------------
(* Compaction and restart.                                                 *)

(* Between the snapshot and the truncation the old lines, laid over the    *)
(* new snapshot, may bring entries back that memory has given up since; it *)
(* is what the files said before, so nothing saved is lost.                *)
LEMMA CompactStep ==
    ASSUME StoreInv, Compact
    PROVE  StoreInv' /\ Map!Next
<1>1. files \in Whole /\ mem \in [IDs -> Entries] /\ files.log \in Overlays
  BY DEF StoreInv, Whole
<1>2. files' = WithSnap(mem) /\ job.stage = "none" /\ UNCHANGED <<hist, mem, key, pass, put>>
  BY DEF Compact, Free, server
<1>3. files' \in Whole /\ files'.snap = mem /\ files'.log = files.log
      /\ files'.torn = files.torn
  BY <1>1, <1>2 DEF WithSnap, Whole
<1>4. job' \in Jobs /\ job'.stage = "truncate" /\ job'.batch = job.batch /\ job'.report = job.report
  BY DEF Compact, StoreInv, Jobs, Stages
<1>5. Restored' = Laid(files.log, mem)
  BY <1>3 DEF Restored
<1>6. Restored' \in [IDs -> Entries]
  BY <1>1, <1>5, LaidMap
<1>7. \A k \in IDs : Restored'[k] \in {Restored[k], mem[k]}
  BY <1>1, <1>5 DEF Laid, Restored, Whole
<1>8. Map!Refresh
  BY <1>2, <1>3, <1>4, <1>6, <1>7 DEF Map!Refresh, Map!Maps
<1>9. StoreInv'
  BY <1>2, <1>3, <1>4 DEF StoreInv
<1>10. QED
  BY <1>8, <1>9 DEF Map!Next

(* Emptying the journal leaves memory on file.                             *)
LEMMA TruncateStep ==
    ASSUME StoreInv, Truncate
    PROVE  StoreInv' /\ Map!Next
<1>1. files \in Whole /\ mem \in [IDs -> Entries] /\ files.snap = mem /\ job.stage = "truncate"
  BY DEF StoreInv, Truncate
<1>2. files' \in {WithLog(Nothing, FALSE), files} /\ UNCHANGED <<hist, mem, key, pass, put>>
  BY DEF Truncate, server
<1>3. files' \in Whole /\ files'.snap = mem /\ files'.log \in {Nothing, files.log}
      /\ (NoTear => files'.torn = FALSE)
  BY <1>1, <1>2, NothingOverlay, WithLogFiles DEF StoreInv
<1>4. job' \in Jobs /\ job'.stage = "none" /\ job'.batch = job.batch /\ job'.report = job.report
  BY DEF Truncate, StoreInv, Jobs, Stages
<1>5. Restored' \in {mem, Restored}
  BY <1>1, <1>3, LaidNothing DEF Restored
<1>6. Restored' \in [IDs -> Entries]
  BY <1>1, <1>5, RestoredMap
<1>7. Map!Refresh
  BY <1>1, <1>2, <1>3, <1>4, <1>5, <1>6 DEF Map!Refresh, Map!Maps
<1>8. StoreInv'
  BY <1>2, <1>3, <1>4 DEF StoreInv
<1>9. QED
  BY <1>7, <1>8 DEF Map!Next

(* A restart reads what the files give.                                    *)
LEMMA RestartStep ==
    ASSUME StoreInv, Restart
    PROVE  StoreInv' /\ Map!Next
<1>1. PICK torn \in Torn : files' = WithLog(files.log, torn)
  BY DEF Restart, Torn
<1>2. files' \in Whole /\ files'.snap = files.snap /\ files'.log = files.log
      /\ (NoTear => files'.torn = FALSE)
  BY <1>1, TornLines
<1>3. mem' = Restored /\ key' = files.key /\ job' = NoJob("none")
      /\ pass' = IdlePass /\ put' = NoPut /\ hist' = hist
  BY DEF Restart, server
<1>4. Restored' = Restored /\ Restored \in [IDs -> Entries]
  BY <1>2, RestoredMap DEF Restored
<1>5. job' \in Jobs /\ job'.stage = "none" /\ job'.batch = Nothing /\ job'.report = "none"
  BY <1>3, NoJobShape DEF NoJob, Job
<1>6. Nothing \in Map!Overlays
  BY NothingOverlay DEF Overlays, Map!Overlays
<1>7. Map!Restart
  BY <1>2, <1>3, <1>4, <1>5, <1>6 DEF Map!Restart
<1>8. key' \in Int
  BY <1>3 DEF Whole, StoreInv
<1>9. StoreInv'
  BY <1>2, <1>3, <1>4, <1>5, <1>8, IdleShape, NoPutShape DEF StoreInv, NoTear
<1>10. QED
  BY <1>7, <1>9 DEF Map!Next

(* One that cannot read the journal falls back to the snapshot.            *)
LEMMA RestartWithoutJournalStep ==
    ASSUME StoreInv, RestartWithoutJournal
    PROVE  StoreInv' /\ Map!Next
<1>1. files \in Whole /\ files' = WithLog(Nothing, FALSE) /\ mem' = files.snap
      /\ key' = files.key /\ hist' = hist
  BY DEF RestartWithoutJournal, StoreInv, server
<1>2. files' \in Whole /\ files'.torn = FALSE /\ files'.snap = files.snap /\ files'.log = Nothing
  BY <1>1, NothingOverlay, WithLogFiles
<1>3. mem' \in [IDs -> Entries] /\ key' \in Int
  BY <1>1 DEF Whole
<1>4. job' = NoJob("none") /\ pass' = IdlePass /\ put' = NoPut
  BY DEF RestartWithoutJournal
<1>5. StoreInv'
  BY <1>1, <1>2, <1>3, <1>4, NoJobShape, IdleShape, NoPutShape DEF StoreInv
<1>6. Restored' = files.snap
  BY <1>1, <1>2, <1>3, LaidNothing DEF Restored
<1>7. job'.stage = "none" /\ job'.batch = Nothing /\ job'.report = "none"
  BY <1>4 DEF NoJob, Job
<1>8. Nothing \in Map!Overlays
  BY NothingOverlay DEF Overlays, Map!Overlays
<1>9. Map!FallBack
  BY <1>1, <1>2, <1>6, <1>7, <1>8 DEF Map!FallBack
<1>10. QED
  BY <1>5, <1>9 DEF Map!Next

-----------------------------------------------------------------------------
(* Every step keeps the invariant and is a step of the map, or none.       *)
LEMMA StoreStep ==
    ASSUME StoreInv, [Next]_vars
    PROVE  StoreInv' /\ (NoTear => [Map!Next]_(Map!Vars))
<1>1. CASE UNCHANGED vars
  <2>1. UNCHANGED Map!Vars
    BY <1>1, QuietStutters DEF vars
  <2>2. QED
    BY <1>1, <2>1 DEF StoreInv, vars
<1>2. CASE PassStep
  BY <1>2, PullSteps, RejectedSteps, ApplyPageStep DEF PassStep
<1>3. CASE WriteStep
  BY <1>3, AppendBatchStep, AppendFailsStep, SaveMainSteps, TruncateStep DEF WriteStep
<1>4. CASE Compact \/ Restart \/ RestartWithoutJournal \/ PutSaves
  BY <1>4, CompactStep, RestartStep, RestartWithoutJournalStep, PutSavesStep
<1>5. CASE \/ \E id \in IDs, v \in Entries : ServerChanges(id, v) \/ PutLooks(id, v)
           \/ ServerRepeats \/ PutRefused \/ PutAccepted \/ MailSave \/ BackoffEnds
  BY <1>5, OutsideSteps
<1>6. QED
  BY <1>1, <1>2, <1>3, <1>4, <1>5 DEF Next

(* state.go 725-728 and 309-311: events.json and events.jsonl together are *)
(* a map that changes by whole batches.  A batch reported as saved is      *)
(* found by every later restart, through crashes at every point of the     *)
(* append, the main file's write, the snapshot and the truncation; one     *)
(* that cannot read the journal finds what memory was at the last snapshot.*)
THEOREM FilesAreDurable ==
    ASSUME "tear" \notin Faults
    PROVE  Spec => FilesKeepPromise
<1>1. StoreInv /\ [Next]_vars => StoreInv' /\ [Map!Next]_(Map!Vars)
  BY StoreStep DEF NoTear
<1>2. QED
  BY <1>1, InitInv, InitMap, PTL DEF Spec, FilesKeepPromise, Map!Spec

-----------------------------------------------------------------------------
(* The keys.  A pass that has had an answer has a key, and a batch of its  *)
(* own under way means that it had one: so the main file gets a key no     *)
(* later than a pass is said to have ended well.                           *)

KeyInv ==
    /\ rejections \in Nat
    /\ job.stage \in {"append", "main"} /\ job.end # "put" => pass.at = "saving"
    /\ rejections = 0 /\ pass.at \in {"again", "got", "saving"} => key # NoKey
    /\ rejections = 0 /\ synced => key # NoKey /\ files.key # NoKey

(* At first there is no key and nothing has been said.                     *)
LEMMA InitKeys == Init => KeyInv
  BY DEF Init, KeyInv, IdlePass, NoJob, Job

(* The pass: an answer brings a key, a rejection ends the claim.           *)
LEMMA PullKeepsKeys ==
    ASSUME StoreInv, KeyInv, PassStep
    PROVE  KeyInv'
<1>1. CASE StartPass
  BY <1>1 DEF StartPass, server, KeyInv, StoreInv, PassShape
<1>2. CASE PullPage
  <2>1. key' # NoKey
    BY <1>2, NextChange DEF PullPage, StoreInv, NoKey
  <2>2. pass'.at = "got" /\ pass.at # "saving"
    BY <1>2 DEF PullPage, StoreInv, PassShape
  <2>3. UNCHANGED <<rejections, job, files, synced>>
    BY <1>2 DEF PullPage, server
  <2>4. QED
    BY <2>1, <2>2, <2>3 DEF KeyInv
<1>3. CASE PullNothing
  <2>1. key' # NoKey
    BY <1>3 DEF PullNothing, NoKey
  <2>2. pass.at # "saving"
    BY <1>3 DEF PullNothing
  <2>3. UNCHANGED <<rejections, job, files, synced>>
    BY <1>3 DEF PullNothing, server
  <2>4. QED
    BY <2>1, <2>2, <2>3 DEF KeyInv
<1>4. CASE PullNothingAgain
  <2>1. pass'.at = "got" /\ pass.at = "again"
    BY <1>4 DEF PullNothingAgain, StoreInv, PassShape
  <2>2. UNCHANGED <<rejections, job, files, synced, key>>
    BY <1>4 DEF PullNothingAgain, server
  <2>3. QED
    BY <2>1, <2>2 DEF KeyInv
<1>5. CASE ApplyPage
  <2>1. pass.at = "got" /\ Free /\ UNCHANGED <<rejections, files, synced, key>>
    BY <1>5 DEF ApplyPage, server
  <2>2. \/ pass'.at = "saving"
        \/ pass'.at = "asking" /\ job' = job
    BY <1>5 DEF ApplyPage, SaveBatch, StoreInv, PassShape
  <2>3. QED
    BY <2>1, <2>2 DEF KeyInv, Free
<1>6. CASE PageError
  BY <1>6 DEF PageError, server, KeyInv, IdlePass
<1>7. CASE PullStatus3 \/ PullStatus5
  <2>1. rejections' = rejections + 1 /\ pass.at = "asking" /\ job' = job
    BY <1>7 DEF PullStatus3, PullStatus5, Reject
  <2>2. QED
    BY <2>1 DEF KeyInv
<1>8. QED
  BY <1>1, <1>2, <1>3, <1>4, <1>5, <1>6, <1>7 DEF PassStep

(* The write: it is after a pass has its key that the key is on file.      *)
LEMMA WritesKeepKeys ==
    ASSUME StoreInv, KeyInv, WriteStep
    PROVE  KeyInv'
<1>1. CASE AppendBatch
  <2>1. job.stage = "append" /\ job'.stage = "main" /\ job'.end = job.end
    BY <1>1 DEF AppendBatch, StoreInv, Jobs
  <2>2. files'.key = files.key
    BY <1>1 DEF AppendBatch, Appended, WithLog
  <2>3. UNCHANGED <<rejections, key, pass, synced>>
    BY <1>1 DEF AppendBatch, server
  <2>4. QED
    BY <2>1, <2>2, <2>3 DEF KeyInv
<1>2. CASE AppendFails
  <2>1. job'.stage = "none" /\ synced' = synced /\ pass' \in {pass, IdlePass}
        /\ (job.end # "put" => pass' = IdlePass)
    BY <1>2 DEF AppendFails, WriteEnds, NoJob, Job
  <2>2. files'.key = files.key
    BY <1>2 DEF AppendFails, WithLog
  <2>3. UNCHANGED <<rejections, key>>
    BY <1>2 DEF AppendFails, server
  <2>4. QED
    BY <2>1, <2>2, <2>3 DEF KeyInv, IdlePass
<1>3. CASE SaveMain
  <2>1. UNCHANGED <<rejections, key>> /\ job.stage = "main" /\ WriteEnds("saved")
    BY <1>3 DEF SaveMain, server
  <2>2. job'.stage = "none" /\ files'.key = key
    BY <1>3 DEF SaveMain, WriteEnds, NoJob, Job, WithKey
  <2>3. CASE job.end = "put"
    BY <2>1, <2>2, <2>3 DEF KeyInv, WriteEnds
  <2>4. CASE job.end # "put"
    <3>1. pass.at = "saving"
      BY <2>1, <2>4 DEF KeyInv
    <3>2. pass'.at \in {"asking", "idle"}
      BY <2>1, <2>4 DEF WriteEnds, IdlePass, StoreInv, PassShape
    <3>3. QED
      BY <2>1, <2>2, <3>1, <3>2 DEF KeyInv
  <2>5. QED
    BY <2>3, <2>4
<1>4. CASE SaveMainFails
  <2>1. job'.stage = "none" /\ synced' = synced /\ pass' \in {pass, IdlePass}
    BY <1>4 DEF SaveMainFails, WriteEnds, NoJob, Job
  <2>2. UNCHANGED <<rejections, key, files>>
    BY <1>4 DEF SaveMainFails, server
  <2>3. QED
    BY <2>1, <2>2 DEF KeyInv, IdlePass
<1>5. CASE Truncate
  <2>1. job'.stage = "none" /\ files'.key = files.key
    BY <1>5 DEF Truncate, StoreInv, Jobs, WithLog
  <2>2. UNCHANGED <<rejections, key, pass, synced>>
    BY <1>5 DEF Truncate, server
  <2>3. QED
    BY <2>1, <2>2 DEF KeyInv
<1>6. QED
  BY <1>1, <1>2, <1>3, <1>4, <1>5 DEF WriteStep

(* Everybody else: a key of memory may get on file, and come back from it. *)
LEMMA OthersKeepKeys ==
    ASSUME StoreInv, KeyInv,
           \/ Compact \/ MailSave \/ BackoffEnds \/ Restart \/ RestartWithoutJournal
           \/ \E id \in IDs, v \in Entries : ServerChanges(id, v) \/ PutLooks(id, v)
           \/ ServerRepeats \/ PutRefused \/ PutAccepted \/ PutSaves
    PROVE  KeyInv'
<1>1. CASE Compact
  <2>1. job'.stage = "truncate" /\ files'.key = files.key
    BY <1>1 DEF Compact, StoreInv, Jobs, WithSnap
  <2>2. UNCHANGED <<rejections, key, pass, synced>>
    BY <1>1 DEF Compact, server
  <2>3. QED
    BY <2>1, <2>2 DEF KeyInv
<1>2. CASE MailSave
  BY <1>2 DEF MailSave, WithKey, server, KeyInv
<1>3. CASE BackoffEnds
  BY <1>3 DEF BackoffEnds, server, KeyInv
<1>4. CASE Restart \/ RestartWithoutJournal
  <2>1. files'.key = files.key /\ key' = files.key
    BY <1>4 DEF Restart, RestartWithoutJournal, WithLog
  <2>2. job'.stage = "none" /\ pass'.at = "idle"
    <3>1. job' = NoJob("none") /\ pass' = IdlePass
      BY <1>4 DEF Restart, RestartWithoutJournal
    <3>2. QED
      BY <3>1 DEF NoJob, Job, IdlePass
  <2>3. UNCHANGED <<rejections, synced>>
    BY <1>4 DEF Restart, RestartWithoutJournal, server
  <2>4. QED
    BY <2>1, <2>2, <2>3 DEF KeyInv
<1>5. CASE \/ \E id \in IDs, v \in Entries : ServerChanges(id, v) \/ PutLooks(id, v)
           \/ ServerRepeats \/ PutRefused
  <2>1. UNCHANGED <<rejections, key, job, pass, files, synced>>
    BY <1>5 DEF ServerChanges, PutLooks, ServerRepeats, PutRefused, server
  <2>2. QED
    BY <2>1 DEF KeyInv
<1>6. CASE PutAccepted
  BY <1>6 DEF PutAccepted, KeyInv, NoKey
<1>7. CASE PutSaves
  <2>1. job'.end = "put"
    BY <1>7 DEF PutSaves, Job
  <2>2. UNCHANGED <<rejections, key, pass, files, synced>>
    BY <1>7 DEF PutSaves, server
  <2>3. QED
    BY <2>1, <2>2 DEF KeyInv
<1>8. QED
  BY <1>1, <1>2, <1>3, <1>4, <1>5, <1>6, <1>7

(* So every step does.                                                     *)
LEMMA StepKeys ==
    ASSUME StoreInv, KeyInv, [Next]_vars
    PROVE  KeyInv'
<1>1. CASE UNCHANGED vars
  BY <1>1 DEF vars, server, KeyInv
<1>2. CASE Next
  BY <1>2, PullKeepsKeys, WritesKeepKeys, OthersKeepKeys DEF Next
<1>3. QED
  BY <1>1, <1>2

(* caldavd.go 145-147: once a pass has ended well CalDAV has a calendar to *)
(* serve for good, over crashes, torn lines and failing writes, unless the *)
(* server rejects a key.                                                   *)
THEOREM ServedForGood == Spec => []SyncedStaysServed
<1>1. StoreInv /\ KeyInv /\ [Next]_vars => StoreInv' /\ KeyInv'
  BY StoreStep, StepKeys
<1>2. KeyInv => SyncedStaysServed
  BY DEF KeyInv, SyncedStaysServed, Usable
<1>3. QED
  BY <1>1, <1>2, InitInv, InitKeys, PTL DEF Spec

-----------------------------------------------------------------------------
(* The types and bounds.                                                   *)

(* What TypeOK asks for beyond StoreInv: the bounds.  A pass that is not   *)
(* at its end has room for a page, and its batch is with the write when    *)
(* it waits for that.                                                      *)
Bounded ==
    /\ Len(hist) <= MaxChanges
    /\ floor \in 0 .. MaxChanges /\ rejections \in 0 .. MaxRejections
    /\ key \in NoKey .. MaxChanges /\ files.key \in NoKey .. MaxChanges
    /\ backoff \in BOOLEAN /\ synced \in BOOLEAN

Roomy(p) == p.idle < MaxNoProgress /\ p.count < MaxPages

PassBounds ==
    /\ pass.idle \in 0 .. MaxNoProgress /\ pass.count \in 0 .. MaxPages
    /\ pass.at # "saving" \/ job.end = "more" => Roomy(pass)
    /\ pass.at \in {"idle", "saving"} => pass.pending = Nothing
    /\ pass.at = "saving" => job.stage \in {"append", "main"} /\ job.end # "put"

(* Before a pass and after one there is room.                              *)
LEMMA IdleBounds ==
    ASSUME pass' = IdlePass
    PROVE  PassBounds'
  BY BoundsAssumption DEF IdlePass, PassBounds, Roomy

(* A reply, and the pass that goes on to its page.                         *)
LEMMA PullBounds ==
    ASSUME StoreInv, Bounded, PassBounds,
           StartPass \/ PullPage \/ PullNothing \/ PullNothingAgain \/ PageError
    PROVE  Bounded' /\ PassBounds'
<1>1. CASE PageError
  <2>1. pass' = IdlePass /\ UNCHANGED <<hist, floor, rejections, key, files, backoff, synced>>
    BY <1>1 DEF PageError, server
  <2>2. QED
    BY <2>1, IdleBounds DEF Bounded
<1>2. CASE StartPass \/ PullPage \/ PullNothing \/ PullNothingAgain
  <2>1. /\ UNCHANGED <<hist, floor, rejections, files, job, backoff, synced>>
        /\ pass.at \in {"idle", "asking", "again"}
    BY <1>2 DEF StartPass, PullPage, PullNothing, PullNothingAgain, server
  <2>2. /\ pass'.at \in {"asking", "again", "got"}
        /\ pass'.idle = pass.idle /\ pass'.count = pass.count /\ pass'.pending = pass.pending
    BY <1>2 DEF StartPass, PullPage, PullNothing, PullNothingAgain, StoreInv, PassShape
  <2>3. key' \in NoKey .. MaxChanges
    <3>1. CASE PullPage
      <4>1. Coming(key) \in SUBSET Nat /\ Coming(key) # {} /\ Coming(key) \subseteq 1 .. Len(hist)
        BY <3>1 DEF PullPage, Coming
      <4>2. key' \in 1 .. Len(hist)
        BY <3>1, <4>1, SmallestPosition DEF PullPage
      <4>3. QED
        BY <4>2, BoundsAssumption DEF Bounded, NoKey, StoreInv
    <3>2. CASE StartPass \/ PullNothing \/ PullNothingAgain
      BY <3>2, BoundsAssumption DEF StartPass, PullNothing, PullNothingAgain, Bounded, NoKey
    <3>3. QED
      BY <1>2, <3>1, <3>2
  <2>4. QED
    BY <2>1, <2>2, <2>3 DEF Bounded, PassBounds, Roomy
<1>3. QED
  BY <1>1, <1>2

(* Status 3 and 5.                                                         *)
LEMMA RejectBounds ==
    ASSUME StoreInv, Bounded, PassBounds, PullStatus3 \/ PullStatus5
    PROVE  Bounded' /\ PassBounds'
<1>1. /\ Reject /\ pass.at = "asking" /\ UNCHANGED <<hist, job, backoff, synced>>
      /\ key' \in {0, key, NoKey} /\ floor' \in {floor, Len(hist)}
  BY DEF PullStatus3, PullStatus5, Reject
<1>2. floor' \in 0 .. MaxChanges /\ rejections' \in 0 .. MaxRejections
  BY <1>1, BoundsAssumption DEF Reject, Bounded, StoreInv
<1>3. files'.key \in {files.key, NoKey}
  BY DEF PullStatus3, PullStatus5, WithKey
<1>4. Bounded'
  BY <1>1, <1>2, <1>3, BoundsAssumption DEF Bounded, NoKey
<1>5. \/ pass' = IdlePass
      \/ /\ pass'.at \in {"asking", "again"}
         /\ \/ pass'.idle = pass.idle /\ pass'.count = pass.count
            \/ pass'.idle = 0 /\ pass'.count = 0
  BY DEF PullStatus3, PullStatus5, StoreInv, PassShape, IdlePass
<1>6. PassBounds'
  <2>1. CASE pass' = IdlePass
    BY <2>1, IdleBounds
  <2>2. CASE pass' # IdlePass
    BY <1>1, <1>5, <2>2, BoundsAssumption DEF PassBounds, Roomy
  <2>3. QED
    BY <2>1, <2>2
<1>7. QED
  BY <1>4, <1>6

(* A page is counted; the pass goes on only where there is room for more.  *)
LEMMA ApplyBounds ==
    ASSUME StoreInv, Bounded, PassBounds, ApplyPage
    PROVE  Bounded' /\ PassBounds'
<1> DEFINE p == pass.page
           changed == p.id \in IDs /\ mem[p.id] # p.val
           pending == IF changed THEN Over(One(p.id, p.val), pass.pending) ELSE pass.pending
           idle == IF changed THEN 0 ELSE pass.idle + 1
           end == IF ~pass.more THEN "last"
                  ELSE IF idle >= MaxNoProgress THEN "stalled"
                  ELSE IF pass.count + 1 = MaxPages THEN "limit" ELSE "more"
           next == [pass EXCEPT !.page = NoPage, !.more = FALSE, !.idle = idle,
                                !.progress = @ \/ changed, !.count = @ + 1]
<1>1. Free /\ pass.at = "got" /\ UNCHANGED <<hist, floor, rejections, key, files, backoff, synced>>
  BY DEF ApplyPage, server
<1>2. Bounded'
  BY <1>1 DEF Bounded
<1>3. Roomy(pass) /\ pass.idle \in Nat /\ pass.count \in Nat
  BY <1>1 DEF PassBounds
<1>4. idle \in 0 .. MaxNoProgress /\ pass.count + 1 \in 0 .. MaxPages
  BY <1>3, BoundsAssumption DEF Roomy
<1>5. end = "more" => idle < MaxNoProgress /\ pass.count + 1 < MaxPages
  BY <1>3, <1>4, BoundsAssumption DEF Roomy
<1>6. next.idle = idle /\ next.count = pass.count + 1 /\ next.at = "got" /\ next \in [DOMAIN pass -> {next[f] : f \in DOMAIN pass}]
  BY <1>1 DEF StoreInv, PassShape
<1>7. IF end # "more" \/ (pass.count + 1) % PagesPerSave = 0
      THEN SaveBatch(next, pending, end)
      ELSE /\ pass' = [next EXCEPT !.at = "asking", !.pending = pending]
           /\ UNCHANGED job
  BY DEF ApplyPage
<1>8. end # "put"
  OBVIOUS
<1>9. DOMAIN next = {"at", "page", "more", "pending", "retried", "idle", "progress", "count"}
  BY DEF StoreInv, PassShape
<1> HIDE DEF pending, end, next, idle
<1>10. CASE SaveBatch(next, pending, end)
  <2>1. /\ pass'.at = "saving" /\ pass'.pending = Nothing
        /\ pass'.idle = idle /\ pass'.count = pass.count + 1
    BY <1>6, <1>9, <1>10 DEF SaveBatch
  <2>2. job'.stage = "append" /\ job'.end = end
    BY <1>10 DEF SaveBatch, Job
  <2>3. QED
    BY <1>2, <1>4, <1>5, <1>8, <2>1, <2>2 DEF PassBounds, Roomy
<1>11. CASE ~SaveBatch(next, pending, end)
  <2>1. pass' = [next EXCEPT !.at = "asking", !.pending = pending] /\ end = "more"
    BY <1>7, <1>11
  <2>2. pass'.at = "asking" /\ pass'.idle = idle /\ pass'.count = pass.count + 1
    BY <1>6, <1>9, <2>1
  <2>3. QED
    BY <1>2, <1>4, <1>5, <2>1, <2>2 DEF PassBounds, Roomy
<1>12. QED
  BY <1>10, <1>11

(* The write goes on or ends.                                              *)
LEMMA WriteBounds ==
    ASSUME StoreInv, Bounded, PassBounds, WriteStep
    PROVE  Bounded' /\ PassBounds'
<1>1. UNCHANGED <<hist, floor, rejections, key>> /\ files'.key \in {files.key, key}
  BY DEF WriteStep, AppendBatch, AppendFails, SaveMain, SaveMainFails, Truncate, server,
         Appended, WithLog, WithKey
<1>2. CASE AppendBatch \/ Truncate
  <2>1. /\ UNCHANGED <<pass, backoff, synced>> /\ job'.end = job.end
        /\ job'.stage = (IF job.stage = "append" THEN "main" ELSE "none")
        /\ job.stage \in {"append", "truncate"}
    BY <1>2 DEF AppendBatch, Truncate, StoreInv, Jobs
  <2>2. QED
    BY <1>1, <2>1 DEF Bounded, PassBounds
<1>3. ASSUME NEW report \in {"saved", "failed"}, job.stage \in {"append", "main"}, WriteEnds(report)
      PROVE  Bounded' /\ PassBounds'
  <2>1. backoff' \in BOOLEAN /\ synced' \in BOOLEAN
    <3>1. pass.progress \in BOOLEAN
      BY DEF StoreInv, PassShape
    <3>2. QED
      BY <1>3, <3>1 DEF WriteEnds, Bounded
  <2>2. CASE job.end = "put"
    <3>1. pass' = pass
      BY <1>3, <2>2 DEF WriteEnds
    <3>2. QED
      BY <1>1, <2>1, <2>2, <3>1 DEF Bounded, PassBounds
  <2>3. CASE job.end # "put"
    <3>1. pass' = IdlePass \/ (job.end = "more" /\ pass' = [pass EXCEPT !.at = "asking"])
      BY <1>3, <2>3 DEF WriteEnds
    <3>2. CASE pass' = IdlePass
      BY <1>1, <2>1, <3>2, IdleBounds DEF Bounded
    <3>3. CASE job.end = "more" /\ pass' = [pass EXCEPT !.at = "asking"]
      <4>1. pass'.at = "asking" /\ pass'.idle = pass.idle /\ pass'.count = pass.count
        BY <3>3 DEF StoreInv, PassShape
      <4>2. QED
        BY <1>1, <2>1, <3>3, <4>1 DEF Bounded, PassBounds, Roomy
    <3>4. QED
      BY <3>1, <3>2, <3>3
  <2>4. QED
    BY <2>2, <2>3
<1>4. QED
  BY <1>2, <1>3 DEF WriteStep, AppendFails, SaveMain, SaveMainFails

(* Everybody else.                                                         *)
LEMMA OutsideBounds ==
    ASSUME StoreInv, Bounded, PassBounds,
           \/ Compact \/ MailSave \/ BackoffEnds \/ Restart \/ RestartWithoutJournal
           \/ \E id \in IDs, v \in Entries : ServerChanges(id, v) \/ PutLooks(id, v)
           \/ ServerRepeats \/ PutRefused \/ PutAccepted \/ PutSaves
    PROVE  Bounded' /\ PassBounds'
<1>1. CASE Compact
  <2>1. job'.stage = "truncate" /\ files'.key = files.key /\ Free
    BY <1>1 DEF Compact, StoreInv, Jobs, WithSnap
  <2>2. UNCHANGED <<hist, floor, rejections, key, pass, backoff, synced>>
    BY <1>1 DEF Compact, server
  <2>3. QED
    BY <2>1, <2>2 DEF Bounded, PassBounds, Free
<1>2. CASE MailSave \/ BackoffEnds
  <2>1. UNCHANGED <<hist, floor, rejections, key, pass, job, synced>> /\ files'.key \in {files.key, key}
    BY <1>2 DEF MailSave, BackoffEnds, WithKey, server
  <2>2. backoff' \in BOOLEAN
    BY <1>2 DEF MailSave, BackoffEnds, Bounded
  <2>3. QED
    BY <2>1, <2>2 DEF Bounded, PassBounds
<1>3. CASE Restart \/ RestartWithoutJournal
  <2>1. files'.key = files.key /\ key' = files.key
    BY <1>3 DEF Restart, RestartWithoutJournal, WithLog
  <2>2. pass' = IdlePass /\ backoff' = FALSE /\ UNCHANGED <<hist, floor, rejections, synced>>
    BY <1>3 DEF Restart, RestartWithoutJournal, server
  <2>3. QED
    BY <2>1, <2>2, IdleBounds DEF Bounded
<1>4. CASE (\E id \in IDs, v \in Entries : PutLooks(id, v)) \/ PutRefused
  BY <1>4 DEF PutLooks, PutRefused, server, Bounded, PassBounds
<1>5. CASE (\E id \in IDs, v \in Entries : ServerChanges(id, v)) \/ ServerRepeats \/ PutAccepted
  <2>1. Len(hist) < MaxChanges /\ \E c : hist' = Append(hist, c)
    BY <1>5 DEF ServerChanges, ServerRepeats, PutAccepted, Possible
  <2>2. Len(hist') = Len(hist) + 1 /\ Len(hist) \in Nat
    BY <2>1 DEF StoreInv
  <2>3. UNCHANGED <<floor, rejections, files, job, pass, backoff, synced>> /\ key' \in {key, 0}
    BY <1>5 DEF ServerChanges, ServerRepeats, PutAccepted
  <2>4. QED
    BY <2>1, <2>2, <2>3, BoundsAssumption DEF Bounded, PassBounds, NoKey
<1>6. CASE PutSaves
  <2>1. Free /\ UNCHANGED <<hist, floor, rejections, key, files, pass, backoff, synced>>
    BY <1>6 DEF PutSaves, server
  <2>2. QED
    BY <2>1 DEF Bounded, PassBounds, Free
<1>7. QED
  BY <1>1, <1>2, <1>3, <1>4, <1>5, <1>6

(* They hold in the empty store.                                           *)
LEMMA InitBounds == Init => Bounded /\ PassBounds
<1> SUFFICES ASSUME Init PROVE Bounded /\ PassBounds
  OBVIOUS
<1>1. PassBounds
  BY BoundsAssumption DEF Init, IdlePass, PassBounds, Roomy
<1>2. Len(hist) = 0 /\ floor = 0 /\ rejections = 0
  BY DEF Init
<1>3. key = NoKey /\ files.key = NoKey /\ NoKey \in NoKey .. MaxChanges
  BY BoundsAssumption DEF Init, NoKey
<1>4. backoff \in BOOLEAN /\ synced \in BOOLEAN
  BY DEF Init
<1>5. QED
  BY <1>1, <1>2, <1>3, <1>4, BoundsAssumption DEF Bounded

(* And every step keeps them.                                              *)
LEMMA StepBounds ==
    ASSUME StoreInv, Bounded, PassBounds, [Next]_vars
    PROVE  Bounded' /\ PassBounds'
<1>1. CASE UNCHANGED vars
  BY <1>1 DEF vars, server, Bounded, PassBounds
<1>2. CASE Next
  BY <1>2, PullBounds, RejectBounds, ApplyBounds, WriteBounds, OutsideBounds DEF Next, PassStep
<1>3. QED
  BY <1>1, <1>2

(* state.go 651-905, sync.go 587-751: the types, and what a pass that      *)
(* waits for its write leaves to it.                                       *)
THEOREM StoreTypes == Spec => []TypeOK
<1>1. StoreInv /\ Bounded /\ PassBounds /\ [Next]_vars => StoreInv' /\ Bounded' /\ PassBounds'
  BY StoreStep, StepBounds
<1>2. StoreInv /\ Bounded /\ PassBounds => TypeOK
  <2> SUFFICES ASSUME StoreInv, Bounded, PassBounds PROVE TypeOK
    OBVIOUS
  <2>1. files \in Files
    BY DEF StoreInv, Whole, Files, Bounded
  <2>2. pass \in Passes
    BY DEF StoreInv, PassShape, Passes, PassBounds
  <2>3. QED
    BY <2>1, <2>2 DEF StoreInv, Jobs, PutShape, Bounded, PassBounds, TypeOK
<1>3. QED
  BY <1>1, <1>2, InitInv, InitBounds, PTL DEF Spec

-----------------------------------------------------------------------------
(* What the key in memory stands for.                                      *)

(* Positions up to n that are not none have a largest.                     *)
LEMMA LargestPosition ==
    ASSUME NEW n \in Nat, NEW S \in SUBSET (1 .. n), S # {}
    PROVE  Max(S) \in S /\ \A y \in S : y =< Max(S)
<1> DEFINE U == {u \in Nat : \A y \in S : y =< u}
<1>0. \A y \in S : y \in Nat /\ y > 0 /\ y =< n
  OBVIOUS
<1>1. n \in U
  BY <1>0
<1>2. Min(U) \in U /\ \A u \in U : Min(U) =< u
  <2> U \in SUBSET Nat /\ U # {}
    BY <1>1
  <2> HIDE DEF U
  <2>1. QED
    BY SmallestPosition
<1>3. PICK x \in U : \A u \in U : x =< u
  BY <1>2
<1>4. x \in S
  <2> SUFFICES ASSUME x \notin S PROVE FALSE
    OBVIOUS
  <2>0. PICK z \in S : z \in Nat /\ z > 0
    BY <1>0
  <2>1. x - 1 \in Nat /\ \A y \in S : y =< x - 1
    <3>1. \A y \in S : y \in Nat /\ y =< x /\ y # x
      OBVIOUS
    <3>2. x \in Nat /\ z =< x
      BY <3>1
    <3>3. QED
      BY <2>0, <3>1, <3>2
  <2>2. x - 1 \in U
    BY <2>1
  <2>3. QED
    BY <1>3, <2>2
<1>5. \E z \in S : \A y \in S : z >= y
  BY <1>4
<1>6. Max(S) \in S /\ \A y \in S : Max(S) >= y
  BY <1>5 DEF Max
<1>7. QED
  BY <1>6

(* Last(id, n) is the last of the positions up to n that changed id.       *)
LEMMA LastIs ==
    ASSUME NEW id, NEW n \in Nat
    PROVE  /\ Last(id, n) \in Nat
           /\ Last(id, n) # 0 => Last(id, n) \in 1 .. n /\ hist[Last(id, n)].id = id
           /\ \A j \in 1 .. n : hist[j].id = id => Last(id, n) # 0 /\ j =< Last(id, n)
<1> DEFINE S == {i \in 1 .. n : hist[i].id = id}
<1>1. CASE S = {}
  BY <1>1 DEF Last
<1>2. CASE S # {}
  <2>1. S \in SUBSET (1 .. n) /\ Last(id, n) = Max(S)
    BY <1>2 DEF Last
  <2>2. Max(S) \in S /\ \A y \in S : y =< Max(S)
    <3> HIDE DEF S
    <3>1. QED
      BY <1>2, <2>1, LargestPosition
  <2>3. QED
    BY <2>1, <2>2
<1>3. QED
  BY <1>1, <1>2

(* A server that has made one more change has sent the older ones as it    *)
(* would have before.                                                      *)
LEMMA LaterChange ==
    ASSUME hist \in Seq(Changes), NEW c \in Changes, hist' = Append(hist, c),
           floor \in 0 .. Len(hist), floor' = floor
    PROVE  /\ Len(hist') = Len(hist) + 1 /\ hist'[Len(hist) + 1] = c
           /\ \A j \in 1 .. Len(hist) : hist'[j] = hist[j]
           /\ \A id \in IDs : c.id # id => Last(id, Len(hist))' = Last(id, Len(hist))
           /\ \A i \in 1 .. Len(hist) : Sent(i)' <=> Sent(i)
           /\ Others' \subseteq Others
<1>1. /\ Len(hist') = Len(hist) + 1 /\ hist'[Len(hist) + 1] = c /\ Len(hist) \in Nat
      /\ \A j \in 1 .. Len(hist) : hist'[j] = hist[j]
  OBVIOUS
<1>2. ASSUME NEW id \in IDs, c.id # id
      PROVE  Last(id, Len(hist))' = Last(id, Len(hist))
  <2>1. {i \in 1 .. Len(hist') : hist'[i].id = id} = {i \in 1 .. Len(hist) : hist[i].id = id}
    BY <1>1, <1>2
  <2>2. QED
    BY <2>1 DEF Last
<1>3. ASSUME NEW i \in 1 .. Len(hist) PROVE Sent(i)' <=> Sent(i)
  <2>1. {j \in 1 .. floor' : hist'[j].id = hist'[i].id} = {j \in 1 .. floor : hist[j].id = hist[i].id}
    BY <1>1
  <2>2. Last(hist[i].id, floor)' = Last(hist[i].id, floor)
    BY <1>1, <2>1 DEF Last
  <2>3. QED
    BY <1>1, <2>2 DEF Sent
<1>4. Others' \subseteq Others
  BY <1>1 DEF Others
<1>5. QED
  BY <1>1, <1>2, <1>3, <1>4

(* The page a pass has is the change its key stands for, and CalDAV writes *)
(* what the server has from this device.                                   *)
MissInv ==
    /\ key =< Len(hist) /\ floor \in 0 .. Len(hist)
    /\ pass.at = "got" /\ pass.page.id \in IDs => key \in 1 .. Len(hist) /\ pass.page = hist[key]
    /\ put.at = "accepted" => put.id \notin Others
    /\ NothingIsMissed

(* Where history, key and memory stay and no page is lost.                 *)
LEMMA QuietMissesNothing ==
    ASSUME MissInv, UNCHANGED <<hist, floor, key, mem>>,
           pass.at = "got" => pass'.at = "got" /\ pass'.page = pass.page,
           pass'.at = "got" => pass.at = "got" \/ pass'.page.id \notin IDs,
           put'.at = "accepted" => put' = put
    PROVE  MissInv'
<1>1. Others' = Others
  BY DEF Others
<1>2. ASSUME NEW id \in Others
      PROVE  Last(id, Len(hist))' = Last(id, Len(hist)) /\ (Sent(Last(id, Len(hist)))' <=> Sent(Last(id, Len(hist))))
  BY DEF Last, Sent
<1>3. NothingIsMissed'
  <2> SUFFICES ASSUME NEW id \in Others,
                      Last(id, Len(hist))' \in 1 .. key',
                      mem'[id] # hist'[Last(id, Len(hist))'].val,
                      Sent(Last(id, Len(hist)))'
               PROVE  pass'.at = "got" /\ pass'.page.id = id
    BY <1>1 DEF NothingIsMissed
  <2>1. pass.at = "got" /\ pass.page.id = id
    BY <1>2 DEF MissInv, NothingIsMissed
  <2>2. QED
    BY <2>1
<1>4. QED
  BY <1>1, <1>3 DEF MissInv

(* Where there is hardly a key there is nothing to miss.                   *)
LEMMA NoKeyMissesNothing ==
    ASSUME key' \in Int, key' =< 0
    PROVE  NothingIsMissed'
  BY DEF NothingIsMissed

(* Somebody, or CalDAV, changes the calendar, or the server repeats itself.*)
LEMMA GrowthMissesNothing ==
    ASSUME StoreInv, MissInv, NEW c \in Changes, hist' = Append(hist, c),
           UNCHANGED <<floor, mem, pass>>, key' = key \/ (key = NoKey /\ key' = 0),
           put' = put \/ put'.at # "accepted" \/ (c.own /\ c.id = put'.id)
    PROVE  MissInv'
<1>1. /\ Len(hist') = Len(hist) + 1 /\ hist'[Len(hist) + 1] = c
      /\ \A j \in 1 .. Len(hist) : hist'[j] = hist[j]
      /\ \A id \in IDs : c.id # id => Last(id, Len(hist))' = Last(id, Len(hist))
      /\ \A i \in 1 .. Len(hist) : Sent(i)' <=> Sent(i)
      /\ Others' \subseteq Others
  BY LaterChange DEF StoreInv, MissInv
<1>2. key \in Int /\ key' \in Int /\ Len(hist) \in Nat /\ key' =< Len(hist) /\ NoKey \in Int
      /\ (key' # key => key' = 0) /\ NoKey < 1
  BY DEF StoreInv, MissInv, NoKey
<1>3. put'.at = "accepted" => put'.id \notin Others'
  <2>1. CASE put' = put
    BY <1>1, <2>1 DEF MissInv
  <2>2. CASE c.own /\ c.id = put'.id
    BY <1>1, <1>2, <2>2 DEF Others
  <2>3. QED
    BY <2>1, <2>2
<1>4. NothingIsMissed'
  <2> SUFFICES ASSUME NEW id \in Others',
                      Last(id, Len(hist))' \in 1 .. key',
                      mem'[id] # hist'[Last(id, Len(hist))'].val,
                      Sent(Last(id, Len(hist)))'
               PROVE  pass'.at = "got" /\ pass'.page.id = id
    BY DEF NothingIsMissed
  <2>1. id \in Others /\ id \in IDs
    BY <1>1 DEF Others
  <2>2. key' = key
    BY <1>2
  <2>3. Last(id, Len(hist))' \in 1 .. Len(hist)
    BY <1>2
  <2>4. c.id # id
    <3> SUFFICES ASSUME c.id = id PROVE FALSE
      OBVIOUS
    <3>1. \A j \in 1 .. Len(hist') : hist'[j].id = id => j =< Last(id, Len(hist))'
      <4>1. Len(hist') \in Nat
        BY <1>1, <1>2
      <4>2. {i \in 1 .. Len(hist') : hist'[i].id = id} \in SUBSET (1 .. Len(hist'))
        OBVIOUS
      <4>3. QED
        BY <1>1, <1>2, <4>1, <4>2, LargestPosition DEF Last
    <3>2. QED
      BY <1>1, <1>2, <2>3, <3>1
  <2>5. Last(id, Len(hist))' = Last(id, Len(hist))
    BY <1>1, <2>1, <2>4
  <2> DEFINE i == Last(id, Len(hist))
  <2>6. i \in 1 .. Len(hist) /\ hist'[i] = hist[i]
    BY <1>1, <2>3, <2>5
  <2>7. i \in 1 .. key /\ mem[id] # hist[i].val /\ Sent(i)
    BY <1>1, <2>2, <2>5, <2>6
  <2>8. QED
    BY <2>1, <2>7 DEF MissInv, NothingIsMissed
<1>5. pass'.at = "got" /\ pass'.page.id \in IDs => key' \in 1 .. Len(hist') /\ pass'.page = hist'[key']
  <2> SUFFICES ASSUME pass.at = "got", pass.page.id \in IDs
               PROVE  key' \in 1 .. Len(hist') /\ pass.page = hist'[key']
    OBVIOUS
  <2>1. key \in 1 .. Len(hist) /\ pass.page = hist[key]
    BY DEF MissInv
  <2>2. QED
    BY <1>1, <1>2, <2>1
<1>6. QED
  BY <1>1, <1>2, <1>3, <1>4, <1>5 DEF MissInv

(* The next page is the first the key has not passed, so the key passes    *)
(* nothing else.                                                           *)
LEMMA PullMissesNothing ==
    ASSUME StoreInv, MissInv, PullPage
    PROVE  MissInv'
<1>1. /\ pass.at # "got" /\ key' = Min(Coming(key))
      /\ UNCHANGED <<hist, floor, mem, put>>
  BY DEF PullPage, server
<1>2. pass'.at = "got" /\ pass'.page = hist[key']
  BY DEF PullPage, StoreInv, PassShape
<1>3. Coming(key) \in SUBSET Nat /\ Coming(key) # {} /\ Coming(key) \subseteq 1 .. Len(hist)
  BY DEF PullPage, Coming
<1>4. key' \in Coming(key) /\ \A j \in Coming(key) : key' =< j
  BY <1>1, <1>3, SmallestPosition
<1>5. key \in Int /\ key' \in 1 .. Len(hist)
  BY <1>3, <1>4 DEF StoreInv
<1>6. Others' = Others
  BY <1>1 DEF Others
<1>7. ASSUME NEW id \in Others
      PROVE  Last(id, Len(hist))' = Last(id, Len(hist)) /\ (Sent(Last(id, Len(hist)))' <=> Sent(Last(id, Len(hist))))
  BY <1>1 DEF Last, Sent
<1>8. NothingIsMissed'
  <2> SUFFICES ASSUME NEW id \in Others,
                      Last(id, Len(hist))' \in 1 .. key',
                      mem'[id] # hist'[Last(id, Len(hist))'].val,
                      Sent(Last(id, Len(hist)))'
               PROVE  pass'.at = "got" /\ pass'.page.id = id
    BY <1>6 DEF NothingIsMissed
  <2> DEFINE i == Last(id, Len(hist))
  <2>1. i \in 1 .. key' /\ mem[id] # hist[i].val /\ Sent(i)
    BY <1>1, <1>7
  <2>2. ~(i \in 1 .. key)
    BY <1>1, <2>1 DEF MissInv, NothingIsMissed
  <2>3. i \in Nat /\ i >= 1 /\ i =< key' /\ i > key
    <3> HIDE DEF i
    <3>1. QED
      BY <1>5, <2>1, <2>2
  <2>4. i \in Coming(key)
    <3>1. i \in 1 .. Len(hist)
      BY <1>5, <2>3
    <3>2. QED
      BY <2>1, <2>3, <3>1 DEF Coming
  <2>5. i = key'
    <3> HIDE DEF i
    <3>1. QED
      BY <1>4, <1>5, <2>3, <2>4
  <2>6. hist[i].id = id
    <3>1. Len(hist) \in Nat
      BY DEF StoreInv
    <3>2. QED
      BY <2>3, <3>1, LastIs
  <2>7. QED
    BY <1>2, <2>5, <2>6
<1>9. QED
  BY <1>1, <1>2, <1>5, <1>6, <1>8 DEF MissInv, StoreInv

(* A page that is the last change of its ServerID up to the key is all     *)
(* there is to have of it; the other ServerIDs stay.                       *)
LEMMA ApplyMissesNothing ==
    ASSUME StoreInv, MissInv, ApplyPage
    PROVE  MissInv'
<1> DEFINE p == pass.page
           changed == p.id \in IDs /\ mem[p.id] # p.val
<1>1. pass.at = "got" /\ UNCHANGED <<hist, floor, key, put>>
      /\ mem' = IF changed THEN [mem EXCEPT ![p.id] = p.val] ELSE mem
  BY DEF ApplyPage, server
<1>2. pass'.at # "got"
  <2>1. pass'.at \in {"saving", "asking"}
    BY DEF ApplyPage, SaveBatch, StoreInv, PassShape
  <2>2. QED
    BY <2>1
<1>3. mem \in [IDs -> Entries] /\ p.id \in IDs => mem'[p.id] = p.val
  BY <1>1
<1>4. \A id \in IDs : id # p.id => mem'[id] = mem[id]
  BY <1>1 DEF StoreInv
<1>5. Others' = Others
  BY <1>1 DEF Others
<1>6. ASSUME NEW id \in Others
      PROVE  Last(id, Len(hist))' = Last(id, Len(hist)) /\ (Sent(Last(id, Len(hist)))' <=> Sent(Last(id, Len(hist))))
  BY <1>1 DEF Last, Sent
<1>7. NothingIsMissed'
  <2> SUFFICES ASSUME NEW id \in Others,
                      Last(id, Len(hist))' \in 1 .. key',
                      mem'[id] # hist'[Last(id, Len(hist))'].val,
                      Sent(Last(id, Len(hist)))'
               PROVE  FALSE
    BY <1>5 DEF NothingIsMissed
  <2> DEFINE i == Last(id, Len(hist))
  <2>0. id \in IDs
    BY DEF Others
  <2>1. i \in 1 .. key /\ mem'[id] # hist[i].val /\ Sent(i)
    BY <1>1, <1>6
  <2>2. CASE id # p.id
    BY <1>4, <2>0, <2>1, <2>2 DEF MissInv, NothingIsMissed
  <2>3. CASE id = p.id
    <3>1. key \in 1 .. Len(hist) /\ p = hist[key] /\ Len(hist) \in Nat
      BY <1>1, <2>0, <2>3 DEF MissInv, StoreInv
    <3>2. i \in Nat /\ key =< i
      BY <2>3, <3>1, LastIs
    <3>3. i = key
      <4> HIDE DEF i
      <4>1. QED
        BY <2>1, <3>1, <3>2
    <3>4. QED
      BY <1>3, <2>0, <2>1, <2>3, <3>1, <3>3 DEF StoreInv
  <2>4. QED
    BY <2>2, <2>3
<1>8. QED
  BY <1>1, <1>2, <1>5, <1>7 DEF MissInv

(* The rest of a pass.                                                     *)
LEMMA PassMissesNothing ==
    ASSUME StoreInv, MissInv, PassStep
    PROVE  MissInv'
<1>1. CASE StartPass
  BY <1>1, QuietMissesNothing DEF StartPass, server, StoreInv, PassShape
<1>2. CASE PullNothing
  <2>1. pass.at = "asking" /\ pass'.at = "again" /\ UNCHANGED <<hist, floor, mem, put>>
    BY <1>2 DEF PullNothing, server, StoreInv, PassShape
  <2>2. CASE key = NoKey
    <3>1. key' = 0
      BY <1>2, <2>2 DEF PullNothing
    <3>2. QED
      BY <2>1, <3>1, NoKeyMissesNothing DEF MissInv, StoreInv, Others
  <2>3. CASE key # NoKey
    <3>1. key' = key
      BY <1>2, <2>3 DEF PullNothing
    <3>2. QED
      BY <2>1, <3>1, QuietMissesNothing
  <2>4. QED
    BY <2>2, <2>3
<1>3. CASE PullNothingAgain
  <2>1. pass.at = "again" /\ pass'.page = NoPage /\ UNCHANGED <<hist, floor, key, mem, put>>
    BY <1>3 DEF PullNothingAgain, server, StoreInv, PassShape
  <2>2. pass'.page.id \notin IDs
    BY <2>1, AbsentAssumption DEF NoPage
  <2>3. QED
    BY <2>1, <2>2, QuietMissesNothing
<1>4. CASE PageError
  BY <1>4, QuietMissesNothing DEF PageError, server, IdlePass
<1>5. CASE PullStatus5 /\ pass.retried
  BY <1>5, QuietMissesNothing DEF PullStatus5, Reject, IdlePass
<1>6. CASE PullStatus3 \/ (PullStatus5 /\ ~pass.retried)
  <2>1. /\ key' \in {0, NoKey} /\ floor' = Len(hist) /\ UNCHANGED <<hist, mem, put>>
        /\ Len(hist) \in Nat
    BY <1>6 DEF PullStatus3, PullStatus5, Reject, StoreInv
  <2>2. pass'.at # "got"
    <3>1. IdlePass.at = "idle" /\ [IdlePass EXCEPT !.at = "asking"].at = "asking"
      BY DEF IdlePass
    <3>2. \/ pass' = [pass EXCEPT !.at = "again"] \/ pass' = IdlePass
          \/ /\ pass' = [IdlePass EXCEPT !.at = "asking", !.retried = TRUE, !.progress = pass.progress]
             /\ pass'.at = "asking"
      BY <1>6 DEF PullStatus3, PullStatus5, IdlePass
    <3>3. QED
      BY <3>1, <3>2 DEF StoreInv, PassShape
  <2>3. key' \in Int /\ key' =< 0 /\ key' =< Len(hist')
    BY <2>1 DEF NoKey
  <2>4. Others' = Others
    BY <2>1 DEF Others
  <2>5. QED
    BY <2>1, <2>2, <2>3, <2>4, NoKeyMissesNothing DEF MissInv
<1>7. QED
  BY <1>1, <1>2, <1>3, <1>4, <1>5, <1>6, PullMissesNothing, ApplyMissesNothing DEF PassStep

(* The write: a pass that waits for it has no page in its hands.           *)
LEMMA WritesMissNothing ==
    ASSUME StoreInv, KeyInv, MissInv, WriteStep
    PROVE  MissInv'
<1>1. UNCHANGED <<hist, floor, key, mem>>
  BY DEF WriteStep, AppendBatch, AppendFails, SaveMain, SaveMainFails, Truncate, server
<1>2. CASE AppendBatch \/ Truncate
  BY <1>1, <1>2, QuietMissesNothing DEF AppendBatch, Truncate
<1>3. ASSUME NEW report, job.stage \in {"append", "main"}, WriteEnds(report)
      PROVE  MissInv'
  <2>1. CASE job.end = "put"
    BY <1>1, <1>3, <2>1, QuietMissesNothing DEF WriteEnds, NoPut
  <2>2. CASE job.end # "put"
    <3>1. pass.at = "saving" /\ put' = put
      BY <1>3, <2>2 DEF WriteEnds, KeyInv
    <3>2. pass'.at \in {"asking", "idle"}
      BY <1>3, <2>2 DEF WriteEnds, IdlePass, StoreInv, PassShape
    <3>3. QED
      BY <1>1, <3>1, <3>2, QuietMissesNothing
  <2>3. QED
    BY <2>1, <2>2
<1>4. QED
  BY <1>2, <1>3 DEF WriteStep, AppendFails, SaveMain, SaveMainFails

(* Everybody else, as long as the process lives.                           *)
LEMMA OthersMissNothing ==
    ASSUME StoreInv, MissInv,
           \/ Compact \/ MailSave \/ BackoffEnds
           \/ \E id \in IDs, v \in Entries : ServerChanges(id, v) \/ PutLooks(id, v)
           \/ ServerRepeats \/ PutRefused \/ PutAccepted \/ PutSaves
    PROVE  MissInv'
<1>1. CASE Compact \/ MailSave \/ BackoffEnds
  BY <1>1, QuietMissesNothing DEF Compact, MailSave, BackoffEnds, server
<1>2. ASSUME NEW id \in IDs, NEW v \in Entries, ServerChanges(id, v)
      PROVE  MissInv'
  <2>1. [id |-> id, val |-> v, own |-> FALSE] \in Changes
    BY DEF Changes
  <2>2. QED
    BY <1>2, <2>1, GrowthMissesNothing DEF ServerChanges
<1>3. ASSUME NEW id \in IDs, NEW v \in Entries, PutLooks(id, v)
      PROVE  MissInv'
  BY <1>3, QuietMissesNothing DEF PutLooks, server
<1>4. CASE ServerRepeats
  BY <1>4, NoPageChange, GrowthMissesNothing DEF ServerRepeats
<1>5. CASE PutRefused
  BY <1>5, QuietMissesNothing DEF PutRefused, server, NoPut
<1>6. CASE PutAccepted
  <2>1. put' = [put EXCEPT !.at = "accepted"] /\ put.at = "asking"
    BY <1>6 DEF PutAccepted
  <2>2. put'.id = put.id /\ put.id \in IDs /\ put.val \in Entries
    BY <2>1 DEF StoreInv, PutShape
  <2> DEFINE c == [id |-> put.id, val |-> put.val, own |-> TRUE]
  <2>3. c \in Changes /\ c.own /\ c.id = put'.id
    BY <2>2 DEF Changes
  <2>4. hist' = Append(hist, c) /\ UNCHANGED <<floor, mem, pass>>
        /\ (key' = key \/ (key = NoKey /\ key' = 0))
    BY <1>6 DEF PutAccepted
  <2> HIDE DEF c
  <2>5. QED
    BY <2>3, <2>4, GrowthMissesNothing
<1>7. CASE PutSaves
  <2>1. /\ put.at = "accepted" /\ put'.at = "saving" /\ UNCHANGED <<hist, floor, key, pass>>
        /\ mem' = [mem EXCEPT ![put.id] = put.val]
    BY <1>7 DEF PutSaves, server, StoreInv, PutShape
  <2>2. \A id \in Others : mem'[id] = mem[id]
    BY <2>1 DEF MissInv, StoreInv, Others
  <2>3. Others' = Others
    BY <2>1 DEF Others
  <2>4. ASSUME NEW id \in Others
        PROVE  Last(id, Len(hist))' = Last(id, Len(hist)) /\ (Sent(Last(id, Len(hist)))' <=> Sent(Last(id, Len(hist))))
    BY <2>1 DEF Last, Sent
  <2>5. NothingIsMissed'
    <3> SUFFICES ASSUME NEW id \in Others,
                        Last(id, Len(hist))' \in 1 .. key',
                        mem'[id] # hist'[Last(id, Len(hist))'].val,
                        Sent(Last(id, Len(hist)))'
                 PROVE  pass'.at = "got" /\ pass'.page.id = id
      BY <2>3 DEF NothingIsMissed
    <3>1. QED
      BY <2>1, <2>2, <2>4 DEF MissInv, NothingIsMissed
  <2>6. QED
    BY <2>1, <2>3, <2>5 DEF MissInv
<1>8. QED
  BY <1>1, <1>2, <1>3, <1>4, <1>5, <1>6, <1>7

(* sync.go 723-724, 734-740: in a process that lives the SyncKey passes no *)
(* change by others but with its page, whatever fails and whoever writes.  *)
THEOREM KeyMissesNothing ==
    ASSUME Faults \cap {"crash", "badJournal"} = {}
    PROVE  Spec => []NothingIsMissed
<1>1. Init => MissInv
  <2> SUFFICES ASSUME Init PROVE MissInv
    OBVIOUS
  <2>1. key = -1 /\ floor = 0 /\ Len(hist) = 0 /\ pass.at = "idle" /\ put.at = "idle"
    BY DEF Init, NoKey, IdlePass, NoPut
  <2>2. NothingIsMissed
    BY <2>1 DEF NothingIsMissed
  <2>3. QED
    BY <2>1, <2>2 DEF MissInv
<1>2. StoreInv /\ KeyInv /\ MissInv /\ [Next]_vars => StoreInv' /\ KeyInv' /\ MissInv'
  <2> SUFFICES ASSUME StoreInv, KeyInv, MissInv, [Next]_vars
               PROVE  StoreInv' /\ KeyInv' /\ MissInv'
    OBVIOUS
  <2>1. StoreInv' /\ KeyInv'
    BY StoreStep, StepKeys
  <2>2. CASE UNCHANGED vars
    BY <2>1, <2>2, QuietMissesNothing DEF vars, server
  <2>3. CASE Next
    <3>1. ~Restart /\ ~RestartWithoutJournal
      BY DEF Restart, RestartWithoutJournal, Fault
    <3>2. MissInv'
      BY <2>3, <3>1, PassMissesNothing, WritesMissNothing, OthersMissNothing DEF Next
    <3>3. QED
      BY <2>1, <3>2
  <2>4. QED
    BY <2>2, <2>3
<1>3. MissInv => NothingIsMissed
  BY DEF MissInv
<1>4. QED
  BY <1>1, <1>2, <1>3, InitInv, InitKeys, PTL DEF Spec
=============================================================================
