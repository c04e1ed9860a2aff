----------------------------- MODULE MessageCache -----------------------------
(***************************************************************************)
(* The cache of one message with one attachment (cache.go, mime_engine.go, *)
(* fetchMessageSource in mime.go): raw.eml, metadata.json, full.eml and    *)
(* the attachment files, the flights that fill them, the back-off of an    *)
(* attachment without data, and the removal of the directory once a sync   *)
(* pass has saved a change (sync.go 466-509).                              *)
(*                                                                         *)
(* Content is its version.  FileReferences are numbered in the order the   *)
(* server gives them out for the attachment; it serves the last one only.  *)
(***************************************************************************)
EXTENDS Integers, FiniteSets

CONSTANTS
    Readers,    \* FETCH commands that may run at once
    MaxVer, MaxRef, MaxRestarts,    \* bounds
    Faults      \* subset of {"raw", "rawCut", "saveFails", "staleStatus"}: the
                \* server sometimes sends raw MIME, or raw MIME cut short, or
                \* answers for a stale FileReference with a status

ASSUME BoundsAssumption == {MaxVer, MaxRef, MaxRestarts} \subseteq Nat

VARIABLES
    server,     \* content, FileReference; ok: it answers in full
    summary,    \* the item in st.Items
    shard,      \* the item on file
    purge,      \* a pass has saved a change and not yet removed the cache
    files,      \* the message's directory
    msg,        \* the flight "message:..."
    att,        \* the flights "attachment:...", by FileReference
    back,       \* attachmentBackoff
    reader,     \* FETCH commands
    raced,      \* history: something old was in the air at a removal
    restarts

env == <<server, shard, restarts>>
vars == <<server, summary, shard, purge, files, msg, att, back, reader, raced, restarts>>

Vers == 0 .. MaxVer
Refs == 0 .. MaxRef

(* A messageSource or messagePlan: version, the FileReferences it lists,   *)
(* and whether it is complete.  One that was rebuilt and is not complete   *)
(* is never kept: its version is left out.                                 *)
Sources == [ver : Vers, refs : SUBSET Refs, whole : BOOLEAN]
Source(ver, refs, whole) == [ver |-> ver, refs |-> refs, whole |-> whole]
Incomplete(refs) == Source(0, refs, FALSE)
NoSource == Incomplete({})

Items == [ver : Vers, ref : Refs]
Item(ver, ref) == [ver |-> ver, ref |-> ref]

EmptyDir == [raw |-> {}, meta |-> {}, full |-> {}, data |-> {}]
Dirs == [raw : SUBSET Sources, meta : SUBSET Sources, full : SUBSET Sources, data : SUBSET Refs]

(* fetchMessageSource runs in both flights: it asks for raw MIME, then for *)
(* the HTML body, then for the plain one.                                  *)
Fetching == {"raw", "html", "plain", "answered"}

NoFlight == [at |-> "none", base |-> 0, src |-> NoSource, raw |-> FALSE]
Flights == [at : {"none", "download", "retry", "got"} \cup Fetching,
            base : Refs, src : Sources, raw : BOOLEAN]

Rested == [on |-> FALSE, refreshed |-> FALSE]

IdleReader == [at |-> "idle", plan |-> NoSource]
ReaderStates == [at : {"idle", "planning", "fetching", "got"}, plan : Sources]

(* Nobody waits for a flight that is not there.                            *)
TypeOK ==
    /\ server \in [ver : Vers, ref : Refs, ok : BOOLEAN]
    /\ summary \in Items /\ shard \in Items
    /\ purge \in BOOLEAN /\ raced \in BOOLEAN /\ restarts \in 0 .. MaxRestarts
    /\ files \in Dirs
    /\ \A kept \in {files.raw, files.meta, files.full} : Cardinality(kept) <= 1
    /\ msg \in Flights
    /\ att \in [Refs -> Flights]
    /\ back \in [Refs -> [on : BOOLEAN, refreshed : BOOLEAN]]
    /\ reader \in [Readers -> ReaderStates]
    /\ (\E r \in Readers : reader[r].at = "planning") => msg.at # "none"

Init ==
    /\ server = [ver |-> 0, ref |-> 0, ok |-> TRUE]
    /\ summary = Item(0, 0) /\ shard = Item(0, 0)
    /\ purge = FALSE /\ raced = FALSE /\ restarts = 0
    /\ files = EmptyDir /\ msg = NoFlight
    /\ att = [k \in Refs |-> NoFlight] /\ back = [k \in Refs |-> Rested]
    /\ reader = [r \in Readers |-> IdleReader]

-----------------------------------------------------------------------------
(* The server.  While it is not ok any answer may be cut short or missing. *)

ServerChanges ==
    /\ \E ver \in {server.ver, server.ver + 1} \cap Vers, ref \in {server.ref, server.ref + 1} \cap Refs :
          /\ ver # server.ver => ref # server.ref
          /\ server' = [server EXCEPT !.ver = ver, !.ref = ref]
    /\ server' # server
    /\ UNCHANGED <<summary, shard, purge, files, msg, att, back, reader, raced, restarts>>

ServerTurns ==
    /\ server' = [server EXCEPT !.ok = ~@]
    /\ UNCHANGED <<summary, shard, purge, files, msg, att, back, reader, raced, restarts>>

(* The raw reply is taken as complete, whatever was cut from it.           *)
RawReplies ==
    IF "raw" \notin Faults THEN {}
    ELSE {TRUE} \cup IF "rawCut" \in Faults /\ ~server.ok THEN {FALSE} ELSE {}

(* What a further reply makes of a source.                                 *)
Merged(src) ==
    {[src EXCEPT !.refs = @ \cup {server.ref}]} \cup
    IF server.ok THEN {} ELSE {Incomplete(refs) : refs \in {src.refs, src.refs \cup {server.ref}}}

(* fetchMessageSource, one reply at a time.  The HTML reply gives the      *)
(* version; the plain one is not always asked for.                         *)
RawAnswers(f) ==
    {[f EXCEPT !.at = "html"]} \cup
    {[f EXCEPT !.at = "answered", !.raw = TRUE, !.src = Source(server.ver, {f.base, server.ref}, whole)]
        : whole \in RawReplies}

HtmlAnswers(f) ==
    LET replies == Merged(Source(server.ver, {f.base}, TRUE))
    IN  {[f EXCEPT !.at = "plain", !.src = src] : src \in replies} \cup
        {[f EXCEPT !.at = "answered", !.src = src] : src \in replies}

PlainAnswers(f) == {[f EXCEPT !.at = "answered", !.src = src] : src \in Merged(f.src)}

Answers(f) ==
    IF f.at = "raw" THEN RawAnswers(f) ELSE IF f.at = "html" THEN HtmlAnswers(f) ELSE PlainAnswers(f)

-----------------------------------------------------------------------------
(* Sync passes, eviction, restart.                                         *)

Saves == {TRUE} \cup IF "saveFails" \in Faults THEN {FALSE} ELSE {}

(* syncMailOnce saves a change of the message; a new FileReference alone   *)
(* is no change.  If the write fails it returns without the removal.       *)
SyncSaves ==
    /\ ~purge /\ summary.ver # server.ver
    /\ summary' = Item(server.ver, server.ref)
    /\ purge' \in Saves /\ shard' = IF purge' THEN summary' ELSE shard
    /\ UNCHANGED <<server, files, msg, att, back, reader, raced, restarts>>

(* Some other change of the folder is saved.                               *)
FolderSaved ==
    /\ shard # summary /\ shard' = summary
    /\ UNCHANGED <<server, summary, purge, files, msg, att, back, reader, raced, restarts>>

(* Content of an older version that will be kept.                          *)
Old(src, raw) == (src.whole \/ raw) /\ src.ver < summary.ver
OldFetch(f) == f.at \in {"plain", "answered"} /\ Old(f.src, f.raw)

InTheAir ==
    \/ OldFetch(msg) \/ \E k \in Refs : OldFetch(att[k])
    \/ \E r \in Readers : reader[r].at \in {"fetching", "got"} /\ Old(reader[r].plan, FALSE)

(* Slip: the rebuilt message is forgotten.                                 *)
PurgeSources ==
    /\ purge /\ purge' = FALSE
    /\ files' = [EmptyDir EXCEPT !.full = files.full]
    /\ back' = [k \in Refs |-> Rested]
    /\ raced' = (raced \/ InTheAir)
    /\ UNCHANGED <<env, summary, msg, att, reader>>

(* invalidateMessageCache, not coordinated with any flight.                *)
Purge ==
    /\ purge /\ purge' = FALSE
    /\ files' = EmptyDir
    /\ back' = [k \in Refs |-> Rested]
    /\ raced' = (raced \/ InTheAir)
    /\ UNCHANGED <<env, summary, msg, att, reader>>

(* Slip: with its files the message's flight is forgotten.                 *)
EvictForgets ==
    /\ files # EmptyDir /\ files' = EmptyDir
    /\ msg' = NoFlight
    /\ UNCHANGED <<env, summary, purge, att, back, reader, raced>>

(* pruneMIMECache                                                          *)
Evict ==
    /\ files # EmptyDir /\ files' = EmptyDir
    /\ UNCHANGED <<env, summary, purge, msg, att, back, reader, raced>>

(* A crash; one between the pass's write and the removal leaves the old    *)
(* files for good.                                                         *)
Restart ==
    /\ restarts < MaxRestarts /\ restarts' = restarts + 1
    /\ summary' = shard
    /\ raced' = (raced \/ purge) /\ purge' = FALSE
    /\ msg' = NoFlight
    /\ att' = [k \in Refs |-> NoFlight] /\ back' = [k \in Refs |-> Rested]
    /\ reader' = [r \in Readers |-> IdleReader]
    /\ UNCHANGED <<server, shard, files>>

-----------------------------------------------------------------------------
(* prepareMessage and loadOrFetchMessagePlan.                              *)

Goes(r, at, plan) == reader' = [reader EXCEPT ![r] = [at |-> at, plan |-> plan]]

(* The client asks for one of the attachments that the plan lists, or gets *)
(* the message without it.                                                 *)
Asking(plan) ==
    {[at |-> "fetching", plan |-> [plan EXCEPT !.refs = {k}]] : k \in plan.refs}
        \cup IF plan.refs = {} THEN {[at |-> "got", plan |-> plan]} ELSE {}

ReadCached(r) ==
    /\ reader[r].at = "idle"
    /\ IF files.raw \cup files.full # {} THEN Goes(r, "got", NoSource)
       ELSE \E plan \in files.meta : \E q \in Asking(plan) : reader' = [reader EXCEPT ![r] = q]
    /\ UNCHANGED <<env, summary, purge, files, msg, att, back, raced>>

ReadRemote(r) ==
    /\ reader[r].at = "idle"
    /\ files.raw \cup files.full \cup files.meta = {}
    /\ Goes(r, "planning", NoSource)
    /\ msg' = IF msg.at = "none" THEN [NoFlight EXCEPT !.at = "raw", !.base = summary.ref] ELSE msg
    /\ UNCHANGED <<env, summary, purge, files, att, back, raced>>

MsgAnswer ==
    /\ msg.at \in {"raw", "html", "plain"} /\ msg' \in Answers(msg)
    /\ UNCHANGED <<env, summary, purge, files, att, back, reader, raced>>

(* All who wait for the flight have its plan; raw MIME needs no more.      *)
Planned ==
    \E asking \in [Readers -> Asking(msg.src)] :
        reader' = [r \in Readers |->
            IF reader[r].at # "planning" THEN reader[r]
            ELSE IF msg.raw THEN [IdleReader EXCEPT !.at = "got"]
            ELSE asking[r]]

(* Slip: complete or not.                                                  *)
KeptAnyway(src, raw) ==
    IF raw THEN [files EXCEPT !.raw = {src}] ELSE [files EXCEPT !.meta = {src}]

(* What a messageSource leaves in the directory.                           *)
Kept(src, raw) ==
    IF raw THEN [files EXCEPT !.raw = {src}]
    ELSE IF src.whole THEN [files EXCEPT !.meta = {src}] ELSE files

MsgWrites ==
    /\ msg.at = "answered"
    /\ files' = Kept(msg.src, msg.raw)
    /\ Planned
    /\ msg' = NoFlight
    /\ UNCHANGED <<env, summary, purge, att, back, raced>>

-----------------------------------------------------------------------------
(* fetchAttachmentCached.                                                  *)

Waiting(k) == {r \in Readers : reader[r].at = "fetching" /\ reader[r].plan.refs = {k}}

Answer(k, at) ==
    reader' = [r \in Readers |->
        IF r \notin Waiting(k) THEN reader[r]
        ELSE IF at = "idle" THEN IdleReader ELSE [reader[r] EXCEPT !.at = at]]

AttBegins(k) ==
    /\ att[k].at = "none" /\ Waiting(k) # {}
    /\ IF k \in files.data
       THEN Answer(k, "got") /\ back' \in {back, [back EXCEPT ![k] = Rested]} /\ UNCHANGED att
       ELSE IF back[k].on
       THEN Answer(k, "idle") /\ UNCHANGED <<att, back>>
       ELSE att' = [att EXCEPT ![k].at = "download"] /\ UNCHANGED <<reader, back>>
    /\ UNCHANGED <<env, summary, purge, files, msg, raced>>

(* What asking for a FileReference may come to.                            *)
Outcomes(ref) ==
    (IF ref = server.ref THEN {"data"}
     ELSE {"noData"} \cup IF "staleStatus" \in Faults THEN {"error"} ELSE {})
        \cup IF server.ok THEN {} ELSE {"noData", "error"}

(* trackAttachmentFailure: only an answer without data starts a back-off.  *)
Failure(k, outcome) ==
    /\ att' = [att EXCEPT ![k] = NoFlight]
    /\ Answer(k, "idle")
    /\ back' = IF outcome = "noData" THEN [back EXCEPT ![k] = [on |-> TRUE, refreshed |-> FALSE]]
               ELSE back

(* The first time in an attempt the metadata is fetched again.  The        *)
(* attachment is looked for by what the summary knows it as.               *)
Download(k) ==
    /\ att[k].at = "download"
    /\ \E outcome \in Outcomes(k) :
          IF outcome = "data"
          THEN /\ att' = [att EXCEPT ![k] = [NoFlight EXCEPT !.at = "got", !.base = k]]
               /\ UNCHANGED <<back, reader>>
          ELSE IF outcome = "noData" /\ ~back[k].refreshed
          THEN /\ att' = [att EXCEPT ![k] = [NoFlight EXCEPT !.at = "raw", !.base = summary.ref]]
               /\ back' = [back EXCEPT ![k].refreshed = TRUE]
               /\ UNCHANGED reader
          ELSE Failure(k, outcome)
    /\ UNCHANGED <<env, summary, purge, files, msg, raced>>

(* refreshAttachmentMetadata up to the server's last answer.               *)
RefreshAnswer(k) ==
    /\ att[k].at \in {"raw", "html", "plain"}
    /\ \E f \in Answers(att[k]) : att' = [att EXCEPT ![k] = f]
    /\ UNCHANGED <<env, summary, purge, files, msg, back, reader, raced>>

(* findRefreshedAttachment: the one listed that the summary does not know; *)
(* two are ambiguous.                                                      *)
News(k) == att[k].src.refs \ {att[k].base}
Rotated(k) == Cardinality(News(k)) = 1

(* What remains of the source: neither the one asked for nor the one of    *)
(* the summary, even where the one asked for is the new one.               *)
Refreshed(k) ==
    IF Rotated(k) THEN [att[k].src EXCEPT !.refs = News(k) \ {k}] ELSE att[k].src

(* updateCachedAttachmentMetadata                                          *)
Successor(k) ==
    summary' \in IF Rotated(k) /\ summary.ref = att[k].base
                 THEN {[summary EXCEPT !.ref = ref] : ref \in News(k)} ELSE {summary}

RetriesOrFails(k) ==
    IF Rotated(k)
    THEN /\ \E ref \in News(k) : att' = [att EXCEPT ![k] = [NoFlight EXCEPT !.at = "retry", !.base = ref]]
         /\ UNCHANGED <<reader, back>>
    ELSE Failure(k, "noData")

(* Slip: metadata.json is left alone unless the FileReference is new.      *)
RefreshWritesNew(k) ==
    /\ att[k].at = "answered"
    /\ Successor(k) /\ RetriesOrFails(k)
    /\ files' = IF Rotated(k) THEN Kept(Refreshed(k), att[k].raw) ELSE files
    /\ UNCHANGED <<env, purge, msg, raced>>

(* The rest of it: the summary in memory, metadata.json, and a retry with  *)
(* the new FileReference if there is one.                                  *)
RefreshWrites(k) ==
    /\ att[k].at = "answered"
    /\ Successor(k) /\ RetriesOrFails(k)
    /\ files' = Kept(Refreshed(k), att[k].raw)
    /\ UNCHANGED <<env, purge, msg, raced>>

Retry(k) ==
    /\ att[k].at = "retry"
    /\ \E outcome \in Outcomes(att[k].base) :
          IF outcome = "data"
          THEN /\ att' = [att EXCEPT ![k] = [NoFlight EXCEPT !.at = "got", !.base = att[k].base]]
               /\ UNCHANGED <<back, reader>>
          ELSE Failure(k, outcome)
    /\ UNCHANGED <<env, summary, purge, files, msg, raced>>

(* The data is kept under the FileReference asked for and the new one.     *)
AttWrites(k) ==
    /\ att[k].at = "got"
    /\ files' = [files EXCEPT !.data = @ \cup {k, att[k].base}]
    /\ back' = [back EXCEPT ![k] = Rested]
    /\ att' = [att EXCEPT ![k] = NoFlight]
    /\ Answer(k, "got")
    /\ UNCHANGED <<env, summary, purge, msg, raced>>

BackoffEnds(k) ==
    /\ back[k].on /\ back' = [back EXCEPT ![k].on = FALSE]
    /\ UNCHANGED <<env, summary, purge, files, msg, att, reader, raced>>

(* The FETCH ends; fetchMIME, for the whole message, first writes full.eml *)
(* from a complete plan.                                                   *)
ReaderEnds(r) ==
    /\ reader[r].at = "got"
    /\ Goes(r, "idle", NoSource)
    /\ files' \in {files} \cup IF reader[r].plan.whole
                               THEN {[files EXCEPT !.full = {reader[r].plan}]} ELSE {}
    /\ UNCHANGED <<env, summary, purge, msg, att, back, raced>>

-----------------------------------------------------------------------------
Read(r) == ReadCached(r) \/ ReadRemote(r) \/ ReaderEnds(r)
Attach(k) ==
    \/ AttBegins(k) \/ Download(k) \/ RefreshAnswer(k) \/ RefreshWrites(k)
    \/ Retry(k) \/ AttWrites(k)

Next ==
    \/ ServerChanges \/ ServerTurns \/ SyncSaves \/ FolderSaved \/ Purge \/ Evict \/ Restart
    \/ MsgAnswer \/ MsgWrites
    \/ \E r \in Readers : Read(r)
    \/ \E k \in Refs : Attach(k) \/ BackoffEnds(k)

Spec == Init /\ [][Next]_vars

(* Clients ask again and again; requests, passes and back-offs end.        *)
Fairness ==
    /\ WF_vars(Purge) /\ WF_vars(MsgAnswer) /\ WF_vars(MsgWrites)
    /\ \A r \in Readers : WF_vars(Read(r))
    /\ \A k \in Refs : WF_vars(Attach(k)) /\ WF_vars(BackoffEnds(k))

FairSpec == Spec /\ Fairness

-----------------------------------------------------------------------------
(* DEV-NOTES.md:133, 108-109: metadata.json and full.eml hold only complete *)
(* content, through truncated and missing bodies, three requests to a      *)
(* message, refreshes, a server that changes between them and failing      *)
(* downloads.  raw.eml is not claimed for: it keeps what the server cut.   *)
OnlyCompleteCached == \A src \in files.meta \cup files.full : src.whole

(* DEV-NOTES.md:133: only complete results are kept.  (False of raw.eml,   *)
(* which that line always keeps, where the server cuts raw MIME short.)    *)
RawIsComplete == \A src \in files.raw : src.whole

(* sync.go 503-509: once the cache of a changed message is removed no     *)
(* older content is in it, unless a fetch, a refresh or a plan of the old  *)
(* content was in the air, or a crash came before the removal.  (False if  *)
(* the shard's write fails: nothing then removes the files, see README.)   *)
StaleOnlyByRace ==
    ~purge /\ ~raced => \A src \in files.raw \cup files.meta \cup files.full : src.ver >= summary.ver

CutRawKept == \E src \in files.raw : ~src.whole
AttachmentForgotten == \E src \in files.meta \cup files.full : src.refs = {}

(* mime_engine.go 475-484: a refresh takes old FileReferences out of the   *)
(* list it keeps, not the attachment.  (False of the code when the one     *)
(* asked for is itself the new one.)                                       *)
AttachmentStaysListed == ~AttachmentForgotten

(* DEV-NOTES.md:103-109: once the server answers in full again every       *)
(* client that keeps asking gets the attachment, whatever rotations of the *)
(* FileReference, back-offs, changes, evictions and restarts came before,  *)
(* unless a raw.eml cut short stands in the way, or a refresh has dropped  *)
(* the attachment from metadata.json (both in README, section 6).          *)
AttachmentServed ==
    <>[](server.ok) =>
        \A r \in Readers : []<>(reader[r].at = "got" \/ CutRawKept \/ AttachmentForgotten)
=============================================================================
