--------------------------- MODULE MessageCacheProofs ---------------------------
(***************************************************************************)
(* Proofs about MessageCache, for any readers, bounds and faults: only     *)
(* complete content gets into metadata.json and full.eml; the types; and,  *)
(* where the pass can save its change, what is kept is current unless it   *)
(* was in the air when the old was removed.                                *)
(***************************************************************************)
EXTENDS MessageCache, FiniteSetTheorems, TLAPS

Shape ==
    /\ server \in [ver : Vers, ref : Refs, ok : BOOLEAN]
    /\ summary \in Items /\ shard \in Items
    /\ purge \in BOOLEAN /\ raced \in BOOLEAN
    /\ files \in Dirs
    /\ msg \in Flights
    /\ att \in [Refs -> Flights]
    /\ reader \in [Readers -> ReaderStates]

SavesWork == "saveFails" \notin Faults

(* Raw MIME ends a fetch; the summary is no newer than the server, in      *)
(* memory and on file.  Where saves do not fail the two have one version.  *)
Sound ==
    /\ OnlyCompleteCached
    /\ msg.raw => msg.at = "answered"
    /\ \A k \in Refs : att[k].raw => att[k].at = "answered"
    /\ summary.ver =< server.ver /\ shard.ver =< server.ver
    /\ SavesWork => shard.ver = summary.ver

(* Nothing old is kept or on its way.                                      *)
Current(src, raw) == src.whole \/ raw => src.ver >= summary.ver
CurrentFetch(f) == f.at \in {"plain", "answered"} => Current(f.src, f.raw)

FilesCurrent == \A src \in files.raw \cup files.meta \cup files.full : src.ver >= summary.ver
MsgCurrent == CurrentFetch(msg)
AttCurrent == \A k \in Refs : CurrentFetch(att[k])
ReadersCurrent ==
    \A r \in Readers : reader[r].at \in {"fetching", "got"} => Current(reader[r].plan, FALSE)

AllCurrent == FilesCurrent /\ MsgCurrent /\ AttCurrent /\ ReadersCurrent

CacheInv == Shape /\ Sound /\ (SavesWork /\ ~purge /\ ~raced => AllCurrent)

-----------------------------------------------------------------------------
(* Versions are numbers.                                                   *)
LEMMA VersAreNumbers == Vers \subseteq Nat /\ Refs \subseteq Nat
  BY BoundsAssumption DEF Vers, Refs

(* Where nothing old was in the air, everything in the air is current.     *)
LEMMA AirIsCurrent ==
    ASSUME Shape, Sound, ~InTheAir
    PROVE  MsgCurrent /\ AttCurrent /\ ReadersCurrent
<1>1. ASSUME NEW src \in Sources, NEW raw, ~Old(src, raw) PROVE Current(src, raw)
  <2>1. src.ver \in Nat /\ summary.ver \in Nat
    BY VersAreNumbers DEF Sources, Shape, Items
  <2>2. QED
    BY <1>1, <2>1 DEF Old, Current
<1>2. ASSUME NEW f \in Flights, ~OldFetch(f) PROVE CurrentFetch(f)
  BY <1>1, <1>2 DEF OldFetch, CurrentFetch, Flights
<1>3. MsgCurrent
  BY <1>2 DEF InTheAir, MsgCurrent, Shape
<1>4. AttCurrent
  BY <1>2 DEF InTheAir, AttCurrent, Shape
<1>5. ReadersCurrent
  BY <1>1 DEF InTheAir, ReadersCurrent, Shape, ReaderStates
<1>6. QED
  BY <1>3, <1>4, <1>5

(* A plan with nothing in it claims nothing.                               *)
LEMMA NoSourceShape ==
    /\ \A refs \in SUBSET Refs : Incomplete(refs) \in Sources /\ ~Incomplete(refs).whole
    /\ NoSource \in Sources /\ ~NoSource.whole /\ Current(NoSource, FALSE)
  BY BoundsAssumption DEF NoSource, Incomplete, Source, Sources, Current, Vers

(* No flight.                                                              *)
LEMMA NoFlightShape ==
    /\ NoFlight \in Flights /\ NoFlight.at = "none" /\ NoFlight.raw = FALSE
    /\ CurrentFetch(NoFlight)
  BY NoSourceShape, BoundsAssumption DEF NoFlight, Flights, Refs, CurrentFetch

(* A further reply leaves the version alone or the source incomplete.      *)
LEMMA MergedSource ==
    ASSUME Shape, NEW src \in Sources, NEW new \in Merged(src)
    PROVE  new \in Sources /\ (new.whole => src.whole /\ new.ver = src.ver)
<1>1. src.refs \cup {server.ref} \in SUBSET Refs /\ src.refs \in SUBSET Refs
  BY DEF Shape, Sources
<1>2. CASE new = [src EXCEPT !.refs = @ \cup {server.ref}]
  BY <1>1, <1>2 DEF Sources
<1>3. CASE \E refs \in SUBSET Refs : new = Incomplete(refs)
  BY <1>3, NoSourceShape
<1>4. QED
  BY <1>1, <1>2, <1>3 DEF Merged

(* What the server sends is current, but for a body fixed by an earlier    *)
(* reply.                                                                  *)
LEMMA AnswersAreCurrent ==
    ASSUME Shape, Sound, NEW f \in Flights, f.at \in {"raw", "html", "plain"}, ~f.raw,
           NEW g \in Answers(f)
    PROVE  /\ g \in Flights /\ g.at \in Fetching /\ (g.raw => g.at = "answered")
           /\ CurrentFetch(f) => CurrentFetch(g)
<1>1. server.ver \in Vers /\ server.ver >= summary.ver /\ f.base \in Refs /\ server.ref \in Refs
  BY VersAreNumbers DEF Shape, Sound, Items, Flights
<1>2. CASE f.at = "raw"
  <2>1. CASE g = [f EXCEPT !.at = "html"]
    BY <2>1 DEF Flights, Fetching, CurrentFetch
  <2>2. CASE \E whole \in BOOLEAN :
               g = [f EXCEPT !.at = "answered", !.raw = TRUE, !.src = Source(server.ver, {f.base, server.ref}, whole)]
    <3>1. PICK whole \in BOOLEAN :
               g = [f EXCEPT !.at = "answered", !.raw = TRUE, !.src = Source(server.ver, {f.base, server.ref}, whole)]
      BY <2>2
    <3>2. /\ Source(server.ver, {f.base, server.ref}, whole) \in Sources
          /\ Source(server.ver, {f.base, server.ref}, whole).ver = server.ver
      BY <1>1 DEF Source, Sources
    <3>3. QED
      BY <1>1, <3>1, <3>2 DEF Flights, Fetching, CurrentFetch, Current
  <2>3. g \in RawAnswers(f)
    BY <1>2 DEF Answers
  <2>4. RawReplies \subseteq BOOLEAN
    BY DEF RawReplies
  <2>5. QED
    BY <2>1, <2>2, <2>3, <2>4 DEF RawAnswers
<1>3. CASE f.at = "html"
  <2>1. PICK at \in {"plain", "answered"}, src \in Merged(Source(server.ver, {f.base}, TRUE)) :
           g = [f EXCEPT !.at = at, !.src = src]
    <3>1. g \in HtmlAnswers(f)
      BY <1>3 DEF Answers
    <3>2. QED
      BY <3>1 DEF HtmlAnswers
  <2>2. PICK asked \in Sources : asked = Source(server.ver, {f.base}, TRUE)
    BY <1>1 DEF Source, Sources
  <2>3. src \in Sources /\ (src.whole => src.ver = server.ver)
    BY <2>1, <2>2, MergedSource DEF Source
  <2>4. QED
    BY <1>1, <1>3, <2>1, <2>3 DEF Flights, Fetching, CurrentFetch, Current
<1>4. CASE f.at = "plain"
  <2>1. PICK src \in Merged(f.src) : g = [f EXCEPT !.at = "answered", !.src = src]
    <3>1. g \in PlainAnswers(f)
      BY <1>4 DEF Answers
    <3>2. QED
      BY <3>1 DEF PlainAnswers
  <2>2. src \in Sources /\ (src.whole => f.src.whole /\ src.ver = f.src.ver)
    BY <2>1, MergedSource DEF Flights
  <2>3. QED
    BY <1>4, <2>1, <2>2 DEF Flights, Fetching, CurrentFetch, Current
<1>5. QED
  BY <1>2, <1>3, <1>4

(* What a client asks for is of the plan it has.                           *)
LEMMA AskingOfPlan ==
    ASSUME NEW plan \in Sources, NEW q \in Asking(plan)
    PROVE  /\ q \in ReaderStates /\ q.at \in {"fetching", "got"}
           /\ q.plan.ver = plan.ver /\ q.plan.whole = plan.whole
<1>1. CASE q = [at |-> "got", plan |-> plan]
  BY <1>1 DEF ReaderStates
<1>2. CASE \E k \in plan.refs : q = [at |-> "fetching", plan |-> [plan EXCEPT !.refs = {k}]]
  BY <1>2 DEF ReaderStates, Sources
<1>3. QED
  BY <1>1, <1>2 DEF Asking

(* The directory after a messageSource has been written to it.             *)
LEMMA KeptFiles ==
    ASSUME Shape, OnlyCompleteCached, NEW src \in Sources, NEW raw \in BOOLEAN
    PROVE  /\ Kept(src, raw) \in Dirs
           /\ \A x \in Kept(src, raw).meta \cup Kept(src, raw).full : x.whole
           /\ FilesCurrent /\ Current(src, raw) =>
                 \A x \in Kept(src, raw).raw \cup Kept(src, raw).meta \cup Kept(src, raw).full :
                    x.ver >= summary.ver
<1>1. files \in Dirs
  BY DEF Shape
<1>2. CASE raw
  BY <1>1, <1>2 DEF Kept, Dirs, OnlyCompleteCached, FilesCurrent, Current
<1>3. CASE ~raw /\ src.whole
  BY <1>1, <1>3 DEF Kept, Dirs, OnlyCompleteCached, FilesCurrent, Current
<1>4. CASE ~raw /\ ~src.whole
  BY <1>1, <1>4 DEF Kept, Dirs, OnlyCompleteCached, FilesCurrent, Current
<1>5. QED
  BY <1>2, <1>3, <1>4

-----------------------------------------------------------------------------
(* The server, the sync passes, eviction and restart.                      *)

(* Steps that leave flights, readers and the summary alone, and files as   *)
(* they are or empty.                                                      *)
LEMMA EmptyIsCurrent ==
    /\ EmptyDir \in Dirs
    /\ EmptyDir.raw = {} /\ EmptyDir.meta = {} /\ EmptyDir.full = {}
  BY DEF EmptyDir, Dirs

LEMMA AirStays ==
    ASSUME Shape, UNCHANGED <<summary, msg, att, reader>>
    PROVE  /\ MsgCurrent => MsgCurrent'
           /\ AttCurrent => AttCurrent'
           /\ ReadersCurrent => ReadersCurrent'
  BY DEF MsgCurrent, AttCurrent, ReadersCurrent, CurrentFetch, Current

LEMMA FilesStay ==
    ASSUME UNCHANGED summary, files' = files \/ files' = EmptyDir
    PROVE  /\ OnlyCompleteCached => OnlyCompleteCached'
           /\ FilesCurrent => FilesCurrent'
  BY EmptyIsCurrent DEF OnlyCompleteCached, FilesCurrent

LEMMA WorldSteps ==
    ASSUME CacheInv, ServerChanges \/ ServerTurns \/ FolderSaved \/ Evict
    PROVE  CacheInv'
<1>1. UNCHANGED <<summary, msg, att, reader, purge, raced>>
      /\ (files' = files \/ files' = EmptyDir)
  BY DEF ServerChanges, ServerTurns, FolderSaved, Evict, env
<1>2. server' \in [ver : Vers, ref : Refs, ok : BOOLEAN] /\ server'.ver >= server.ver
  <2>1. CASE ServerChanges
    <3>1. PICK ver \in {server.ver, server.ver + 1} \cap Vers, ref \in Refs :
                  server' = [server EXCEPT !.ver = ver, !.ref = ref]
      BY <2>1 DEF ServerChanges
    <3>2. server \in [ver : Vers, ref : Refs, ok : BOOLEAN] /\ server.ver \in Nat
      BY VersAreNumbers DEF CacheInv, Shape
    <3>3. server' \in [ver : Vers, ref : Refs, ok : BOOLEAN] /\ server'.ver = ver
      BY <3>1, <3>2
    <3>4. ver >= server.ver
      BY <3>2
    <3>5. QED
      BY <3>3, <3>4
  <2>2. CASE ~ServerChanges
    <3>1. server'.ver = server.ver /\ server' \in [ver : Vers, ref : Refs, ok : BOOLEAN]
      BY <2>2 DEF ServerTurns, FolderSaved, Evict, env, CacheInv, Shape
    <3>2. server.ver \in Nat
      BY VersAreNumbers DEF CacheInv, Shape
    <3>3. QED
      BY <3>1, <3>2
  <2>3. QED
    BY <2>1, <2>2
<1>3. shard' \in Items /\ shard' \in {shard, summary}
  BY DEF ServerChanges, ServerTurns, FolderSaved, Evict, env, CacheInv, Shape
<1>4. summary.ver =< server'.ver /\ shard'.ver =< server'.ver
  <2>1. /\ summary.ver \in Nat /\ shard.ver \in Nat
        /\ server.ver \in Nat /\ server'.ver \in Nat
    BY <1>2, VersAreNumbers DEF CacheInv, Shape, Items
  <2>2. QED
    BY <1>2, <1>3, <2>1 DEF CacheInv, Sound
<1>5. Shape'
  BY <1>1, <1>2, <1>3, EmptyIsCurrent DEF CacheInv, Shape
<1>6. Sound'
  BY <1>1, <1>3, <1>4, FilesStay DEF CacheInv, Sound
<1>7. AllCurrent => AllCurrent'
  BY <1>1, AirStays, FilesStay DEF AllCurrent, CacheInv
<1>8. QED
  BY <1>1, <1>5, <1>6, <1>7 DEF CacheInv

(* A pass saves the change: until the removal nothing is claimed.          *)
LEMMA SyncSavesStep ==
    ASSUME CacheInv, SyncSaves
    PROVE  CacheInv'
<1>1. /\ summary' = Item(server.ver, server.ref)
      /\ purge' \in BOOLEAN /\ shard' \in {shard, summary'}
      /\ SavesWork => purge' = TRUE /\ shard' = summary'
      /\ UNCHANGED <<server, files, msg, att, reader, raced>>
  BY DEF SyncSaves, Saves, SavesWork
<1>2. summary' \in Items /\ summary'.ver = server.ver
  BY <1>1 DEF Item, Items, CacheInv, Shape
<1>3. Shape'
  BY <1>1, <1>2 DEF CacheInv, Shape
<1>4. Sound'
  <2>1. summary'.ver = server'.ver /\ server.ver \in Nat
    BY <1>1, <1>2, VersAreNumbers DEF CacheInv, Shape
  <2>2. QED
    BY <1>1, <2>1 DEF CacheInv, Sound, OnlyCompleteCached
<1>5. QED
  BY <1>1, <1>3, <1>4 DEF CacheInv

(* The removal: nothing is left, and what is in the air counts as raced.   *)
LEMMA PurgeStep ==
    ASSUME CacheInv, Purge
    PROVE  CacheInv'
<1>1. /\ files' = EmptyDir /\ raced' = (raced \/ InTheAir)
      /\ UNCHANGED <<server, shard, summary, msg, att, reader>>
  BY DEF Purge, env
<1>2. purge' = FALSE /\ raced' \in BOOLEAN
  BY <1>1 DEF Purge, CacheInv, Shape
<1>3. Shape'
  BY <1>1, <1>2, EmptyIsCurrent DEF CacheInv, Shape
<1>4. Sound'
  BY <1>1, EmptyIsCurrent DEF CacheInv, Sound, OnlyCompleteCached
<1>5. ASSUME ~raced' PROVE AllCurrent'
  <2>1. ~InTheAir
    BY <1>1, <1>5
  <2>2. MsgCurrent' /\ AttCurrent' /\ ReadersCurrent'
    BY <1>1, <2>1, AirIsCurrent, AirStays DEF CacheInv
  <2>3. FilesCurrent'
    BY <1>1, EmptyIsCurrent DEF FilesCurrent
  <2>4. QED
    BY <2>2, <2>3 DEF AllCurrent
<1>6. QED
  BY <1>3, <1>4, <1>5 DEF CacheInv

(* A restart: the summary of the file is no newer, nothing is in the air.  *)
LEMMA RestartStep ==
    ASSUME CacheInv, Restart
    PROVE  CacheInv'
<1>1. /\ summary' = shard /\ raced' = (raced \/ purge) /\ msg' = NoFlight
      /\ att' = [k \in Refs |-> NoFlight] /\ reader' = [r \in Readers |-> IdleReader]
      /\ UNCHANGED <<server, shard, files>>
  BY DEF Restart
<1>2. purge' = FALSE
  BY DEF Restart
<1>3. summary' \in Items /\ (SavesWork => summary'.ver = summary.ver)
  BY <1>1 DEF CacheInv, Shape, Sound
<1>4. NoFlight \in Flights /\ NoFlight.at = "none" /\ NoFlight.raw = FALSE
  BY NoFlightShape
<1>5. \A k \in Refs : att'[k] = NoFlight
  BY <1>1
<1>6. IdleReader \in ReaderStates /\ IdleReader.at = "idle"
  BY NoSourceShape DEF IdleReader, ReaderStates
<1>7. Shape'
  BY <1>1, <1>2, <1>3, <1>4, <1>5, <1>6 DEF CacheInv, Shape
<1>8. Sound'
  BY <1>1, <1>3, <1>4, <1>5 DEF CacheInv, Sound, OnlyCompleteCached
<1>9. SavesWork /\ FilesCurrent => AllCurrent'
  BY <1>1, <1>3, <1>4, <1>5, <1>6
     DEF AllCurrent, FilesCurrent, MsgCurrent, AttCurrent, ReadersCurrent, CurrentFetch
<1>10. QED
  BY <1>1, <1>2, <1>7, <1>8, <1>9 DEF CacheInv, AllCurrent, Shape

-----------------------------------------------------------------------------
(* Readers.                                                                *)

(* A reader takes a step; what it takes along has to be current.           *)
LEMMA ReaderGoes ==
    ASSUME CacheInv, NEW r \in Readers, NEW at \in {"idle", "planning", "fetching", "got"},
           NEW plan \in Sources, Goes(r, at, plan)
    PROVE  /\ reader' \in [Readers -> ReaderStates]
           /\ ReadersCurrent /\ Current(plan, FALSE) /\ summary' = summary => ReadersCurrent'
<1>1. [at |-> at, plan |-> plan] \in ReaderStates
  BY DEF ReaderStates
<1>2. reader' = [reader EXCEPT ![r] = [at |-> at, plan |-> plan]]
  BY DEF Goes
<1>3. reader \in [Readers -> ReaderStates]
  BY DEF CacheInv, Shape
<1>4. QED
  BY <1>1, <1>2, <1>3 DEF ReadersCurrent, Current

(* A plan comes from the directory; full.eml comes from a plan.            *)
LEMMA ReadSteps ==
    ASSUME CacheInv, NEW r \in Readers, Read(r)
    PROVE  CacheInv'
<1>1. CASE ReadCached(r)
  <2>1. UNCHANGED <<server, shard, summary, purge, raced, files, msg, att>>
    BY <1>1 DEF ReadCached, env
  <2>2. PICK q : /\ reader' = [reader EXCEPT ![r] = q]
                 /\ q = [at |-> "got", plan |-> NoSource] \/ \E plan \in files.meta : q \in Asking(plan)
    BY <1>1 DEF ReadCached, Goes
  <2>3. /\ q \in ReaderStates
        /\ FilesCurrent => Current(q.plan, FALSE)
    <3>1. CASE q = [at |-> "got", plan |-> NoSource]
      BY <3>1, NoSourceShape DEF ReaderStates
    <3>2. CASE \E plan \in files.meta : q \in Asking(plan)
      <4>1. PICK plan \in files.meta : q \in Asking(plan)
        BY <3>2
      <4>2. plan \in Sources
        BY DEF CacheInv, Shape, Dirs
      <4>3. q \in ReaderStates /\ q.plan.ver = plan.ver
        BY <4>1, <4>2, AskingOfPlan
      <4>4. QED
        BY <4>3 DEF FilesCurrent, Current
    <3>3. QED
      BY <2>2, <3>1, <3>2
  <2>4. reader' \in [Readers -> ReaderStates]
    BY <2>2, <2>3 DEF CacheInv, Shape
  <2>5. AllCurrent => ReadersCurrent'
    BY <2>1, <2>2, <2>3 DEF CacheInv, Shape, AllCurrent, ReadersCurrent, Current
  <2>6. AllCurrent => AllCurrent'
    BY <2>1, <2>5 DEF AllCurrent, FilesCurrent, MsgCurrent, AttCurrent, CurrentFetch, Current
  <2>7. QED
    BY <2>1, <2>4, <2>6 DEF CacheInv, Shape, Sound, OnlyCompleteCached
<1>2. CASE ReadRemote(r)
  <2>1. Goes(r, "planning", NoSource) /\ UNCHANGED <<server, shard, summary, purge, raced, files, att>>
    BY <1>2 DEF ReadRemote, env
  <2>2. /\ msg' \in Flights /\ (msg'.raw => msg'.at = "answered")
        /\ MsgCurrent => MsgCurrent'
    <3>1. summary.ref \in Refs
      BY DEF CacheInv, Shape, Items
    <3>2. CASE msg.at = "none"
      <4>1. msg' = [NoFlight EXCEPT !.at = "raw", !.base = summary.ref]
        BY <1>2, <3>2 DEF ReadRemote
      <4>2. msg' \in Flights /\ msg'.at = "raw" /\ ~msg'.raw
        BY <3>1, <4>1, NoFlightShape DEF Flights, Fetching
      <4>3. QED
        BY <4>2 DEF MsgCurrent, CurrentFetch
    <3>3. CASE msg.at # "none"
      <4>1. msg' = msg
        BY <1>2, <3>3 DEF ReadRemote
      <4>2. QED
        BY <2>1, <4>1 DEF MsgCurrent, CurrentFetch, Current, CacheInv, Shape, Sound
    <3>4. QED
      BY <3>2, <3>3
  <2>3. reader' \in [Readers -> ReaderStates] /\ (AllCurrent => ReadersCurrent')
    BY <2>1, NoSourceShape, ReaderGoes DEF AllCurrent
  <2>4. QED
    BY <2>1, <2>2, <2>3 DEF CacheInv, Shape, Sound, OnlyCompleteCached, AllCurrent,
                      FilesCurrent, AttCurrent, CurrentFetch, Current
<1>3. CASE ReaderEnds(r)
  <2>1. Goes(r, "idle", NoSource) /\ UNCHANGED <<server, shard, summary, purge, raced, msg, att>>
    BY <1>3 DEF ReaderEnds, env
  <2>2. reader[r].plan \in Sources /\ reader[r].at = "got"
    BY <1>3 DEF ReaderEnds, CacheInv, Shape, ReaderStates
  <2>3. /\ files' \in Dirs /\ OnlyCompleteCached'
        /\ AllCurrent => FilesCurrent'
    <3>1. CASE files' = files
      BY <2>1, <3>1 DEF CacheInv, Shape, Sound, OnlyCompleteCached, AllCurrent, FilesCurrent
    <3>2. CASE reader[r].plan.whole /\ files' = [files EXCEPT !.full = {reader[r].plan}]
      <4>1. files \in Dirs
        BY DEF CacheInv, Shape
      <4>2. /\ files' \in Dirs /\ files'.raw = files.raw /\ files'.meta = files.meta
            /\ files'.full = {reader[r].plan}
        BY <2>2, <3>2, <4>1 DEF Dirs
      <4>3. ReadersCurrent => reader[r].plan.ver >= summary.ver
        BY <2>2, <3>2 DEF ReadersCurrent, Current
      <4>4. QED
        BY <2>1, <3>2, <4>2, <4>3
           DEF CacheInv, Sound, OnlyCompleteCached, AllCurrent, FilesCurrent
    <3>3. QED
      BY <1>3, <3>1, <3>2 DEF ReaderEnds
  <2>4. reader' \in [Readers -> ReaderStates] /\ (AllCurrent => ReadersCurrent')
    BY <2>1, NoSourceShape, ReaderGoes DEF AllCurrent
  <2>5. QED
    BY <2>1, <2>3, <2>4 DEF CacheInv, Shape, Sound, AllCurrent, MsgCurrent, AttCurrent,
                            CurrentFetch, Current
<1>4. QED
  BY <1>1, <1>2, <1>3 DEF Read

-----------------------------------------------------------------------------
(* The flight of the message.                                              *)

(* A complete answer is no older than the summary.                         *)
LEMMA MsgAnswerStep ==
    ASSUME CacheInv, MsgAnswer
    PROVE  CacheInv'
<1>1. UNCHANGED <<server, shard, summary, purge, raced, files, att, reader>>
  BY DEF MsgAnswer, env
<1>2. /\ msg \in Flights /\ msg.at \in {"raw", "html", "plain"} /\ ~msg.raw
      /\ msg' \in Answers(msg)
  BY DEF MsgAnswer, CacheInv, Shape, Sound
<1>3. /\ msg' \in Flights /\ (msg'.raw => msg'.at = "answered")
      /\ CurrentFetch(msg) => CurrentFetch(msg')
  BY <1>2, AnswersAreCurrent DEF CacheInv
<1>4. MsgCurrent => MsgCurrent'
  BY <1>1, <1>3 DEF MsgCurrent, CurrentFetch, Current
<1>5. QED
  BY <1>1, <1>3, <1>4 DEF CacheInv, Shape, Sound, OnlyCompleteCached, AllCurrent,
                          FilesCurrent, AttCurrent, ReadersCurrent, CurrentFetch, Current

(* What is written is what was answered, and the readers get its plan.     *)
LEMMA MsgWritesStep ==
    ASSUME CacheInv, MsgWrites
    PROVE  CacheInv'
<1>1. /\ msg.at = "answered" /\ files' = Kept(msg.src, msg.raw) /\ Planned /\ msg' = NoFlight
      /\ UNCHANGED <<server, shard, summary, purge, raced, att>>
  BY DEF MsgWrites, env
<1>2. msg.src \in Sources /\ msg.raw \in BOOLEAN
  BY DEF CacheInv, Shape, Flights
<1>3. files' \in Dirs /\ OnlyCompleteCached' /\ (AllCurrent => FilesCurrent')
  BY <1>1, <1>2, KeptFiles
     DEF CacheInv, Sound, OnlyCompleteCached, AllCurrent, FilesCurrent, MsgCurrent, CurrentFetch
<1>4. PICK asking \in [Readers -> Asking(msg.src)] :
         reader' = [r \in Readers |->
            IF reader[r].at # "planning" THEN reader[r]
            ELSE IF msg.raw THEN [IdleReader EXCEPT !.at = "got"]
            ELSE asking[r]]
  BY <1>1 DEF Planned
<1>5. ASSUME NEW r \in Readers
      PROVE  /\ reader'[r] \in ReaderStates
             /\ AllCurrent /\ reader'[r].at \in {"fetching", "got"} => Current(reader'[r].plan, FALSE)
  <2>1. reader[r] \in ReaderStates
    BY DEF CacheInv, Shape
  <2>2. CASE reader[r].at # "planning"
    <3>1. reader'[r] = reader[r]
      BY <1>4, <2>2
    <3>2. QED
      BY <2>1, <3>1 DEF AllCurrent, ReadersCurrent
  <2>3. CASE reader[r].at = "planning" /\ msg.raw
    <3>1. reader'[r] = [IdleReader EXCEPT !.at = "got"]
      BY <1>4, <2>3
    <3>2. reader'[r] = [at |-> "got", plan |-> NoSource]
      BY <3>1 DEF IdleReader
    <3>3. reader'[r] \in ReaderStates /\ reader'[r].plan = NoSource
      BY <3>2, NoSourceShape DEF ReaderStates
    <3>4. QED
      BY <3>3, NoSourceShape, Zenon
  <2>4. CASE reader[r].at = "planning" /\ ~msg.raw
    <3>1. PICK q \in Asking(msg.src) : reader'[r] = q
      <4>1. asking[r] \in Asking(msg.src)
        OBVIOUS
      <4>2. reader'[r] = asking[r]
        BY <1>4, <2>4
      <4>3. QED
        BY <4>1, <4>2
    <3>2. q \in ReaderStates /\ q.plan.ver = msg.src.ver /\ q.plan.whole = msg.src.whole
      BY <1>2, AskingOfPlan
    <3>3. AllCurrent => (msg.src.whole => msg.src.ver >= summary.ver)
      BY <1>1 DEF AllCurrent, MsgCurrent, CurrentFetch, Current
    <3>4. AllCurrent => Current(q.plan, FALSE)
      <4>1. q.plan.whole => msg.src.whole /\ q.plan.ver = msg.src.ver
        BY <3>2
      <4>2. QED
        BY <3>3, <4>1 DEF Current
    <3>5. QED
      BY <3>1, <3>2, <3>4
  <2>5. QED
    BY <2>2, <2>3, <2>4
<1>6. reader' \in [Readers -> ReaderStates]
  BY <1>4, <1>5
<1>7. AllCurrent => ReadersCurrent'
  BY <1>1, <1>5 DEF ReadersCurrent, Current
<1>8. QED
  BY <1>1, <1>3, <1>6, <1>7, NoFlightShape
     DEF CacheInv, Shape, Sound, AllCurrent, MsgCurrent, AttCurrent, CurrentFetch, Current

-----------------------------------------------------------------------------
(* The flights of the attachments.                                         *)

(* The summary in memory keeps its version; nothing else changes but       *)
(* files, one attachment's flight and the readers it answers.              *)
LEMMA AttachmentStep ==
    ASSUME CacheInv, NEW k \in Refs, NEW x \in Flights,
           att' = [att EXCEPT ![k] = x],
           CurrentFetch(att[k]) => CurrentFetch(x), x.raw => x.at = "answered",
           summary' \in Items, summary'.ver = summary.ver,
           files' \in Dirs, OnlyCompleteCached', AllCurrent => FilesCurrent',
           reader' = reader \/ \E at \in {"idle", "got"} : Answer(k, at),
           UNCHANGED <<server, shard, purge, raced, msg>>
    PROVE  CacheInv'
<1>1. att' \in [Refs -> Flights]
  BY DEF CacheInv, Shape
<1>2. \A j \in Refs : att'[j].raw => att'[j].at = "answered"
  BY DEF CacheInv, Shape, Sound
<1>3. AttCurrent => AttCurrent'
  BY DEF CacheInv, Shape, AttCurrent, CurrentFetch, Current
<1>4. ASSUME NEW r \in Readers
      PROVE  /\ reader'[r] \in ReaderStates
             /\ reader'[r].at \in {"fetching", "got"} =>
                   reader[r].at \in {"fetching", "got"} /\ reader'[r].plan = reader[r].plan
  <2>1. reader[r] \in ReaderStates
    BY DEF CacheInv, Shape
  <2>2. CASE reader'[r] = reader[r]
    BY <2>1, <2>2
  <2>3. CASE reader'[r] = IdleReader
    BY <2>3, NoSourceShape DEF IdleReader, ReaderStates
  <2>4. CASE r \in Waiting(k) /\ reader'[r] = [reader[r] EXCEPT !.at = "got"]
    BY <2>1, <2>4 DEF Waiting, ReaderStates
  <2>5. QED
    BY <2>2, <2>3, <2>4 DEF Answer
<1>5. reader' \in [Readers -> ReaderStates]
  BY <1>4 DEF CacheInv, Shape, Answer
<1>6. ReadersCurrent => ReadersCurrent'
  BY <1>4 DEF ReadersCurrent, Current
<1>7. MsgCurrent => MsgCurrent'
  BY DEF MsgCurrent, CurrentFetch, Current
<1>8. Shape' /\ Sound'
  BY <1>1, <1>2, <1>5 DEF CacheInv, Shape, Sound
<1>9. AllCurrent => AllCurrent'
  BY <1>3, <1>6, <1>7 DEF AllCurrent
<1>10. QED
  BY <1>8, <1>9 DEF CacheInv

(* Files, and the summary, where they are not touched.                     *)
LEMMA FilesKept ==
    ASSUME CacheInv, UNCHANGED <<files, summary>>
    PROVE  /\ summary' \in Items /\ summary'.ver = summary.ver
           /\ files' \in Dirs /\ OnlyCompleteCached' /\ (AllCurrent => FilesCurrent')
  BY DEF CacheInv, Shape, Sound, OnlyCompleteCached, AllCurrent, FilesCurrent

(* Looking in the directory, and asking for the data.                      *)
LEMMA DownloadSteps ==
    ASSUME CacheInv, NEW k \in Refs, AttBegins(k) \/ Download(k) \/ Retry(k)
    PROVE  CacheInv'
<1>1. UNCHANGED <<server, shard, summary, purge, raced, msg, files>>
  BY DEF AttBegins, Download, Retry, env
<1>2. att \in [Refs -> Flights] /\ att[k] \in Flights /\ summary.ref \in Refs
  BY DEF CacheInv, Shape, Items
<1>3. \E x \in Flights :
         /\ att' = [att EXCEPT ![k] = x]
         /\ CurrentFetch(att[k]) => CurrentFetch(x)
         /\ x.raw => x.at = "answered"
  <2>0. CASE att' = att
    <3>1. att' = [att EXCEPT ![k] = att[k]]
      BY <1>2, <2>0
    <3>2. QED
      BY <1>2, <3>1 DEF CacheInv, Sound
  <2>1. CASE att' = [att EXCEPT ![k] = NoFlight]
    BY <2>1, NoFlightShape
  <2>2. CASE AttBegins(k) /\ att' = [att EXCEPT ![k].at = "download"]
    <3>1. PICK x : x = [att[k] EXCEPT !.at = "download"]
      OBVIOUS
    <3>2. x \in Flights /\ x.at = "download" /\ x.raw = att[k].raw
      BY <1>2, <3>1 DEF Flights
    <3>3. att' = [att EXCEPT ![k] = x] /\ ~att[k].raw
      BY <1>2, <2>2, <3>1 DEF AttBegins, CacheInv, Sound
    <3>4. QED
      BY <3>2, <3>3 DEF CurrentFetch
  <2>3. CASE \E at \in {"got", "raw"}, base \in Refs :
                att' = [att EXCEPT ![k] = [NoFlight EXCEPT !.at = at, !.base = base]]
    <3>1. PICK at \in {"got", "raw"}, base \in Refs :
                att' = [att EXCEPT ![k] = [NoFlight EXCEPT !.at = at, !.base = base]]
      BY <2>3
    <3>2. PICK x : x = [NoFlight EXCEPT !.at = at, !.base = base]
      OBVIOUS
    <3>3. x \in Flights /\ x.at = at /\ x.raw = FALSE
      BY <3>2, NoFlightShape DEF Flights, Fetching
    <3>4. QED
      BY <3>1, <3>2, <3>3 DEF CurrentFetch
  <2>4. att[k].base \in Refs
    BY <1>2 DEF Flights
  <2>5. QED
    BY <1>2, <2>0, <2>1, <2>2, <2>3, <2>4 DEF AttBegins, Download, Retry, Failure
<1>4. reader' = reader \/ \E at \in {"idle", "got"} : Answer(k, at)
  BY DEF AttBegins, Download, Retry, Failure
<1>5. QED
  BY <1>1, <1>3, <1>4, FilesKept, AttachmentStep

(* The metadata fetched again is no older than the summary.                *)
LEMMA RefreshAnswerStep ==
    ASSUME CacheInv, NEW k \in Refs, RefreshAnswer(k)
    PROVE  CacheInv'
<1>1. PICK x \in Answers(att[k]) : att' = [att EXCEPT ![k] = x]
  BY DEF RefreshAnswer
<1>2. UNCHANGED <<server, shard, summary, purge, raced, msg, files, reader>>
  BY DEF RefreshAnswer, env
<1>3. att[k] \in Flights /\ att[k].at \in {"raw", "html", "plain"} /\ ~att[k].raw
  BY DEF RefreshAnswer, CacheInv, Shape, Sound
<1>4. /\ x \in Flights /\ (x.raw => x.at = "answered")
      /\ CurrentFetch(att[k]) => CurrentFetch(x)
  BY <1>3, AnswersAreCurrent DEF CacheInv
<1>5. QED
  BY <1>1, <1>2, <1>4, FilesKept, AttachmentStep

(* It goes to metadata.json, and its FileReference to the summary.         *)
LEMMA RefreshWritesStep ==
    ASSUME CacheInv, NEW k \in Refs, RefreshWrites(k)
    PROVE  CacheInv'
<1>1. /\ att[k].at = "answered" /\ Successor(k) /\ RetriesOrFails(k)
      /\ files' = Kept(Refreshed(k), att[k].raw)
      /\ UNCHANGED <<server, shard, purge, raced, msg>>
  BY DEF RefreshWrites, env
<1>2. att[k] \in Flights /\ att[k].src \in Sources /\ att[k].raw \in BOOLEAN
  BY DEF CacheInv, Shape, Flights
<1>3. News(k) \subseteq Refs
  BY <1>2 DEF News, Sources
<1>4. /\ Refreshed(k) \in Sources /\ Refreshed(k).ver = att[k].src.ver
      /\ Refreshed(k).whole = att[k].src.whole
  BY <1>2, <1>3 DEF Refreshed, Sources
<1>5. summary' \in Items /\ summary'.ver = summary.ver
  BY <1>1, <1>3 DEF Successor, CacheInv, Shape, Items
<1>6. files' \in Dirs /\ OnlyCompleteCached' /\ (AllCurrent => FilesCurrent')
  <2>1. PICK src \in Sources : src = Refreshed(k)
    BY <1>4
  <2>2. AllCurrent => Current(src, att[k].raw)
    BY <1>1, <1>4, <2>1 DEF AllCurrent, AttCurrent, CurrentFetch, Current
  <2>3. files' = Kept(src, att[k].raw)
    BY <1>1, <2>1
  <2>4. QED
    BY <1>2, <1>5, <2>2, <2>3, KeptFiles
       DEF CacheInv, Sound, OnlyCompleteCached, AllCurrent, FilesCurrent
<1>7. CASE Rotated(k)
  <2>1. PICK ref \in Refs : att' = [att EXCEPT ![k] = [NoFlight EXCEPT !.at = "retry", !.base = ref]]
    BY <1>1, <1>3, <1>7 DEF RetriesOrFails
  <2>2. PICK x : x = [NoFlight EXCEPT !.at = "retry", !.base = ref]
    OBVIOUS
  <2>3. x \in Flights /\ x.at = "retry" /\ x.raw = FALSE
    BY <2>2, NoFlightShape DEF Flights
  <2>4. att' = [att EXCEPT ![k] = x] /\ reader' = reader
    BY <1>1, <1>7, <2>1, <2>2 DEF RetriesOrFails
  <2>5. QED
    BY <1>1, <1>5, <1>6, <2>3, <2>4, AttachmentStep DEF CurrentFetch
<1>8. CASE ~Rotated(k)
  <2>1. att' = [att EXCEPT ![k] = NoFlight] /\ Answer(k, "idle")
    BY <1>1, <1>8 DEF RetriesOrFails, Failure
  <2>2. QED
    BY <1>1, <1>5, <1>6, <2>1, NoFlightShape, AttachmentStep
<1>9. QED
  BY <1>7, <1>8

(* The attachment's data have no version.                                  *)
LEMMA AttWritesStep ==
    ASSUME CacheInv, NEW k \in Refs, AttWrites(k)
    PROVE  CacheInv'
<1>1. /\ att' = [att EXCEPT ![k] = NoFlight] /\ Answer(k, "got")
      /\ UNCHANGED <<server, shard, summary, purge, raced, msg>>
  BY DEF AttWrites, env
<1>2. att[k].base \in Refs /\ files \in Dirs
  BY DEF CacheInv, Shape, Flights
<1>3. /\ files' \in Dirs /\ files'.raw = files.raw /\ files'.meta = files.meta
      /\ files'.full = files.full
  BY <1>2 DEF AttWrites, Dirs
<1>4. OnlyCompleteCached' /\ (AllCurrent => FilesCurrent')
  BY <1>1, <1>3 DEF CacheInv, Sound, OnlyCompleteCached, AllCurrent, FilesCurrent
<1>5. summary' \in Items /\ summary'.ver = summary.ver
  BY <1>1 DEF CacheInv, Shape
<1>6. QED
  BY <1>1, <1>3, <1>4, <1>5, NoFlightShape, AttachmentStep

-----------------------------------------------------------------------------
(* The invariant holds from the start and is kept by every step.           *)
LEMMA CacheInvInductive ==
    (Init => CacheInv) /\ (CacheInv /\ [Next]_vars => CacheInv')
<1>1. Init => CacheInv
  <2> SUFFICES ASSUME Init PROVE CacheInv
    OBVIOUS
  <2>1. 0 \in Vers /\ 0 \in Refs
    BY BoundsAssumption DEF Vers, Refs
  <2>2. NoFlight \in Flights /\ NoFlight.at = "none" /\ NoFlight.raw = FALSE
    BY NoFlightShape
  <2>3. IdleReader \in ReaderStates /\ IdleReader.at = "idle"
    BY NoSourceShape DEF IdleReader, ReaderStates
  <2>4. Shape
    BY <2>1, <2>2, <2>3, NoFlightShape, EmptyIsCurrent DEF Init, Shape, Item, Items
  <2>5. Sound
    BY <2>2, NoFlightShape, EmptyIsCurrent DEF Init, Sound, OnlyCompleteCached, Item
  <2>6. AllCurrent
    BY <2>2, <2>3, NoFlightShape, EmptyIsCurrent
       DEF Init, AllCurrent, FilesCurrent, MsgCurrent, AttCurrent, ReadersCurrent, CurrentFetch
  <2>7. QED
    BY <2>4, <2>5, <2>6 DEF CacheInv
<1>2. CacheInv /\ [Next]_vars => CacheInv'
  <2> SUFFICES ASSUME CacheInv, [Next]_vars PROVE CacheInv'
    OBVIOUS
  <2>1. CASE UNCHANGED vars
    BY <2>1 DEF vars, CacheInv, Shape, Sound, OnlyCompleteCached, AllCurrent,
                FilesCurrent, MsgCurrent, AttCurrent, ReadersCurrent, CurrentFetch, Current
  <2>2. CASE ServerChanges \/ ServerTurns \/ FolderSaved \/ Evict
    BY <2>2, WorldSteps
  <2>3. CASE SyncSaves \/ Purge \/ Restart \/ MsgAnswer \/ MsgWrites
    BY <2>3, SyncSavesStep, PurgeStep, RestartStep, MsgAnswerStep, MsgWritesStep
  <2>4. ASSUME NEW r \in Readers, Read(r) PROVE CacheInv'
    BY <2>4, ReadSteps
  <2>5. ASSUME NEW k \in Refs, Attach(k) PROVE CacheInv'
    BY <2>5, DownloadSteps, RefreshAnswerStep, RefreshWritesStep, AttWritesStep DEF Attach
  <2>6. ASSUME NEW k \in Refs, BackoffEnds(k) PROVE CacheInv'
    <3>1. UNCHANGED <<server, shard, summary, purge, raced, files, msg, att, reader>>
      BY <2>6 DEF BackoffEnds, env
    <3>2. QED
      BY <3>1 DEF CacheInv, Shape, Sound, OnlyCompleteCached, AllCurrent,
                  FilesCurrent, MsgCurrent, AttCurrent, ReadersCurrent, CurrentFetch, Current
  <2>7. QED
    BY <2>1, <2>2, <2>3, <2>4, <2>5, <2>6 DEF Next
<1>3. QED
  BY <1>1, <1>2

(* DEV-NOTES.md:133, 108-109: truncated answers and bare summaries never   *)
(* get into metadata.json or full.eml, by a fetch, a refresh or a rebuilt  *)
(* message, whatever becomes of the three requests.  (raw.eml apart, which *)
(* keeps what the server cut from it.)                                     *)
THEOREM OnlyCompleteIsKept == Spec => []OnlyCompleteCached
<1>1. CacheInv => OnlyCompleteCached
  BY DEF CacheInv, Sound
<1>2. QED
  BY <1>1, CacheInvInductive, PTL DEF Spec

(* sync.go 503-509: once the cache of a changed message is removed nothing *)
(* older comes back, unless it was in the air at the removal or a crash    *)
(* came before it, as long as the pass can save the change.                *)
THEOREM NothingOldReturns ==
    ASSUME "saveFails" \notin Faults
    PROVE  Spec => []StaleOnlyByRace
<1>1. CacheInv => StaleOnlyByRace
  BY DEF CacheInv, SavesWork, AllCurrent, FilesCurrent, StaleOnlyByRace
<1>2. QED
  BY <1>1, CacheInvInductive, PTL DEF Spec

-----------------------------------------------------------------------------
(* The types.                                                              *)

(* What TypeOK asks for beyond CacheInv: one file of a kind, the           *)
(* back-offs, and a flight for everyone who waits for one.                 *)
SmallDir == \A kept \in {files.raw, files.meta, files.full} : Cardinality(kept) <= 1
BackoffsOK == back \in [Refs -> [on : BOOLEAN, refreshed : BOOLEAN]]
FlightForAll == \A r \in Readers : reader[r].at = "planning" => msg.at # "none"

RestInv ==
    /\ restarts \in 0 .. MaxRestarts
    /\ SmallDir /\ BackoffsOK /\ FlightForAll

(* A file is there once or not at all.                                     *)
LEMMA SmallSets == Cardinality({}) = 0 /\ \A x : Cardinality({x}) = 1
  BY FS_EmptySet, FS_Singleton

(* What is written to the directory takes the place of what was there.     *)
LEMMA DirStaysSmall ==
    ASSUME CacheInv, SmallDir, [Next]_vars
    PROVE  SmallDir'
<1> DEFINE Fits(new, old) == new = old \/ new = {} \/ \E x : new = {x}
<1>0. ASSUME NEW new, NEW old, Fits(new, old), Cardinality(old) <= 1
      PROVE  Cardinality(new) <= 1
  <2>1. CASE new = old \/ new = {}
    BY <1>0, <2>1, SmallSets
  <2>2. CASE \E x : new = {x}
    <3>1. PICK x : new = {x}
      BY <2>2
    <3>2. Cardinality({x}) = 1
      BY SmallSets
    <3>3. QED
      BY <3>1, <3>2
  <2>3. QED
    BY <1>0, <2>1, <2>2
<1>1. files \in Dirs
  BY DEF CacheInv, Shape
<1> DEFINE AllFit == /\ Fits(files'.raw, files.raw) /\ Fits(files'.meta, files.meta)
                     /\ Fits(files'.full, files.full)
<1>2. ASSUME AllFit PROVE SmallDir'
  <2>1. Cardinality(files.raw) <= 1 /\ Cardinality(files.meta) <= 1 /\ Cardinality(files.full) <= 1
    BY DEF SmallDir
  <2>2. Fits(files'.raw, files.raw) /\ Fits(files'.meta, files.meta) /\ Fits(files'.full, files.full)
    BY <1>2
  <2> HIDE DEF Fits, AllFit
  <2>3. Cardinality(files'.raw) <= 1
    BY <1>0, <2>1, <2>2
  <2>4. Cardinality(files'.meta) <= 1
    BY <1>0, <2>1, <2>2
  <2>5. Cardinality(files'.full) <= 1
    BY <1>0, <2>1, <2>2
  <2>6. QED
    BY <2>3, <2>4, <2>5 DEF SmallDir
<1>3. CASE files' = files \/ files' = EmptyDir
  <2>1. AllFit
    BY <1>3 DEF EmptyDir
  <2>2. QED
    BY <1>2, <2>1
<1>4. CASE MsgWrites \/ \E k \in Refs : RefreshWrites(k)
  <2>1. PICK src, raw : files' = Kept(src, raw)
    BY <1>4 DEF MsgWrites, RefreshWrites
  <2>2. AllFit
    BY <1>1, <2>1 DEF Kept, Dirs
  <2>3. QED
    BY <1>2, <2>2
<1>5. CASE \E k \in Refs : AttWrites(k)
  <2>1. files'.raw = files.raw /\ files'.meta = files.meta /\ files'.full = files.full
    BY <1>1, <1>5 DEF AttWrites, Dirs
  <2>2. AllFit
    BY <2>1
  <2>3. QED
    BY <1>2, <2>2
<1>6. CASE \E r \in Readers : ReaderEnds(r)
  <2>1. AllFit
    BY <1>1, <1>6 DEF ReaderEnds, Dirs
  <2>2. QED
    BY <1>2, <2>1
<1>7. QED
  <2>1. CASE UNCHANGED vars
    BY <1>3, <2>1 DEF vars
  <2>2. CASE ServerChanges \/ ServerTurns \/ SyncSaves \/ FolderSaved \/ Purge \/ Evict
             \/ Restart \/ MsgAnswer
    BY <1>3, <2>2 DEF ServerChanges, ServerTurns, SyncSaves, FolderSaved, Purge, Evict,
                      Restart, MsgAnswer
  <2>3. CASE \E r \in Readers : ReadCached(r) \/ ReadRemote(r)
    BY <1>3, <2>3 DEF ReadCached, ReadRemote
  <2>4. CASE \E k \in Refs : AttBegins(k) \/ Download(k) \/ RefreshAnswer(k) \/ Retry(k)
                             \/ BackoffEnds(k)
    BY <1>3, <2>4 DEF AttBegins, Download, RefreshAnswer, Retry, BackoffEnds
  <2>5. QED
    BY <1>4, <1>5, <1>6, <2>1, <2>2, <2>3, <2>4 DEF Next, Read, Attach

(* A back-off starts, ends, or remembers that the metadata was fetched.    *)
LEMMA BackoffsStay ==
    ASSUME BackoffsOK, [Next]_vars
    PROVE  BackoffsOK'
<1> DEFINE Marks == [on : BOOLEAN, refreshed : BOOLEAN]
<1>1. Rested \in Marks /\ [on |-> TRUE, refreshed |-> FALSE] \in Marks
  BY DEF Rested
<1>2. ASSUME NEW k \in Refs
      PROVE  /\ [back EXCEPT ![k].refreshed = TRUE] \in [Refs -> Marks]
             /\ [back EXCEPT ![k].on = FALSE] \in [Refs -> Marks]
  BY DEF BackoffsOK
<1>3. CASE back' = back \/ back' = [k \in Refs |-> Rested]
  BY <1>1, <1>3 DEF BackoffsOK
<1>4. CASE \E k \in Refs, m \in {Rested, [on |-> TRUE, refreshed |-> FALSE]} :
              back' = [back EXCEPT ![k] = m]
  BY <1>1, <1>4 DEF BackoffsOK
<1>5. CASE \E k \in Refs : \/ back' = [back EXCEPT ![k].refreshed = TRUE]
                           \/ back' = [back EXCEPT ![k].on = FALSE]
  BY <1>2, <1>5 DEF BackoffsOK
<1>6. QED
  <2>1. CASE UNCHANGED vars
    BY <1>3, <2>1 DEF vars
  <2>2. CASE ServerChanges \/ ServerTurns \/ SyncSaves \/ FolderSaved \/ Purge \/ Evict
             \/ Restart \/ MsgAnswer \/ MsgWrites
    BY <1>3, <2>2 DEF ServerChanges, ServerTurns, SyncSaves, FolderSaved, Purge, Evict,
                      Restart, MsgAnswer, MsgWrites
  <2>3. CASE \E r \in Readers : Read(r)
    BY <1>3, <2>3 DEF Read, ReadCached, ReadRemote, ReaderEnds
  <2>4. ASSUME NEW k \in Refs, AttBegins(k) \/ AttWrites(k) PROVE BackoffsOK'
    BY <1>3, <1>4, <2>4 DEF AttBegins, AttWrites
  <2>5. ASSUME NEW k \in Refs, NEW outcome, Failure(k, outcome) PROVE BackoffsOK'
    BY <1>3, <1>4, <2>5 DEF Failure
  <2>6. ASSUME NEW k \in Refs, Download(k) PROVE BackoffsOK'
    BY <1>3, <1>5, <2>5, <2>6 DEF Download
  <2>7. ASSUME NEW k \in Refs, RefreshAnswer(k) \/ RefreshWrites(k) \/ Retry(k) PROVE BackoffsOK'
    <3>1. CASE RefreshAnswer(k)
      BY <1>3, <3>1 DEF RefreshAnswer
    <3>2. CASE RefreshWrites(k)
      <4>1. RetriesOrFails(k)
        BY <3>2 DEF RefreshWrites
      <4>2. back' = back \/ Failure(k, "noData")
        BY <4>1 DEF RetriesOrFails
      <4>3. QED
        BY <1>3, <2>5, <4>2
    <3>3. CASE Retry(k)
      BY <1>3, <2>5, <3>3 DEF Retry
    <3>4. QED
      BY <2>7, <3>1, <3>2, <3>3
  <2>8. ASSUME NEW k \in Refs, BackoffEnds(k) PROVE BackoffsOK'
    BY <1>5, <2>8 DEF BackoffEnds
  <2>9. QED
    BY <2>1, <2>2, <2>3, <2>4, <2>6, <2>7, <2>8 DEF Next, Attach

(* Who waits for a flight joined one that runs; when it ends nobody does.  *)
LEMMA FlightsStay ==
    ASSUME CacheInv, FlightForAll, [Next]_vars
    PROVE  FlightForAll'
<1>1. /\ reader \in [Readers -> ReaderStates] /\ msg \in Flights
      /\ NoFlight.at = "none" /\ IdleReader.at = "idle"
  BY NoFlightShape DEF CacheInv, Shape, IdleReader
<1>2. ASSUME msg'.at = msg.at,
             \A r \in Readers : reader'[r].at = "planning" => reader[r].at = "planning"
      PROVE  FlightForAll'
  BY <1>2 DEF FlightForAll
<1>3. ASSUME \A r \in Readers : reader'[r].at # "planning" PROVE FlightForAll'
  BY <1>3 DEF FlightForAll
<1>4. CASE UNCHANGED <<msg, reader>>
  BY <1>4 DEF FlightForAll
<1>5. CASE Restart
  BY <1>1, <1>3, <1>5 DEF Restart
<1>6. CASE MsgAnswer
  <2>1. msg.at \in {"raw", "html", "plain"} /\ ~msg.raw /\ msg' \in Answers(msg)
    BY <1>6 DEF MsgAnswer, CacheInv, Sound
  <2>2. msg'.at \in Fetching
    BY <1>1, <2>1, AnswersAreCurrent DEF CacheInv
  <2>3. QED
    BY <2>2 DEF Fetching, FlightForAll
<1>7. CASE MsgWrites
  <2>1. ASSUME NEW r \in Readers PROVE reader'[r].at # "planning"
    <3>1. [IdleReader EXCEPT !.at = "got"].at = "got"
      BY DEF IdleReader
    <3>2. msg.src \in Sources
      BY <1>1 DEF Flights
    <3>3. PICK asking \in [Readers -> Asking(msg.src)] :
             reader' = [q \in Readers |->
                IF reader[q].at # "planning" THEN reader[q]
                ELSE IF msg.raw THEN [IdleReader EXCEPT !.at = "got"]
                ELSE asking[q]]
      BY <1>7 DEF MsgWrites, Planned
    <3>4. asking[r].at \in {"fetching", "got"}
      BY <3>2, AskingOfPlan
    <3>5. QED
      BY <3>1, <3>3, <3>4
  <2>2. QED
    BY <1>3, <2>1
<1>8. ASSUME NEW r \in Readers, Read(r) PROVE FlightForAll'
  <2>1. CASE ReadRemote(r)
    <3>1. msg'.at # "none"
      BY <1>1, <2>1 DEF ReadRemote
    <3>2. QED
      BY <3>1 DEF FlightForAll
  <2>2. CASE ReadCached(r) \/ ReaderEnds(r)
    <3>1. PICK q : /\ reader' = [reader EXCEPT ![r] = q] /\ msg' = msg
                   /\ q.at \in {"got", "idle"} \/ \E plan \in files.meta : q \in Asking(plan)
      BY <2>2 DEF ReadCached, ReaderEnds, Goes
    <3>2. q.at # "planning"
      <4>1. files.meta \subseteq Sources
        BY DEF CacheInv, Shape, Dirs
      <4>2. QED
        BY <3>1, <4>1, AskingOfPlan
    <3>3. \A p \in Readers : reader'[p].at = "planning" => reader[p].at = "planning"
      BY <1>1, <3>1, <3>2
    <3>4. QED
      BY <1>2, <3>1, <3>3
  <2>3. QED
    BY <1>8, <2>1, <2>2 DEF Read
<1>9. ASSUME NEW k \in Refs, NEW at \in {"idle", "got"}, Answer(k, at), msg' = msg
      PROVE  FlightForAll'
  <2>1. ASSUME NEW r \in Readers, reader'[r].at = "planning" PROVE reader[r].at = "planning"
    <3>1. reader[r] \in ReaderStates
      BY <1>1
    <3>2. \/ reader'[r] = reader[r] \/ reader'[r] = IdleReader
          \/ reader'[r] = [reader[r] EXCEPT !.at = at]
      BY <1>9 DEF Answer
    <3>3. [reader[r] EXCEPT !.at = at].at = at
      BY <3>1 DEF ReaderStates
    <3>4. QED
      BY <1>1, <2>1, <3>2, <3>3
  <2>2. QED
    BY <1>2, <1>9, <2>1
<1>10. ASSUME NEW k \in Refs, Attach(k) PROVE FlightForAll'
  <2>1. msg' = msg
    BY <1>10 DEF Attach, AttBegins, Download, RefreshAnswer, RefreshWrites, Retry, AttWrites
  <2>2. reader' = reader \/ \E at \in {"idle", "got"} : Answer(k, at)
    <3>1. CASE RefreshWrites(k)
      <4>1. RetriesOrFails(k)
        BY <3>1 DEF RefreshWrites
      <4>2. QED
        BY <4>1 DEF RetriesOrFails, Failure
    <3>2. CASE AttBegins(k) \/ Download(k) \/ RefreshAnswer(k) \/ Retry(k) \/ AttWrites(k)
      BY <3>2 DEF AttBegins, Download, RefreshAnswer, Retry, AttWrites, Failure
    <3>3. QED
      BY <1>10, <3>1, <3>2 DEF Attach
  <2>3. QED
    BY <1>4, <1>9, <2>1, <2>2
<1>11. QED
  <2>1. CASE UNCHANGED vars
    BY <1>4, <2>1 DEF vars
  <2>2. CASE ServerChanges \/ ServerTurns \/ SyncSaves \/ FolderSaved \/ Purge \/ Evict
    BY <1>4, <2>2 DEF ServerChanges, ServerTurns, SyncSaves, FolderSaved, Purge, Evict
  <2>3. CASE \E k \in Refs : BackoffEnds(k)
    BY <1>4, <2>3 DEF BackoffEnds
  <2>4. QED
    BY <1>5, <1>6, <1>7, <1>8, <1>10, <2>1, <2>2, <2>3 DEF Next

(* cache.go, mime_engine.go: the types, under all faults.  Nobody waits    *)
(* for a flight that is not there.                                         *)
THEOREM CacheTypes == Spec => []TypeOK
<1>1. Init => RestInv
  <2> SUFFICES ASSUME Init PROVE RestInv
    OBVIOUS
  <2>1. restarts \in 0 .. MaxRestarts
    BY BoundsAssumption DEF Init
  <2>2. SmallDir
    <3>1. files.raw = {} /\ files.meta = {} /\ files.full = {}
      BY EmptyIsCurrent DEF Init
    <3>2. Cardinality(files.raw) <= 1 /\ Cardinality(files.meta) <= 1 /\ Cardinality(files.full) <= 1
      BY <3>1, SmallSets
    <3>3. QED
      BY <3>2 DEF SmallDir
  <2>3. BackoffsOK
    BY DEF Init, BackoffsOK, Rested
  <2>4. FlightForAll
    BY DEF Init, FlightForAll, IdleReader
  <2>5. QED
    BY <2>1, <2>2, <2>3, <2>4 DEF RestInv
<1>2. CacheInv /\ RestInv /\ [Next]_vars => RestInv'
  <2> SUFFICES ASSUME CacheInv, RestInv, [Next]_vars PROVE RestInv'
    OBVIOUS
  <2>1. restarts' \in 0 .. MaxRestarts
    <3>1. CASE restarts' = restarts
      BY <3>1 DEF RestInv
    <3>2. CASE Restart
      BY <3>2, BoundsAssumption DEF Restart, RestInv
    <3>3. restarts' = restarts \/ Restart
      BY DEF Next, vars, env, Read, Attach, ServerChanges, ServerTurns, SyncSaves, FolderSaved,
             Purge, Evict, MsgAnswer, MsgWrites, ReadCached, ReadRemote, ReaderEnds, AttBegins,
             Download, RefreshAnswer, RefreshWrites, Retry, AttWrites, BackoffEnds
    <3>4. QED
      BY <3>1, <3>2, <3>3
  <2>2. QED
    BY <2>1, DirStaysSmall, BackoffsStay, FlightsStay DEF RestInv
<1>3. CacheInv /\ RestInv => TypeOK
  BY DEF CacheInv, Shape, RestInv, SmallDir, BackoffsOK, FlightForAll, TypeOK
<1>4. QED
  BY <1>1, <1>2, <1>3, CacheInvInductive, PTL DEF Spec
=============================================================================
