--------------------------- MODULE CalendarAliases ---------------------------
(***************************************************************************)
(* The calendar in memory (sync.go 641-751, 796-1178): visible events and  *)
(* the aliases of ServerIDs folded into them, changed by the pages of a    *)
(* pass and by CalDAV writes, with the batch of mutations a pass collects  *)
(* (state.go 675-720) and the state a restart would read from the files.   *)
(*                                                                         *)
(* An event is its UID and a body, which stands for every other field.     *)
(* When a page is the last to go into a batch (every tenth, a stalled one) *)
(* is left open; CalendarStore has the counters, the files and the key.    *)
(***************************************************************************)
EXTENDS Integers, FiniteSets, FiniteSetsExt, Functions

CONSTANTS
    IDs,        \* ServerIDs; strings in the program, only their order matters
    UIDs, NoUID,
    Bodies,
    MaxStable,  \* maxCalendarStableAliases, 8 in the program
    MaxAdded,   \* bound: additions on one page
    PagesPerSave,   \* pages to a batch, 10 in the program
    Faults      \* subset of {"saveFails", "pageError", "crossed", "refold"}

ASSUME IDsAssumption ==
    /\ IDs \subseteq Nat
    /\ \A S \in SUBSET IDs : S # {} => \E x \in S : \A y \in S : x <= y
ASSUME PagesAssumption == PagesPerSave \in Nat \ {0}

VARIABLES
    cal,    \* st.Events, st.EventAliases and the pending batch of the pass
    saved,  \* events and aliases as events.json and events.jsonl restore them
    pass,   \* idle, between pages, or with a replayed page under s.mu
    page,   \* pages pulled since the pass began or reached a multiple of ten
    todo,   \* what is left of that page
    retired,    \* ServerIDs the server has deleted: it never uses them again
    ahead   \* history: a batch was dropped, memory is ahead of the files

vars == <<cal, saved, pass, page, todo, retired, ahead>>

Events == [uid : UIDs \cup {NoUID}, body : Bodies]
Aliases == [target : IDs, uid : UIDs \cup {NoUID}, replay : BOOLEAN]

Partial(S) == UNION {[D -> S] : D \in SUBSET IDs}

Items == [id : IDs, ev : Events]
Batches == [upserts : Partial(Events), deletes : SUBSET IDs,
            aliases : Partial(Aliases), aliasDeletes : SUBSET IDs]
Calendars == [events : Partial(Events), aliases : Partial(Aliases), batch : Batches]

-----------------------------------------------------------------------------
(* calendarMutations: of each ServerID only the last mutation is kept.     *)

None == [x \in {} |-> x]
Forget(f, S) == Restrict(f, DOMAIN f \ S)
Over(g, f) == [x \in DOMAIN g \cup DOMAIN f |-> IF x \in DOMAIN g THEN g[x] ELSE f[x]]
With(f, k, v) == Over([x \in {k} |-> v], f)

Batch(upserts, deletes, aliases, aliasDeletes) ==
    [upserts |-> upserts, deletes |-> deletes,
     aliases |-> aliases, aliasDeletes |-> aliasDeletes]

Calendar(events, aliases, batch) ==
    [events |-> events, aliases |-> aliases, batch |-> batch]

AliasTo(target, uid, replay) == [target |-> target, uid |-> uid, replay |-> replay]

WithBatch(s, b) == Calendar(s.events, s.aliases, b)

EmptyBatch == Batch(None, {}, None, {})

RecordUpsert(b, id, ev) ==
    Batch(With(b.upserts, id, ev), b.deletes \ {id}, b.aliases, b.aliasDeletes)

RecordDelete(b, id) ==
    Batch(Forget(b.upserts, {id}), b.deletes \cup {id}, b.aliases, b.aliasDeletes)

(* Slip: an alias is recorded beside its own deletion.                     *)
RecordAliasBeside(b, id, a) ==
    Batch(b.upserts, b.deletes, With(b.aliases, id, a), b.aliasDeletes)

RecordAlias(b, id, a) ==
    Batch(b.upserts, b.deletes, With(b.aliases, id, a), b.aliasDeletes \ {id})

(* Slip: the alias recorded earlier in the batch stays.                    *)
RecordAliasDeleteToo(b, id) ==
    Batch(b.upserts, b.deletes, b.aliases, b.aliasDeletes \cup {id})

RecordAliasDelete(b, id) ==
    Batch(b.upserts, b.deletes, Forget(b.aliases, {id}), b.aliasDeletes \cup {id})

(* One batch replayed: deletions first, then upserts, then aliases.        *)
Replayed(s, b) ==
    LET upserted == Over(b.upserts, Forget(s.events, b.deletes))
        kept == Forget(s.aliases, b.aliasDeletes \cup DOMAIN b.upserts)
    IN  [events |-> Forget(upserted, DOMAIN b.aliases),
         aliases |-> Over(b.aliases, kept)]

(* normalize: what loadState does to the aliases it has read.              *)
Normalized(s) ==
    LET good == {a \in DOMAIN s.aliases :
                   /\ a \notin DOMAIN s.events
                   /\ s.aliases[a].target # a
                   /\ s.aliases[a].target \in DOMAIN s.events}
        Rotated(x) == x.uid \notin {NoUID, s.events[x.target].uid}
    IN  [events |-> s.events,
         aliases |-> [a \in good |-> LET x == s.aliases[a] IN
                        AliasTo(x.target, x.uid, x.replay \/ Rotated(x))]]

-----------------------------------------------------------------------------
(* The operations on the calendar, each with what it records.              *)

ShowEvent(c, id, ev) ==
    Calendar(With(c.events, id, ev), c.aliases, RecordUpsert(c.batch, id, ev))

HideEvent(c, id) ==
    Calendar(Forget(c.events, {id}), c.aliases, RecordDelete(c.batch, id))

SetAlias(c, id, a) ==
    Calendar(c.events, With(c.aliases, id, a), RecordAlias(c.batch, id, a))

DropAlias(c, id) ==
    Calendar(c.events, Forget(c.aliases, {id}), RecordAliasDelete(c.batch, id))

DropAliases(c, S) ==
    LET b == c.batch IN
    Calendar(c.events, Forget(c.aliases, S),
             Batch(b.upserts, b.deletes, Forget(b.aliases, S), b.aliasDeletes \cup S))

(* findEquivalent, with and without the UID.                               *)
Twins(events, ev) == {id \in DOMAIN events : events[id] = ev}
Lookalikes(events, ev) == {id \in DOMAIN events : events[id].body = ev.body}

Members(aliases, id) == {a \in DOMAIN aliases : aliases[a].target = id}

(* canonicalCalendarEvent: the visible event a ServerID stands for.        *)
Canonical(c, id) ==
    IF id \in DOMAIN c.events THEN {id}
    ELSE {t \in DOMAIN c.events : id \in Members(c.aliases, t)}

Covered(c, id, ev) ==
    /\ id \in DOMAIN c.aliases
    /\ \E t \in Canonical(c, id) : c.events[t].body = ev.body

WithoutAlias(c, id) == IF id \in DOMAIN c.aliases THEN DropAlias(c, id) ELSE c

(* Slip: a replayed record with a new UID is taken for a new meeting.      *)
AddByUID(c, id, ev, replay) ==
    LET d == WithoutAlias(c, id)
        same == IF ev.uid = NoUID THEN {} ELSE Twins(d.events, ev)
    IN  CASE id \in DOMAIN c.events -> IF c.events[id] = ev THEN c ELSE ShowEvent(c, id, ev)
          [] Covered(c, id, ev) -> SetAlias(c, id, AliasTo(c.aliases[id].target, ev.uid, FALSE))
          [] OTHER -> IF same = {} THEN ShowEvent(d, id, ev)
                      ELSE SetAlias(d, id, AliasTo(Min(same), ev.uid, replay))

AddEvent(c, id, ev, replay) ==
    LET a == c.aliases[id]
        d == WithoutAlias(c, id)
        same == IF ev.uid = NoUID THEN {} ELSE Twins(d.events, ev)
        like == IF same = {} /\ replay THEN Lookalikes(d.events, ev) ELSE same
    IN  CASE id \in DOMAIN c.events ->
               IF c.events[id] = ev THEN c ELSE ShowEvent(c, id, ev)
          [] Covered(c, id, ev) ->
               IF a.uid # ev.uid \/ (replay /\ ~a.replay)
               THEN SetAlias(c, id, AliasTo(a.target, ev.uid, a.replay \/ replay))
               ELSE c
          [] OTHER ->
               IF like = {} THEN ShowEvent(d, id, ev)
               ELSE SetAlias(d, id, AliasTo(Min(like), ev.uid, replay))

(* A Change never folds: an alias that differs becomes an event again.     *)
ChangeEvent(c, id, ev) ==
    LET a == c.aliases[id] IN
    IF Covered(c, id, ev)
    THEN IF a.uid = ev.uid THEN c ELSE SetAlias(c, id, AliasTo(a.target, ev.uid, a.replay))
    ELSE IF id \in DOMAIN c.events /\ c.events[id] = ev THEN c
         ELSE ShowEvent(WithoutAlias(c, id), id, ev)

(* Slip: the event goes although aliases still stand for it.               *)
DeleteWithMembers(c, id) ==
    IF id \in DOMAIN c.aliases THEN DropAlias(c, id)
    ELSE IF id \notin DOMAIN c.events THEN c
    ELSE DropAliases(HideEvent(c, id), Members(c.aliases, id))

(* The event under the ServerID of its smallest alias, with that UID.      *)
Handed(c, id, heir) ==
    ShowEvent(HideEvent(DropAlias(c, heir), id), heir,
              [uid |-> c.aliases[heir].uid, body |-> c.events[id].body])

(* Slip: the remaining aliases keep pointing at the deleted ServerID.      *)
PromoteOnly(c, id, members) == Handed(c, id, Min(members))

(* The smallest alias becomes the event, the others follow it.             *)
Promote(c, id, members) ==
    LET heir == Min(members)
        d == Handed(c, id, heir)
        moved == [a \in members \ {heir} |->
                    AliasTo(heir, c.aliases[a].uid, c.aliases[a].replay)]
        b == d.batch
    IN  Calendar(d.events, Over(moved, d.aliases),
                 Batch(b.upserts, b.deletes, Over(moved, b.aliases),
                       b.aliasDeletes \ DOMAIN moved))

DeleteEvent(c, id) ==
    LET members == Members(c.aliases, id)
    IN  CASE id \in DOMAIN c.aliases -> DropAlias(c, id)
          [] id \notin DOMAIN c.aliases \cup DOMAIN c.events -> c
          [] OTHER -> IF members = {} THEN HideEvent(c, id)
                      ELSE Promote(c, id, members)

(* dedupeEquivalentCalendarEventsLocked, and the batch that records it.    *)
Folded(events) ==
    {id \in DOMAIN events : events[id].uid # NoUID
                            /\ Min(Twins(events, events[id])) # id}

Deduped(c) ==
    LET folded == Folded(c.events)
        new == [id \in folded |->
                  AliasTo(Min(Twins(c.events, c.events[id])), c.events[id].uid, FALSE)]
    IN  Calendar(Forget(c.events, folded), Over(new, c.aliases),
                 Batch(None, folded, new, {}))

(* calendarPageIsDuplicateReplay: a page that only adds, with more to      *)
(* come, on which nothing looks new.                                       *)
IsReplay(c, added) ==
    /\ Cardinality(added) >= 2
    /\ \A i \in added :
         LET t == Canonical(c, i.id) IN
         IF t # {} THEN \A x \in t : c.events[x].body = i.ev.body
                   ELSE Lookalikes(c.events, i.ev) # {}

(* pruneCalendarReplayAliasesLocked: aliases of the page's events that are *)
(* not on the page go if they came from a replay, and beyond MaxStable.    *)
Pruned(c, added) ==
    LET Stands(i) == IF Canonical(c, i.id) # {} THEN Canonical(c, i.id)
                     ELSE {Min(Lookalikes(c.events, i.ev))}
        Current(t) == {i.id : i \in {j \in added : t \in Stands(j)}}
        touched == UNION {Stands(i) : i \in added}
        Old(t) == Members(c.aliases, t) \ Current(t)
        Stable(t) == {a \in Old(t) : ~c.aliases[a].replay}
        Excess(t) == {a \in Stable(t) :
                        Cardinality({b \in Stable(t) : b > a}) >= MaxStable}
    IN  DropAliases(c, UNION {(Old(t) \ Stable(t)) \cup Excess(t) : t \in touched})

-----------------------------------------------------------------------------
TypeOK ==
    /\ cal \in Calendars
    /\ DOMAIN cal.batch.upserts \cap cal.batch.deletes = {}
    /\ DOMAIN cal.batch.aliases \cap cal.batch.aliasDeletes = {}
    /\ saved \in [events : Partial(Events), aliases : Partial(Aliases)]
    /\ pass \in {"idle", "paging", "replay"}
    /\ page \in 0 .. PagesPerSave - 1
    /\ todo \subseteq Items
    /\ pass = "idle" => cal.batch = EmptyBatch /\ page = 0
    /\ pass # "replay" => todo = {}
    /\ retired \subseteq IDs
    /\ ahead \in BOOLEAN

Init ==
    /\ cal = Calendar(None, None, EmptyBatch)
    /\ saved = [events |-> None, aliases |-> None]
    /\ pass = "idle"
    /\ page = 0
    /\ todo = {}
    /\ retired = {}
    /\ ahead = FALSE

(* The append, or the main file after it, may fail: the batch is gone.     *)
SaveBatch(b) ==
    \/ saved' = Replayed(saved, b) /\ UNCHANGED ahead
    \/ "saveFails" \in Faults /\ b # EmptyBatch /\ ahead' = TRUE /\ UNCHANGED saved

(* Assumed of the server unless "refold": what it sends never makes an     *)
(* event with aliases the equal of an older one (README, section 3).       *)
MayFold(s) ==
    "refold" \in Faults \/ \A id \in Folded(s.events) : Members(s.aliases, id) = {}

(* syncCalendarOnce begins by folding duplicates, as a batch of its own.   *)
StartPass ==
    /\ pass = "idle" /\ MayFold(cal)
    /\ LET d == Deduped(cal) IN
         /\ cal' = WithBatch(d, EmptyBatch)
         /\ SaveBatch(d.batch)
         /\ pass' = IF ahead' = ahead THEN "paging" ELSE "idle"
    /\ UNCHANGED <<page, todo, retired>>

Named(b) == DOMAIN b.upserts \cup b.deletes \cup DOMAIN b.aliases \cup b.aliasDeletes

(* The end of a page that left c.  Every tenth page and the last (or a     *)
(* stalled one) append the batch; if that fails, the pass ends.            *)
FinishPage(c) ==
    /\ todo' = {}
    /\ \/ /\ page + 1 < PagesPerSave
          /\ cal' = c /\ pass' = "paging" /\ page' = page + 1
          /\ UNCHANGED <<saved, ahead>>
       \/ /\ cal' = WithBatch(c, EmptyBatch) /\ page' = 0
          /\ SaveBatch(c.batch)
          /\ \/ pass' = "idle"
             \/ pass' = "paging" /\ page + 1 = PagesPerSave /\ ahead' = ahead

(* Pages of one record.  A larger page that is no replay does what several *)
(* of these do: they are judged alike, and the batch may wait between them.*)
PullAdded(i) ==
    /\ pass = "paging" /\ i.id \notin retired
    /\ FinishPage(AddEvent(cal, i.id, i.ev, FALSE))
    /\ UNCHANGED retired

PullChanged(i) ==
    /\ pass = "paging" /\ i.id \notin retired
    /\ FinishPage(ChangeEvent(cal, i.id, i.ev))
    /\ UNCHANGED retired

PullDeleted(id) ==
    /\ pass = "paging"
    /\ FinishPage(DeleteEvent(cal, id))
    /\ retired' = retired \cup {id}

(* A replayed page: under s.mu it is judged and aliases are pruned, then   *)
(* its records are applied one by one, in the order the server chose.      *)
PullReplay(added) ==
    /\ pass = "paging" /\ IsReplay(cal, added)
    /\ retired \cap {i.id : i \in added} = {}
    /\ cal' = Pruned(cal, added)
    /\ todo' = added
    /\ pass' = "replay"
    /\ UNCHANGED <<saved, page, retired, ahead>>

ApplyReplayed(i) ==
    /\ pass = "replay" /\ i \in todo
    /\ LET c == AddEvent(cal, i.id, i.ev, TRUE) IN
         IF todo = {i} THEN FinishPage(c)
         ELSE /\ cal' = c
              /\ todo' = todo \ {i}
              /\ UNCHANGED <<saved, pass, page, ahead>>
    /\ UNCHANGED retired

(* A page request fails and the pass ends, or, after Status 5, starts      *)
(* again: the batch is dropped, what it did to memory stays.               *)
PageError ==
    /\ "pageError" \in Faults /\ pass = "paging"
    /\ pass' \in {"idle", "paging"} /\ page' = 0
    /\ ahead' = (ahead \/ cal.batch # EmptyBatch)
    /\ cal' = WithBatch(cal, EmptyBatch)
    /\ UNCHANGED <<saved, todo, retired>>

-----------------------------------------------------------------------------
(* CalDAV's writes take s.mu between two pages and append at once.         *)

(* Unless "crossed": no write to a ServerID the pending batch names.       *)
Writable(S) == pass # "replay" /\ ("crossed" \in Faults \/ S \cap Named(cal.batch) = {})

UpsertEvent(id, ev) ==
    /\ Writable({id}) /\ id \notin retired
    /\ LET b == RecordAliasDelete(RecordUpsert(EmptyBatch, id, ev), id) IN
         /\ cal' = WithBatch(Replayed(cal, b), cal.batch)
         /\ SaveBatch(b)
    /\ UNCHANGED <<pass, page, todo, retired>>

RemoveEvent(id) ==
    LET gone == Members(cal.aliases, id) \cup ({id} \cap DOMAIN cal.aliases)
        b == Batch(None, {id}, None, gone)
    IN  /\ Writable({id} \cup gone)
        /\ cal' = WithBatch(Replayed(cal, b), cal.batch)
        /\ SaveBatch(b)
        /\ retired' = retired \cup {id}
        /\ UNCHANGED <<pass, page, todo>>

(* The process dies, reads its files and repairs duplicates (newSyncEngine *)
(* writes a snapshot if it found any).                                     *)
Restart ==
    LET s == Normalized(saved)
        d == Deduped(s)
        found == Folded(s.events) # {}
    IN  /\ MayFold(s)
        /\ cal' = WithBatch(d, EmptyBatch)
        /\ saved' = IF found THEN [events |-> d.events, aliases |-> d.aliases] ELSE saved
        /\ pass' = "idle" /\ page' = 0 /\ todo' = {}
        /\ UNCHANGED <<retired, ahead>>

(* Additions that can make up one page.                                    *)
Additions ==
    {s \in UNION {kSubset(k, Items) : k \in 2 .. MaxAdded} :
        \A i, j \in s : i.id = j.id => i = j}

Next ==
    \/ StartPass \/ PageError \/ Restart
    \/ \E i \in Items : PullAdded(i) \/ PullChanged(i) \/ ApplyReplayed(i)
    \/ \E id \in IDs : PullDeleted(id) \/ RemoveEvent(id)
    \/ \E added \in Additions : PullReplay(added)
    \/ \E id \in IDs, ev \in Events : UpsertEvent(id, ev)

Spec == Init /\ [][Next]_vars

-----------------------------------------------------------------------------
(* DEV-NOTES.md:131: an alias leads to a visible event and is not itself   *)
(* one.  Folding, splitting, promotion, CalDAV's deletions and the loading *)
(* of old files each have to see to it.                                    *)
AliasesReachEvents ==
    \A a \in DOMAIN cal.aliases :
        /\ a \notin DOMAIN cal.events
        /\ cal.aliases[a].target \in DOMAIN cal.events

(* state.go 675-677: keeping only the last mutation of each ServerID loses *)
(* nothing: the files and the pending batch together give back what is in  *)
(* memory, in whatever order events became aliases and back within it.     *)
(* The mark replay is left out: normalize sets it again where UIDs differ. *)
Meaning(s) ==
    <<s.events, [a \in DOMAIN s.aliases |-> <<s.aliases[a].target, s.aliases[a].uid>>]>>

BatchRestoresMemory ==
    ahead \/ Meaning(Normalized(Replayed(saved, cal.batch))) = Meaning(Normalized(cal))

Face(c) == [id \in DOMAIN c.events |-> c.events[id].body]
Shown(c, id) == {c.events[t].body : t \in Canonical(c, id)}

(* sync.go 1121-1123: deleting one ServerID takes no meeting from another  *)
(* that stands for it, canonical or alias.                                 *)
DeleteSparesOthers ==
    [][\A id \in IDs : PullDeleted(id) =>
         \A other \in (DOMAIN cal.events \cup DOMAIN cal.aliases) \ {id} :
             Shown(cal', other) = Shown(cal, other)]_vars

(* Nothing a replayed page carries is shown to the user a second time, and *)
(* nothing shown goes away, whichever record of the page comes first.      *)
ReplayShowsNothingNew ==
    [][(\E i \in todo : ApplyReplayed(i)) => Face(cal') = Face(cal)]_vars
=============================================================================
