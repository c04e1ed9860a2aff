------------------------ MODULE CalendarAliasesProofs -------------------------
(***************************************************************************)
(* Proofs about CalendarAliases, for any ServerIDs, UIDs, bodies and       *)
(* bounds: its types; that every alias leads to a visible event; that a    *)
(* deletion spares the others and a replayed page shows nothing new; and   *)
(* that the batch, replayed on the files, gives back what is in memory.    *)
(***************************************************************************)
EXTENDS CalendarAliases, TLAPS

-----------------------------------------------------------------------------
(* Partial maps from ServerIDs.                                            *)

(* A map on some ServerIDs is a partial map, and the other way round.      *)
LEMMA PartialMaps ==
    ASSUME NEW S, NEW f
    PROVE  /\ f \in Partial(S) => f \in [DOMAIN f -> S] /\ DOMAIN f \subseteq IDs
           /\ \A D \in SUBSET IDs : f \in [D -> S] => f \in Partial(S)
  BY DEF Partial

(* The empty map, forgetting, merging and adding keep a map partial.       *)
LEMMA NonePartial == ASSUME NEW S PROVE None \in Partial(S) /\ DOMAIN None = {}
<1>1. None \in [{} -> S]
  BY DEF None
<1>2. QED
  BY <1>1, PartialMaps

LEMMA ForgetPartial ==
    ASSUME NEW S, NEW f \in Partial(S), NEW X
    PROVE  /\ Forget(f, X) \in Partial(S)
           /\ DOMAIN Forget(f, X) = DOMAIN f \ X
           /\ \A x \in DOMAIN f \ X : Forget(f, X)[x] = f[x]
<1>1. f \in [DOMAIN f -> S] /\ DOMAIN f \subseteq IDs
  BY PartialMaps
<1>2. Forget(f, X) \in [DOMAIN f \ X -> S]
  BY <1>1 DEF Forget, Restrict
<1>3. DOMAIN f \ X \in SUBSET IDs
  BY <1>1
<1>4. Forget(f, X) \in Partial(S)
  BY <1>2, <1>3, PartialMaps
<1>5. QED
  BY <1>4 DEF Forget, Restrict

LEMMA OverPartial ==
    ASSUME NEW S, NEW f \in Partial(S), NEW g \in Partial(S)
    PROVE  /\ Over(g, f) \in Partial(S)
           /\ DOMAIN Over(g, f) = DOMAIN g \cup DOMAIN f
           /\ \A x \in DOMAIN g \cup DOMAIN f :
                Over(g, f)[x] = IF x \in DOMAIN g THEN g[x] ELSE f[x]
<1>1. f \in [DOMAIN f -> S] /\ DOMAIN f \subseteq IDs
  BY PartialMaps
<1>2. g \in [DOMAIN g -> S] /\ DOMAIN g \subseteq IDs
  BY PartialMaps
<1>3. Over(g, f) \in [DOMAIN g \cup DOMAIN f -> S]
  BY <1>1, <1>2 DEF Over
<1>4. DOMAIN g \cup DOMAIN f \in SUBSET IDs
  BY <1>1, <1>2
<1>5. Over(g, f) \in Partial(S)
  BY <1>3, <1>4, PartialMaps
<1>6. QED
  BY <1>5 DEF Over

LEMMA WithPartial ==
    ASSUME NEW S, NEW f \in Partial(S), NEW k \in IDs, NEW v \in S
    PROVE  /\ With(f, k, v) \in Partial(S)
           /\ DOMAIN With(f, k, v) = DOMAIN f \cup {k}
           /\ \A x \in DOMAIN f \cup {k} :
                With(f, k, v)[x] = IF x = k THEN v ELSE f[x]
<1> DEFINE g == [x \in {k} |-> v]
<1>1. g \in [{k} -> S] /\ {k} \in SUBSET IDs /\ DOMAIN g = {k} /\ g[k] = v
  OBVIOUS
<1>2. g \in Partial(S)
  BY <1>1, PartialMaps
<1> HIDE DEF g
<1>3. /\ Over(g, f) \in Partial(S)
      /\ DOMAIN Over(g, f) = DOMAIN g \cup DOMAIN f
      /\ \A x \in DOMAIN g \cup DOMAIN f :
           Over(g, f)[x] = IF x \in DOMAIN g THEN g[x] ELSE f[x]
  BY <1>2, OverPartial
<1>4. With(f, k, v) = Over(g, f)
  BY DEF With, g
<1>5. QED
  BY <1>1, <1>3, <1>4

(* The least of some ServerIDs is one of them, and below the others.       *)
LEMMA LeastID ==
    ASSUME NEW S \in SUBSET IDs, S # {}
    PROVE  Min(S) \in S /\ \A y \in S : Min(S) <= y
<1> DEFINE Least(z) == z \in S /\ \A y \in S : z <= y
<1>1. \E z : Least(z)
  BY IDsAssumption
<1>2. Min(S) = CHOOSE z : Least(z)
  BY DEF Min
<1> HIDE DEF Least
<1>3. Least(CHOOSE z : Least(z))
  BY <1>1
<1>4. QED
  BY <1>2, <1>3 DEF Least

-----------------------------------------------------------------------------
(* Batches, and the calendars in which aliases reach events.               *)

Disjoint(b) ==
    /\ DOMAIN b.upserts \cap b.deletes = {}
    /\ DOMAIN b.aliases \cap b.aliasDeletes = {}

GoodBatch(b) == b \in Batches /\ Disjoint(b)

Reach(events, aliases) ==
    \A a \in DOMAIN aliases :
        a \notin DOMAIN events /\ aliases[a].target \in DOMAIN events

Good(c) == c \in Calendars /\ Disjoint(c.batch) /\ Reach(c.events, c.aliases)

(* The parts of a batch and of a calendar.                                 *)
LEMMA BatchParts ==
    ASSUME NEW b, GoodBatch(b)
    PROVE  /\ b.upserts \in Partial(Events) /\ b.deletes \in SUBSET IDs
           /\ b.aliases \in Partial(Aliases) /\ b.aliasDeletes \in SUBSET IDs
  BY DEF GoodBatch, Batches

LEMMA CalendarParts ==
    ASSUME NEW c, Good(c)
    PROVE  /\ c.events \in Partial(Events) /\ c.aliases \in Partial(Aliases)
           /\ GoodBatch(c.batch) /\ Reach(c.events, c.aliases)
  BY DEF Good, Calendars, GoodBatch

(* What With and Forget make of events and of aliases.                     *)
LEMMA EventMaps ==
    ASSUME NEW f \in Partial(Events), NEW id \in IDs
    PROVE  /\ Forget(f, {id}) \in Partial(Events)
           /\ DOMAIN Forget(f, {id}) = DOMAIN f \ {id}
           /\ \A x \in DOMAIN f \ {id} : Forget(f, {id})[x] = f[x]
           /\ \A ev \in Events :
                /\ With(f, id, ev) \in Partial(Events)
                /\ DOMAIN With(f, id, ev) = DOMAIN f \cup {id}
                /\ \A x \in DOMAIN f \cup {id} :
                     With(f, id, ev)[x] = IF x = id THEN ev ELSE f[x]
<1>1. /\ Forget(f, {id}) \in Partial(Events)
      /\ DOMAIN Forget(f, {id}) = DOMAIN f \ {id}
      /\ \A x \in DOMAIN f \ {id} : Forget(f, {id})[x] = f[x]
  BY ForgetPartial
<1>2. ASSUME NEW ev \in Events
      PROVE  /\ With(f, id, ev) \in Partial(Events)
             /\ DOMAIN With(f, id, ev) = DOMAIN f \cup {id}
             /\ \A x \in DOMAIN f \cup {id} :
                  With(f, id, ev)[x] = IF x = id THEN ev ELSE f[x]
  BY WithPartial
<1>3. QED
  BY <1>1, <1>2

LEMMA EventForget ==
    ASSUME NEW f \in Partial(Events), NEW X
    PROVE  /\ Forget(f, X) \in Partial(Events)
           /\ DOMAIN Forget(f, X) = DOMAIN f \ X
           /\ \A x \in DOMAIN f \ X : Forget(f, X)[x] = f[x]
  BY ForgetPartial

LEMMA AliasMaps ==
    ASSUME NEW f \in Partial(Aliases), NEW X
    PROVE  /\ Forget(f, X) \in Partial(Aliases)
           /\ DOMAIN Forget(f, X) = DOMAIN f \ X
           /\ \A x \in DOMAIN f \ X : Forget(f, X)[x] = f[x]
  BY ForgetPartial

LEMMA AliasSet ==
    ASSUME NEW f \in Partial(Aliases), NEW id \in IDs, NEW a \in Aliases
    PROVE  /\ With(f, id, a) \in Partial(Aliases)
           /\ DOMAIN With(f, id, a) = DOMAIN f \cup {id}
           /\ \A x \in DOMAIN f \cup {id} :
                With(f, id, a)[x] = IF x = id THEN a ELSE f[x]
  BY WithPartial

(* Recording a mutation yields a batch again.                              *)
LEMMA RecordsGood ==
    ASSUME NEW b, GoodBatch(b), NEW id \in IDs
    PROVE  /\ GoodBatch(RecordDelete(b, id))
           /\ GoodBatch(RecordAliasDelete(b, id))
           /\ \A ev \in Events : GoodBatch(RecordUpsert(b, id, ev))
           /\ \A a \in Aliases : GoodBatch(RecordAlias(b, id, a))
<1>0. /\ b.upserts \in Partial(Events) /\ b.deletes \in SUBSET IDs
      /\ b.aliases \in Partial(Aliases) /\ b.aliasDeletes \in SUBSET IDs
      /\ DOMAIN b.upserts \cap b.deletes = {}
      /\ DOMAIN b.aliases \cap b.aliasDeletes = {}
  BY BatchParts DEF GoodBatch, Disjoint
<1>1. GoodBatch(RecordDelete(b, id))
  <2>1. /\ Forget(b.upserts, {id}) \in Partial(Events)
        /\ DOMAIN Forget(b.upserts, {id}) = DOMAIN b.upserts \ {id}
    BY <1>0, EventMaps
  <2>2. QED
    BY <1>0, <2>1 DEF RecordDelete, Batch, GoodBatch, Batches, Disjoint
<1>2. GoodBatch(RecordAliasDelete(b, id))
  <2>1. /\ Forget(b.aliases, {id}) \in Partial(Aliases)
        /\ DOMAIN Forget(b.aliases, {id}) = DOMAIN b.aliases \ {id}
    BY <1>0, AliasMaps
  <2>2. QED
    BY <1>0, <2>1 DEF RecordAliasDelete, Batch, GoodBatch, Batches, Disjoint
<1>3. ASSUME NEW ev \in Events PROVE GoodBatch(RecordUpsert(b, id, ev))
  <2>1. /\ With(b.upserts, id, ev) \in Partial(Events)
        /\ DOMAIN With(b.upserts, id, ev) = DOMAIN b.upserts \cup {id}
    BY <1>0, EventMaps
  <2>2. QED
    BY <1>0, <2>1 DEF RecordUpsert, Batch, GoodBatch, Batches, Disjoint
<1>4. ASSUME NEW a \in Aliases PROVE GoodBatch(RecordAlias(b, id, a))
  <2>1. /\ With(b.aliases, id, a) \in Partial(Aliases)
        /\ DOMAIN With(b.aliases, id, a) = DOMAIN b.aliases \cup {id}
    BY <1>0, AliasSet
  <2>2. QED
    BY <1>0, <2>1 DEF RecordAlias, Batch, GoodBatch, Batches, Disjoint
<1>5. QED
  BY <1>1, <1>2, <1>3, <1>4

(* The empty batch is one.                                                 *)
LEMMA EmptyBatchGood == GoodBatch(EmptyBatch)
  BY NonePartial DEF EmptyBatch, Batch, GoodBatch, Batches, Disjoint

(* Good put together from its parts.                                       *)
LEMMA MakeGood ==
    ASSUME NEW e \in Partial(Events), NEW a \in Partial(Aliases),
           NEW b, GoodBatch(b), Reach(e, a)
    PROVE  Good(Calendar(e, a, b))
  BY DEF Good, Calendar, Calendars, GoodBatch

(* A ServerID that is no alias may become or stay an event.                *)
LEMMA ShowGood ==
    ASSUME NEW c, Good(c), NEW id \in IDs \ DOMAIN c.aliases, NEW ev \in Events
    PROVE  Good(ShowEvent(c, id, ev))
<1>1. /\ c.events \in Partial(Events) /\ c.aliases \in Partial(Aliases)
      /\ GoodBatch(c.batch) /\ Reach(c.events, c.aliases)
  BY CalendarParts
<1>2. /\ With(c.events, id, ev) \in Partial(Events)
      /\ DOMAIN With(c.events, id, ev) = DOMAIN c.events \cup {id}
  BY <1>1, EventMaps
<1>3. GoodBatch(RecordUpsert(c.batch, id, ev))
  BY <1>1, RecordsGood
<1>4. Reach(With(c.events, id, ev), c.aliases)
  BY <1>1, <1>2 DEF Reach
<1>5. QED
  BY <1>1, <1>2, <1>3, <1>4, MakeGood DEF ShowEvent

(* An event nobody stands for may go.                                      *)
LEMMA HideGood ==
    ASSUME NEW c, Good(c), NEW id \in IDs, Members(c.aliases, id) = {}
    PROVE  Good(HideEvent(c, id))
<1>1. /\ c.events \in Partial(Events) /\ c.aliases \in Partial(Aliases)
      /\ GoodBatch(c.batch) /\ Reach(c.events, c.aliases)
  BY CalendarParts
<1>2. /\ Forget(c.events, {id}) \in Partial(Events)
      /\ DOMAIN Forget(c.events, {id}) = DOMAIN c.events \ {id}
  BY <1>1, EventMaps
<1>3. GoodBatch(RecordDelete(c.batch, id))
  BY <1>1, RecordsGood
<1>4. Reach(Forget(c.events, {id}), c.aliases)
  BY <1>1, <1>2 DEF Reach, Members
<1>5. QED
  BY <1>1, <1>2, <1>3, <1>4, MakeGood DEF HideEvent

(* A ServerID that is no event may become an alias of one.                 *)
LEMMA SetAliasGood ==
    ASSUME NEW c, Good(c), NEW id \in IDs \ DOMAIN c.events,
           NEW a \in Aliases, a.target \in DOMAIN c.events
    PROVE  Good(SetAlias(c, id, a))
<1>1. /\ c.events \in Partial(Events) /\ c.aliases \in Partial(Aliases)
      /\ GoodBatch(c.batch) /\ Reach(c.events, c.aliases)
  BY CalendarParts
<1>2. /\ With(c.aliases, id, a) \in Partial(Aliases)
      /\ DOMAIN With(c.aliases, id, a) = DOMAIN c.aliases \cup {id}
      /\ \A x \in DOMAIN c.aliases \cup {id} :
           With(c.aliases, id, a)[x] = IF x = id THEN a ELSE c.aliases[x]
  <2>1. id \in IDs /\ a \in Aliases /\ c.aliases \in Partial(Aliases)
    BY <1>1
  <2>2. QED
    BY <2>1, AliasSet
<1>3. GoodBatch(RecordAlias(c.batch, id, a))
  BY <1>1, RecordsGood
<1>4. Reach(c.events, With(c.aliases, id, a))
  BY <1>1, <1>2 DEF Reach
<1>5. QED
  BY <1>1, <1>2, <1>3, <1>4, MakeGood DEF SetAlias

(* Dropping aliases harms no other.                                        *)
LEMMA DropAliasesGood ==
    ASSUME NEW c, Good(c), NEW S \in SUBSET IDs
    PROVE  Good(DropAliases(c, S))
<1>1. /\ c.events \in Partial(Events) /\ c.aliases \in Partial(Aliases)
      /\ GoodBatch(c.batch) /\ Reach(c.events, c.aliases)
  BY CalendarParts
<1>2. /\ Forget(c.aliases, S) \in Partial(Aliases)
      /\ DOMAIN Forget(c.aliases, S) = DOMAIN c.aliases \ S
      /\ \A x \in DOMAIN c.aliases \ S : Forget(c.aliases, S)[x] = c.aliases[x]
  BY <1>1, AliasMaps
<1> DEFINE b == c.batch
<1> DEFINE d == Batch(b.upserts, b.deletes, Forget(b.aliases, S), b.aliasDeletes \cup S)
<1>3. GoodBatch(d)
  <2>1. /\ b.upserts \in Partial(Events) /\ b.deletes \in SUBSET IDs
        /\ b.aliases \in Partial(Aliases) /\ b.aliasDeletes \in SUBSET IDs
        /\ DOMAIN b.upserts \cap b.deletes = {}
        /\ DOMAIN b.aliases \cap b.aliasDeletes = {}
    BY <1>1, BatchParts DEF GoodBatch, Disjoint
  <2>2. /\ Forget(b.aliases, S) \in Partial(Aliases)
        /\ DOMAIN Forget(b.aliases, S) = DOMAIN b.aliases \ S
    BY <2>1, AliasMaps
  <2>3. QED
    BY <2>1, <2>2 DEF Batch, GoodBatch, Batches, Disjoint
<1>4. Reach(c.events, Forget(c.aliases, S))
  BY <1>1, <1>2 DEF Reach
<1>5. DropAliases(c, S) = Calendar(c.events, Forget(c.aliases, S), d)
  BY DEF DropAliases
<1> HIDE DEF d
<1>6. QED
  BY <1>1, <1>2, <1>3, <1>4, <1>5, MakeGood

LEMMA DropAliasGood ==
    ASSUME NEW c, Good(c), NEW id \in IDs
    PROVE  /\ Good(DropAlias(c, id))
           /\ DropAlias(c, id).events = c.events
           /\ DOMAIN DropAlias(c, id).aliases = DOMAIN c.aliases \ {id}
           /\ \A a \in DOMAIN c.aliases \ {id} :
                DropAlias(c, id).aliases[a] = c.aliases[a]
<1>1. /\ c.events \in Partial(Events) /\ c.aliases \in Partial(Aliases)
      /\ GoodBatch(c.batch) /\ Reach(c.events, c.aliases)
  BY CalendarParts
<1>2. /\ Forget(c.aliases, {id}) \in Partial(Aliases)
      /\ DOMAIN Forget(c.aliases, {id}) = DOMAIN c.aliases \ {id}
      /\ \A x \in DOMAIN c.aliases \ {id} : Forget(c.aliases, {id})[x] = c.aliases[x]
  BY <1>1, AliasMaps
<1>3. GoodBatch(RecordAliasDelete(c.batch, id))
  BY <1>1, RecordsGood
<1>4. Reach(c.events, Forget(c.aliases, {id}))
  BY <1>1, <1>2 DEF Reach
<1>5. DropAlias(c, id) =
        Calendar(c.events, Forget(c.aliases, {id}), RecordAliasDelete(c.batch, id))
  BY DEF DropAlias
<1>6. Good(DropAlias(c, id))
  BY <1>1, <1>2, <1>3, <1>4, <1>5, MakeGood
<1>7. /\ DropAlias(c, id).events = c.events
      /\ DropAlias(c, id).aliases = Forget(c.aliases, {id})
  BY <1>5 DEF Calendar
<1>8. QED
  BY <1>2, <1>6, <1>7

(* What an alias is made of.                                               *)
LEMMA AliasType ==
    ASSUME NEW t \in IDs, NEW u \in UIDs \cup {NoUID}, NEW r \in BOOLEAN
    PROVE  AliasTo(t, u, r) \in Aliases /\ AliasTo(t, u, r).target = t
  BY DEF AliasTo, Aliases

LEMMA AliasParts ==
    ASSUME NEW c, Good(c), NEW id \in DOMAIN c.aliases
    PROVE  /\ id \in IDs /\ id \notin DOMAIN c.events
           /\ c.aliases[id] \in Aliases
           /\ c.aliases[id].target \in IDs
           /\ c.aliases[id].target \in DOMAIN c.events
           /\ c.aliases[id].uid \in UIDs \cup {NoUID}
           /\ c.aliases[id].replay \in BOOLEAN
<1>1. c.aliases \in Partial(Aliases) /\ Reach(c.events, c.aliases)
  BY CalendarParts
<1>2. c.aliases \in [DOMAIN c.aliases -> Aliases] /\ DOMAIN c.aliases \subseteq IDs
  BY <1>1, PartialMaps
<1>3. c.aliases[id] \in Aliases
  BY <1>2
<1>4. QED
  BY <1>1, <1>2, <1>3 DEF Reach, Aliases

LEMMA EventParts ==
    ASSUME NEW e \in Partial(Events), NEW id \in DOMAIN e
    PROVE  /\ DOMAIN e \subseteq IDs /\ id \in IDs /\ e[id] \in Events
           /\ e[id].uid \in UIDs \cup {NoUID} /\ e[id].body \in Bodies
<1>1. e \in [DOMAIN e -> Events] /\ DOMAIN e \subseteq IDs
  BY PartialMaps
<1>2. QED
  BY <1>1 DEF Events

(* Without its alias a ServerID is free to become something else.          *)
LEMMA WithoutAliasGood ==
    ASSUME NEW c, Good(c), NEW id \in IDs
    PROVE  /\ Good(WithoutAlias(c, id))
           /\ WithoutAlias(c, id).events = c.events
           /\ id \notin DOMAIN WithoutAlias(c, id).aliases
<1>1. CASE id \in DOMAIN c.aliases
  BY <1>1, DropAliasGood DEF WithoutAlias
<1>2. CASE id \notin DOMAIN c.aliases
  BY <1>2 DEF WithoutAlias
<1>3. QED
  BY <1>1, <1>2

(* An alias whose meeting is unchanged may be renewed.                     *)
LEMMA RenewGood ==
    ASSUME NEW c, Good(c), NEW id \in DOMAIN c.aliases,
           NEW u \in UIDs \cup {NoUID}, NEW r \in BOOLEAN
    PROVE  Good(SetAlias(c, id, AliasTo(c.aliases[id].target, u, r)))
<1> DEFINE a == AliasTo(c.aliases[id].target, u, r)
<1>1. /\ id \in IDs /\ id \notin DOMAIN c.events
      /\ c.aliases[id].target \in IDs /\ c.aliases[id].target \in DOMAIN c.events
  BY AliasParts
<1>2. a \in Aliases /\ a.target \in DOMAIN c.events
  BY <1>1, AliasType
<1>3. id \in IDs \ DOMAIN c.events
  BY <1>1
<1> HIDE DEF a
<1>4. Good(SetAlias(c, id, a))
  BY <1>2, <1>3, SetAliasGood
<1>5. QED
  BY <1>4 DEF a

(* A page's addition leaves a good calendar, replayed or not.              *)
LEMMA AddGood ==
    ASSUME NEW c, Good(c), NEW id \in IDs, NEW ev \in Events, NEW replay \in BOOLEAN
    PROVE  Good(AddEvent(c, id, ev, replay))
<1> DEFINE a == c.aliases[id]
           d == WithoutAlias(c, id)
           same == IF ev.uid = NoUID THEN {} ELSE Twins(d.events, ev)
           like == IF same = {} /\ replay THEN Lookalikes(d.events, ev) ELSE same
<1>0. ev.uid \in UIDs \cup {NoUID}
  BY DEF Events
<1>1. CASE id \in DOMAIN c.events
  <2>1. id \in IDs \ DOMAIN c.aliases
    BY <1>1, AliasParts
  <2>2. Good(ShowEvent(c, id, ev))
    BY <2>1, ShowGood
  <2>3. AddEvent(c, id, ev, replay) = IF c.events[id] = ev THEN c ELSE ShowEvent(c, id, ev)
    BY <1>1, <2>1 DEF AddEvent, Covered
  <2>4. QED
    BY <2>2, <2>3
<1>2. CASE id \notin DOMAIN c.events /\ Covered(c, id, ev)
  <2>1. id \in DOMAIN c.aliases
    BY <1>2 DEF Covered
  <2>2. a.replay \/ replay \in BOOLEAN
    BY <2>1, AliasParts
  <2>3. Good(SetAlias(c, id, AliasTo(a.target, ev.uid, a.replay \/ replay)))
    BY <1>0, <2>1, <2>2, RenewGood
  <2>4. AddEvent(c, id, ev, replay) =
          IF a.uid # ev.uid \/ (replay /\ ~a.replay)
          THEN SetAlias(c, id, AliasTo(a.target, ev.uid, a.replay \/ replay)) ELSE c
    BY <1>2 DEF AddEvent
  <2>5. QED
    BY <2>3, <2>4
<1>3. CASE id \notin DOMAIN c.events /\ ~Covered(c, id, ev)
  <2>1. /\ Good(d) /\ d.events = c.events /\ id \notin DOMAIN d.aliases
    BY WithoutAliasGood
  <2>2. like \subseteq DOMAIN d.events
    BY DEF Twins, Lookalikes
  <2>3. AddEvent(c, id, ev, replay) =
          IF like = {} THEN ShowEvent(d, id, ev)
          ELSE SetAlias(d, id, AliasTo(Min(like), ev.uid, replay))
    BY <1>3 DEF AddEvent
  <2> HIDE DEF d, like
  <2>4. CASE like = {}
    BY <2>1, <2>3, <2>4, ShowGood
  <2>5. CASE like # {}
    <3>1. d.events \in Partial(Events)
      BY <2>1, CalendarParts
    <3>2. like \in SUBSET IDs
      BY <2>2, <3>1, PartialMaps
    <3>3. Min(like) \in DOMAIN d.events /\ Min(like) \in IDs
      BY <2>2, <2>5, <3>2, LeastID
    <3>4. /\ AliasTo(Min(like), ev.uid, replay) \in Aliases
          /\ AliasTo(Min(like), ev.uid, replay).target \in DOMAIN d.events
      BY <1>0, <3>3, AliasType
    <3>5. id \in IDs \ DOMAIN d.events
      BY <1>3, <2>1
    <3>6. QED
      BY <2>1, <2>3, <2>5, <3>4, <3>5, SetAliasGood
  <2>6. QED
    BY <2>4, <2>5
<1>4. QED
  BY <1>1, <1>2, <1>3

(* A page's change leaves a good calendar.                                 *)
LEMMA ChangeGood ==
    ASSUME NEW c, Good(c), NEW id \in IDs, NEW ev \in Events
    PROVE  Good(ChangeEvent(c, id, ev))
<1>0. ev.uid \in UIDs \cup {NoUID}
  BY DEF Events
<1>1. CASE Covered(c, id, ev)
  <2>1. id \in DOMAIN c.aliases
    BY <1>1 DEF Covered
  <2>2. c.aliases[id].replay \in BOOLEAN
    BY <2>1, AliasParts
  <2>3. Good(SetAlias(c, id, AliasTo(c.aliases[id].target, ev.uid, c.aliases[id].replay)))
    BY <1>0, <2>1, <2>2, RenewGood
  <2>4. QED
    BY <1>1, <2>3 DEF ChangeEvent
<1>2. CASE ~Covered(c, id, ev)
  <2>1. /\ Good(WithoutAlias(c, id)) /\ id \notin DOMAIN WithoutAlias(c, id).aliases
    BY WithoutAliasGood
  <2>2. Good(ShowEvent(WithoutAlias(c, id), id, ev))
    BY <2>1, ShowGood
  <2>3. QED
    BY <1>2, <2>2 DEF ChangeEvent
<1>3. QED
  BY <1>1, <1>2

(* Aliases laid over others, in a batch as well.                           *)
LEMMA OverAliases ==
    ASSUME NEW f \in Partial(Aliases), NEW g \in Partial(Aliases)
    PROVE  /\ Over(g, f) \in Partial(Aliases)
           /\ DOMAIN Over(g, f) = DOMAIN g \cup DOMAIN f
           /\ \A x \in DOMAIN g : Over(g, f)[x] = g[x]
           /\ \A x \in DOMAIN f : x \notin DOMAIN g => Over(g, f)[x] = f[x]
<1>1. /\ Over(g, f) \in Partial(Aliases)
      /\ DOMAIN Over(g, f) = DOMAIN g \cup DOMAIN f
      /\ \A x \in DOMAIN g \cup DOMAIN f :
           Over(g, f)[x] = IF x \in DOMAIN g THEN g[x] ELSE f[x]
  BY OverPartial
<1>2. QED
  BY <1>1

LEMMA OverBatch ==
    ASSUME NEW b, GoodBatch(b), NEW g \in Partial(Aliases)
    PROVE  GoodBatch(Batch(b.upserts, b.deletes, Over(g, b.aliases),
                           b.aliasDeletes \ DOMAIN g))
<1>1. /\ b.upserts \in Partial(Events) /\ b.deletes \in SUBSET IDs
      /\ b.aliases \in Partial(Aliases) /\ b.aliasDeletes \in SUBSET IDs
      /\ DOMAIN b.upserts \cap b.deletes = {}
      /\ DOMAIN b.aliases \cap b.aliasDeletes = {}
  BY BatchParts DEF GoodBatch, Disjoint
<1>2. /\ Over(g, b.aliases) \in Partial(Aliases)
      /\ DOMAIN Over(g, b.aliases) = DOMAIN g \cup DOMAIN b.aliases
  BY <1>1, OverAliases
<1>3. QED
  BY <1>1, <1>2 DEF Batch, GoodBatch, Batches, Disjoint

(* Promotion: the heir is an event, and what followed the old ServerID     *)
(* follows the heir.                                                       *)
LEMMA PromoteGood ==
    ASSUME NEW c, Good(c), NEW id \in DOMAIN c.events, Members(c.aliases, id) # {}
    PROVE  Good(Promote(c, id, Members(c.aliases, id)))
<1> DEFINE members == Members(c.aliases, id)
           heir == Min(members)
           ev == [uid |-> c.aliases[heir].uid, body |-> c.events[id].body]
           E == With(Forget(c.events, {id}), heir, ev)
           A == Forget(c.aliases, {heir})
           B == RecordUpsert(RecordDelete(RecordAliasDelete(c.batch, heir), id), heir, ev)
           moved == [x \in members \ {heir} |->
                       AliasTo(heir, c.aliases[x].uid, c.aliases[x].replay)]
<1>1. /\ c.events \in Partial(Events) /\ c.aliases \in Partial(Aliases)
      /\ GoodBatch(c.batch) /\ Reach(c.events, c.aliases)
  BY CalendarParts
<1>2. id \in IDs /\ c.events[id].body \in Bodies
  BY <1>1, EventParts
<1>3. members \subseteq DOMAIN c.aliases /\ \A x \in members : c.aliases[x].target = id
  BY DEF Members
<1>4. \A x \in members : /\ x \in IDs /\ x \notin DOMAIN c.events
                         /\ c.aliases[x].uid \in UIDs \cup {NoUID}
                         /\ c.aliases[x].replay \in BOOLEAN
  BY <1>3, AliasParts
<1>5. heir \in members
  BY <1>4, LeastID
<1>6. heir \in IDs /\ heir \notin DOMAIN c.events /\ ev \in Events
  BY <1>2, <1>4, <1>5 DEF Events
<1>7. GoodBatch(B)
  <2>1. GoodBatch(RecordAliasDelete(c.batch, heir))
    BY <1>1, <1>6, RecordsGood
  <2>2. GoodBatch(RecordDelete(RecordAliasDelete(c.batch, heir), id))
    BY <1>2, <2>1, RecordsGood
  <2> HIDE DEF ev, heir
  <2>3. QED
    BY <1>6, <2>2, RecordsGood
<1>8. moved \in Partial(Aliases)
  <2>1. \A x \in members \ {heir} :
          AliasTo(heir, c.aliases[x].uid, c.aliases[x].replay) \in Aliases
    BY <1>4, <1>6, AliasType
  <2>2. moved \in [members \ {heir} -> Aliases]
    BY <2>1
  <2>3. members \ {heir} \in SUBSET IDs
    BY <1>4
  <2> HIDE DEF moved
  <2>4. QED
    BY <2>2, <2>3, PartialMaps
<1>9. DOMAIN moved = members \ {heir} /\ \A x \in members \ {heir} : moved[x].target = heir
  BY DEF AliasTo
<1>10. Promote(c, id, members) =
         Calendar(E, Over(moved, A),
                  Batch(B.upserts, B.deletes, Over(moved, B.aliases), B.aliasDeletes \ DOMAIN moved))
  BY DEF Promote, Handed, ShowEvent, HideEvent, DropAlias, Calendar
<1> HIDE DEF members, heir, ev, B, moved
<1>11. E \in Partial(Events) /\ DOMAIN E = (DOMAIN c.events \ {id}) \cup {heir}
  <2>1. /\ Forget(c.events, {id}) \in Partial(Events)
        /\ DOMAIN Forget(c.events, {id}) = DOMAIN c.events \ {id}
    BY <1>1, <1>2, EventMaps
  <2> DEFINE F == Forget(c.events, {id})
  <2>2. F \in Partial(Events)
    BY <2>1
  <2> HIDE DEF F
  <2>3. \A y \in Events : /\ With(F, heir, y) \in Partial(Events)
                          /\ DOMAIN With(F, heir, y) = DOMAIN F \cup {heir}
    BY <1>6, <2>2, EventMaps
  <2>4. QED
    BY <1>6, <2>1, <2>3 DEF F
<1>12. /\ A \in Partial(Aliases) /\ DOMAIN A = DOMAIN c.aliases \ {heir}
       /\ \A x \in DOMAIN c.aliases \ {heir} : A[x] = c.aliases[x]
  BY <1>1, AliasMaps
<1> HIDE DEF E, A
<1>13. /\ Over(moved, A) \in Partial(Aliases)
       /\ DOMAIN Over(moved, A) = DOMAIN moved \cup DOMAIN A
       /\ \A x \in DOMAIN moved : Over(moved, A)[x] = moved[x]
       /\ \A x \in DOMAIN A : x \notin DOMAIN moved => Over(moved, A)[x] = A[x]
  <2>1. moved \in Partial(Aliases) /\ A \in Partial(Aliases)
    BY <1>8, <1>12
  <2>2. QED
    BY <2>1, OverAliases
<1>14. Reach(E, Over(moved, A))
  <2> SUFFICES ASSUME NEW x \in DOMAIN moved \cup DOMAIN A
               PROVE  x \notin DOMAIN E /\ Over(moved, A)[x].target \in DOMAIN E
    BY <1>13 DEF Reach
  <2>1. CASE x \in DOMAIN moved
    <3>1. x \in members \ {heir} /\ Over(moved, A)[x].target = heir
      BY <1>9, <1>13, <2>1
    <3>2. QED
      BY <1>4, <1>11, <3>1
  <2>2. CASE x \notin DOMAIN moved
    <3>1. x \in DOMAIN c.aliases /\ x # heir /\ x \notin members
      BY <1>9, <1>12, <2>2
    <3>2. Over(moved, A)[x] = c.aliases[x]
      BY <1>12, <1>13, <2>2, <3>1
    <3>3. c.aliases[x].target # id
      BY <3>1 DEF members, Members
    <3>4. QED
      BY <1>1, <1>11, <3>1, <3>2, <3>3 DEF Reach
  <2>3. QED
    BY <2>1, <2>2
<1>15. GoodBatch(Batch(B.upserts, B.deletes, Over(moved, B.aliases), B.aliasDeletes \ DOMAIN moved))
  BY <1>7, <1>8, OverBatch
<1>16. Good(Promote(c, id, members))
  BY <1>10, <1>11, <1>13, <1>14, <1>15, MakeGood
<1>17. QED
  BY <1>16 DEF members

(* A page's deletion leaves a good calendar.                               *)
LEMMA DeleteGood ==
    ASSUME NEW c, Good(c), NEW id \in IDs
    PROVE  Good(DeleteEvent(c, id))
<1>1. CASE id \in DOMAIN c.aliases
  BY <1>1, DropAliasGood DEF DeleteEvent
<1>2. CASE id \notin DOMAIN c.aliases /\ id \notin DOMAIN c.events
  BY <1>2 DEF DeleteEvent
<1>3. CASE id \notin DOMAIN c.aliases /\ id \in DOMAIN c.events
  <2>1. DeleteEvent(c, id) =
          IF Members(c.aliases, id) = {} THEN HideEvent(c, id)
          ELSE Promote(c, id, Members(c.aliases, id))
    BY <1>3 DEF DeleteEvent
  <2>2. QED
    BY <1>3, <2>1, HideGood, PromoteGood
<1>4. QED
  BY <1>1, <1>2, <1>3

(* Dropping replay aliases leaves a good calendar.                         *)
LEMMA PrunedGood ==
    ASSUME NEW c, Good(c), NEW added
    PROVE  Good(Pruned(c, added))
<1>1. PICK S : S \subseteq DOMAIN c.aliases /\ Pruned(c, added) = DropAliases(c, S)
  BY DEF Pruned, Members
<1>2. c.aliases \in Partial(Aliases)
  BY CalendarParts
<1>3. S \in SUBSET IDs
  BY <1>1, <1>2, PartialMaps
<1>4. QED
  BY <1>1, <1>3, DropAliasesGood

(* Events and aliases as the files hold them.                              *)
Files == [events : Partial(Events), aliases : Partial(Aliases)]

(* Folding: what has aliases stays, and the newly folded follow an event   *)
(* that stays too.                                                         *)
LEMMA DedupedGood ==
    ASSUME NEW c, c.events \in Partial(Events), c.aliases \in Partial(Aliases),
           Reach(c.events, c.aliases),
           \A id \in Folded(c.events) : Members(c.aliases, id) = {}
    PROVE  Good(Deduped(c))
<1> DEFINE folded == Folded(c.events)
           Old(id) == Min(Twins(c.events, c.events[id]))
           new == [id \in folded |-> AliasTo(Old(id), c.events[id].uid, FALSE)]
           E == Forget(c.events, folded)
<1>1. folded \subseteq DOMAIN c.events /\ DOMAIN c.events \subseteq IDs
  BY PartialMaps DEF Folded
<1>2. \A id \in DOMAIN c.events : /\ Old(id) \in Twins(c.events, c.events[id])
                                  /\ Old(id) \in IDs
                                  /\ c.events[Old(id)] = c.events[id]
                                  /\ Old(id) \in DOMAIN c.events
  <2> SUFFICES ASSUME NEW id \in DOMAIN c.events
               PROVE  Old(id) \in Twins(c.events, c.events[id])
    BY <1>1 DEF Twins
  <2>1. Twins(c.events, c.events[id]) \in SUBSET IDs /\ id \in Twins(c.events, c.events[id])
    BY <1>1 DEF Twins
  <2>2. QED
    BY <2>1, LeastID
<1>3. \A id \in DOMAIN c.events : Old(id) \in DOMAIN c.events \ folded
  <2> SUFFICES ASSUME NEW id \in DOMAIN c.events PROVE Old(id) \notin folded
    BY <1>2
  <2>1. c.events[Old(id)] = c.events[id]
    BY <1>2
  <2>2. Min(Twins(c.events, c.events[Old(id)])) = Old(id)
    BY <2>1
  <2>3. QED
    BY <2>2 DEF Folded
<1>4. new \in Partial(Aliases)
  <2>1. \A id \in folded : AliasTo(Old(id), c.events[id].uid, FALSE) \in Aliases
    <3> SUFFICES ASSUME NEW id \in folded
                 PROVE  AliasTo(Old(id), c.events[id].uid, FALSE) \in Aliases
      OBVIOUS
    <3>1. Old(id) \in IDs
      BY <1>1, <1>2
    <3>2. c.events[id].uid \in UIDs \cup {NoUID}
      BY <1>1, EventParts
    <3> HIDE DEF Old
    <3>3. QED
      BY <3>1, <3>2, AliasType
  <2>2. new \in [folded -> Aliases]
    BY <2>1
  <2>3. folded \in SUBSET IDs
    BY <1>1
  <2> HIDE DEF new, folded
  <2>4. QED
    BY <2>2, <2>3, PartialMaps
<1>5. DOMAIN new = folded /\ \A id \in folded : new[id].target = Old(id)
  BY DEF AliasTo
<1>6. /\ E \in Partial(Events) /\ DOMAIN E = DOMAIN c.events \ folded
      /\ \A x \in DOMAIN c.events \ folded : E[x] = c.events[x]
  <2> HIDE DEF folded, new, Old
  <2>1. /\ Forget(c.events, folded) \in Partial(Events)
        /\ DOMAIN Forget(c.events, folded) = DOMAIN c.events \ folded
        /\ \A x \in DOMAIN c.events \ folded : Forget(c.events, folded)[x] = c.events[x]
    BY EventForget
  <2>2. QED
    BY <2>1
<1>7. Deduped(c) = Calendar(E, Over(new, c.aliases), Batch(None, folded, new, {}))
  BY DEF Deduped
<1> HIDE DEF folded, new, E, Old
<1>8. GoodBatch(Batch(None, folded, new, {}))
  <2>1. None \in Partial(Events) /\ DOMAIN None = {}
    BY NonePartial
  <2>2. folded \in SUBSET IDs
    BY <1>1
  <2>3. QED
    BY <1>4, <2>1, <2>2 DEF GoodBatch, Batch, Batches, Disjoint
<1>9. /\ Over(new, c.aliases) \in Partial(Aliases)
      /\ DOMAIN Over(new, c.aliases) = DOMAIN new \cup DOMAIN c.aliases
      /\ \A x \in DOMAIN new : Over(new, c.aliases)[x] = new[x]
      /\ \A x \in DOMAIN c.aliases : x \notin DOMAIN new => Over(new, c.aliases)[x] = c.aliases[x]
  BY <1>4, OverAliases
<1>10. Reach(E, Over(new, c.aliases))
  <2> SUFFICES ASSUME NEW x \in DOMAIN new \cup DOMAIN c.aliases
               PROVE  x \notin DOMAIN E /\ Over(new, c.aliases)[x].target \in DOMAIN E
    BY <1>9 DEF Reach
  <2>1. CASE x \in DOMAIN new
    BY <1>1, <1>3, <1>5, <1>6, <1>9, <2>1
  <2>2. CASE x \notin DOMAIN new
    <3>1. /\ x \notin DOMAIN c.events /\ c.aliases[x].target \in DOMAIN c.events
          /\ Over(new, c.aliases)[x] = c.aliases[x]
      BY <1>9, <2>2 DEF Reach
    <3>2. c.aliases[x].target \notin folded
      BY <2>2 DEF Members, folded
    <3>3. QED
      BY <1>6, <3>1, <3>2
  <2>3. QED
    BY <2>1, <2>2
<1>11. QED
  BY <1>6, <1>7, <1>8, <1>9, <1>10, MakeGood

(* A batch replayed over typed files leaves typed files.                   *)
LEMMA ReplayedFiles ==
    ASSUME NEW s, s.events \in Partial(Events), s.aliases \in Partial(Aliases),
           NEW b, GoodBatch(b)
    PROVE  Replayed(s, b) \in Files
<1>1. /\ b.upserts \in Partial(Events) /\ b.aliases \in Partial(Aliases)
  BY BatchParts
<1>2. Forget(s.events, b.deletes) \in Partial(Events)
  BY ForgetPartial
<1>3. Over(b.upserts, Forget(s.events, b.deletes)) \in Partial(Events)
  BY <1>1, <1>2, OverPartial
<1>4. Forget(Over(b.upserts, Forget(s.events, b.deletes)), DOMAIN b.aliases) \in Partial(Events)
  BY <1>3, ForgetPartial
<1>5. Forget(s.aliases, b.aliasDeletes \cup DOMAIN b.upserts) \in Partial(Aliases)
  BY ForgetPartial
<1>6. Over(b.aliases, Forget(s.aliases, b.aliasDeletes \cup DOMAIN b.upserts)) \in Partial(Aliases)
  BY <1>1, <1>5, OverAliases
<1>7. QED
  BY <1>4, <1>6 DEF Replayed, Files

(* Loading repairs whatever the files hold: no alias is left dangling.     *)
LEMMA NormalizedReaches ==
    ASSUME NEW s \in Files
    PROVE  /\ Normalized(s).events \in Partial(Events)
           /\ Normalized(s).aliases \in Partial(Aliases)
           /\ Reach(Normalized(s).events, Normalized(s).aliases)
<1> DEFINE good == {a \in DOMAIN s.aliases :
                     /\ a \notin DOMAIN s.events
                     /\ s.aliases[a].target # a
                     /\ s.aliases[a].target \in DOMAIN s.events}
           Flag(a) == s.aliases[a].replay
                       \/ s.aliases[a].uid \notin {NoUID, s.events[s.aliases[a].target].uid}
           kept == [a \in good |-> AliasTo(s.aliases[a].target, s.aliases[a].uid, Flag(a))]
<1>1. s.events \in Partial(Events) /\ s.aliases \in Partial(Aliases)
  BY DEF Files
<1>2. DOMAIN s.aliases \subseteq IDs /\ s.aliases \in [DOMAIN s.aliases -> Aliases]
  BY <1>1, PartialMaps
<1>3. \A a \in good : AliasTo(s.aliases[a].target, s.aliases[a].uid, Flag(a)) \in Aliases
  <2> SUFFICES ASSUME NEW a \in good
               PROVE  AliasTo(s.aliases[a].target, s.aliases[a].uid, Flag(a)) \in Aliases
    OBVIOUS
  <2>1. s.aliases[a] \in Aliases
    BY <1>2
  <2>2. /\ s.aliases[a].target \in IDs /\ s.aliases[a].uid \in UIDs \cup {NoUID}
        /\ s.aliases[a].replay \in BOOLEAN
    BY <2>1 DEF Aliases
  <2>3. Flag(a) \in BOOLEAN
    BY <2>2
  <2> HIDE DEF Flag
  <2>4. QED
    BY <2>2, <2>3, AliasType
<1>4. kept \in [good -> Aliases] /\ good \in SUBSET IDs
  BY <1>2, <1>3
<1>5. DOMAIN kept = good /\ \A a \in good : kept[a].target = s.aliases[a].target
  BY DEF AliasTo
<1>6. Normalized(s).events = s.events /\ Normalized(s).aliases = kept
  BY DEF Normalized
<1>7. Reach(s.events, kept)
  <2> HIDE DEF kept
  <2>1. QED
    BY <1>5 DEF Reach
<1> HIDE DEF kept, good
<1>8. kept \in Partial(Aliases)
  BY <1>4, PartialMaps
<1>9. QED
  BY <1>1, <1>6, <1>7, <1>8

-----------------------------------------------------------------------------
(* The invariant.                                                          *)

Inv == TypeOK /\ AliasesReachEvents

(* The part of the invariant about the calendar, and the rest.             *)
Rest ==
    /\ saved \in Files
    /\ pass \in {"idle", "paging", "replay"}
    /\ page \in 0 .. PagesPerSave - 1
    /\ todo \subseteq Items
    /\ pass = "idle" => cal.batch = EmptyBatch /\ page = 0
    /\ pass # "replay" => todo = {}
    /\ retired \subseteq IDs
    /\ ahead \in BOOLEAN

LEMMA InvIsGood == Inv <=> Good(cal) /\ Rest
  BY DEF Inv, TypeOK, AliasesReachEvents, Good, Disjoint, Reach, Rest, Files

(* The batch of a calendar given another.                                  *)
LEMMA WithBatchGood ==
    ASSUME NEW c, Good(c), NEW b, GoodBatch(b)
    PROVE  Good(WithBatch(c, b)) /\ WithBatch(c, b).batch = b
<1>1. Good(WithBatch(c, b))
  BY CalendarParts, MakeGood DEF WithBatch
<1>2. QED
  BY <1>1 DEF WithBatch, Calendar

(* A save leaves typed files, whether it succeeds or not.                  *)
LEMMA SaveKeepsFiles ==
    ASSUME saved \in Files, ahead \in BOOLEAN, NEW b, GoodBatch(b), SaveBatch(b)
    PROVE  saved' \in Files /\ ahead' \in BOOLEAN
<1>1. saved.events \in Partial(Events) /\ saved.aliases \in Partial(Aliases)
  BY DEF Files
<1>2. Replayed(saved, b) \in Files
  BY <1>1, ReplayedFiles
<1>3. QED
  BY <1>2 DEF SaveBatch

(* The end of a page that left a good calendar.                            *)
LEMMA FinishGood ==
    ASSUME Rest, NEW c, Good(c), FinishPage(c), retired' \subseteq IDs
    PROVE  Good(cal') /\ Rest'
<1>1. GoodBatch(c.batch)
  BY CalendarParts
<1>2. CASE /\ page + 1 < PagesPerSave /\ todo' = {}
           /\ cal' = c /\ pass' = "paging" /\ page' = page + 1
           /\ UNCHANGED <<saved, ahead>>
  BY <1>2, PagesAssumption DEF Rest
<1>3. CASE /\ cal' = WithBatch(c, EmptyBatch) /\ page' = 0 /\ todo' = {}
           /\ SaveBatch(c.batch)
           /\ \/ pass' = "idle"
              \/ pass' = "paging" /\ page + 1 = PagesPerSave /\ ahead' = ahead
  <2>1. Good(cal') /\ cal'.batch = EmptyBatch
    BY <1>3, EmptyBatchGood, WithBatchGood
  <2>2. saved' \in Files /\ ahead' \in BOOLEAN
    BY <1>1, <1>3, SaveKeepsFiles DEF Rest
  <2>3. QED
    BY <1>3, <2>1, <2>2, PagesAssumption DEF Rest
<1>4. QED
  BY <1>2, <1>3 DEF FinishPage

(* Init.                                                                   *)
LEMMA InitGood == Init => Inv
<1> SUFFICES ASSUME Init PROVE Inv
  OBVIOUS
<1>1. None \in Partial(Events) /\ None \in Partial(Aliases) /\ DOMAIN None = {}
  BY NonePartial
<1>2. Good(cal)
  BY <1>1, EmptyBatchGood, MakeGood DEF Init, Reach
<1>3. cal.batch = EmptyBatch /\ page \in 0 .. PagesPerSave - 1
  BY PagesAssumption DEF Init, Calendar
<1>4. saved \in Files
  BY <1>1 DEF Init, Files
<1>5. Rest
  BY <1>3, <1>4 DEF Init, Rest
<1>6. QED
  BY <1>2, <1>5, InvIsGood

(* A batch without aliases, written by CalDAV, leaves no alias dangling if *)
(* it drops those of what it deletes.                                      *)
LEMMA WriteGood ==
    ASSUME NEW c, Good(c), NEW b, GoodBatch(b), DOMAIN b.aliases = {},
           \A a \in DOMAIN c.aliases :
             c.aliases[a].target \in b.deletes => a \in b.aliasDeletes
    PROVE  Good(WithBatch(Replayed(c, b), c.batch))
<1> DEFINE X == b.aliasDeletes \cup DOMAIN b.upserts
           E1 == Forget(c.events, b.deletes)
           E2 == Over(b.upserts, E1)
           E3 == Forget(E2, DOMAIN b.aliases)
           A1 == Forget(c.aliases, X)
           A2 == Over(b.aliases, A1)
<1>1. /\ c.events \in Partial(Events) /\ c.aliases \in Partial(Aliases)
      /\ GoodBatch(c.batch) /\ Reach(c.events, c.aliases)
      /\ b.upserts \in Partial(Events) /\ b.aliases \in Partial(Aliases)
  BY CalendarParts, BatchParts
<1>2. WithBatch(Replayed(c, b), c.batch) = Calendar(E3, A2, c.batch)
  BY DEF WithBatch, Replayed, Calendar
<1>3. E1 \in Partial(Events) /\ DOMAIN E1 = DOMAIN c.events \ b.deletes
  BY <1>1, EventForget
<1>4. /\ A1 \in Partial(Aliases) /\ DOMAIN A1 = DOMAIN c.aliases \ X
      /\ \A x \in DOMAIN c.aliases \ X : A1[x] = c.aliases[x]
  BY <1>1, AliasMaps
<1> HIDE DEF E1, A1
<1>5. E2 \in Partial(Events) /\ DOMAIN E2 = DOMAIN b.upserts \cup DOMAIN E1
  BY <1>1, <1>3, OverPartial
<1> HIDE DEF E2
<1>6. E3 \in Partial(Events) /\ DOMAIN E3 = DOMAIN E2
  BY <1>5, EventForget
<1>7. /\ A2 \in Partial(Aliases) /\ DOMAIN A2 = DOMAIN A1
      /\ \A x \in DOMAIN A1 : A2[x] = A1[x]
  <2> DEFINE g == b.aliases
  <2>1. A1 \in Partial(Aliases) /\ g \in Partial(Aliases) /\ DOMAIN g = {}
    BY <1>1, <1>4
  <2>2. A2 = Over(g, A1)
    OBVIOUS
  <2> HIDE DEF g, A2
  <2>3. /\ Over(g, A1) \in Partial(Aliases)
        /\ DOMAIN Over(g, A1) = DOMAIN g \cup DOMAIN A1
        /\ \A x \in DOMAIN A1 : x \notin DOMAIN g => Over(g, A1)[x] = A1[x]
    BY <2>1, OverAliases
  <2>4. QED
    BY <2>1, <2>2, <2>3
<1> HIDE DEF E3, A2
<1>8. Reach(E3, A2)
  BY <1>1, <1>3, <1>4, <1>5, <1>6, <1>7 DEF Reach
<1>9. QED
  BY <1>1, <1>2, <1>6, <1>7, <1>8, MakeGood

(* The batches of the two CalDAV writes.                                   *)
LEMMA UpsertBatch ==
    ASSUME NEW id \in IDs, NEW ev \in Events
    PROVE  LET b == RecordAliasDelete(RecordUpsert(EmptyBatch, id, ev), id)
           IN  GoodBatch(b) /\ DOMAIN b.aliases = {} /\ b.deletes = {}
<1>1. GoodBatch(RecordUpsert(EmptyBatch, id, ev))
  BY EmptyBatchGood, RecordsGood
<1>2. GoodBatch(RecordAliasDelete(RecordUpsert(EmptyBatch, id, ev), id))
  BY <1>1, RecordsGood
<1>3. None \in Partial(Aliases) /\ DOMAIN None = {}
  BY NonePartial
<1>4. DOMAIN Forget(None, {id}) = {}
  BY <1>3, AliasMaps
<1>5. QED
  BY <1>2, <1>4 DEF RecordAliasDelete, RecordUpsert, EmptyBatch, Batch

LEMMA RemoveBatch ==
    ASSUME NEW id \in IDs, NEW gone \in SUBSET IDs
    PROVE  LET b == Batch(None, {id}, None, gone)
           IN  GoodBatch(b) /\ DOMAIN b.aliases = {} /\ b.deletes = {id} /\ b.aliasDeletes = gone
<1>1. None \in Partial(Events) /\ None \in Partial(Aliases) /\ DOMAIN None = {}
  BY NonePartial
<1>2. QED
  BY <1>1 DEF Batch, GoodBatch, Batches, Disjoint

(* Every step keeps the invariant, as long as the server sends nothing     *)
(* that folds an event others stand for.                                   *)
LEMMA NextKeepsInv ==
    ASSUME "refold" \notin Faults, Inv, [Next]_vars
    PROVE  Inv'
<1>1. Good(cal) /\ Rest
  BY InvIsGood
<1>2. /\ cal.events \in Partial(Events) /\ cal.aliases \in Partial(Aliases)
      /\ GoodBatch(cal.batch) /\ Reach(cal.events, cal.aliases)
  BY <1>1, CalendarParts
<1> SUFFICES Good(cal') /\ Rest'
  BY DEF Inv, TypeOK, AliasesReachEvents, Good, Disjoint, Reach, Rest, Files
<1>3. CASE StartPass
  <2>1. /\ cal' = WithBatch(Deduped(cal), EmptyBatch) /\ SaveBatch(Deduped(cal).batch)
        /\ pass' = IF ahead' = ahead THEN "paging" ELSE "idle"
        /\ pass = "idle" /\ MayFold(cal) /\ UNCHANGED <<page, todo, retired>>
    BY <1>3 DEF StartPass
  <2>2. \A id \in Folded(cal.events) : Members(cal.aliases, id) = {}
    BY <2>1 DEF MayFold
  <2>3. Good(Deduped(cal))
    BY <1>2, <2>2, DedupedGood
  <2>4. Good(cal') /\ cal'.batch = EmptyBatch
    BY <2>1, <2>3, EmptyBatchGood, WithBatchGood
  <2>5. GoodBatch(Deduped(cal).batch)
    BY <2>3, CalendarParts
  <2>6. saved' \in Files /\ ahead' \in BOOLEAN
    BY <1>1, <2>1, <2>5, SaveKeepsFiles DEF Rest
  <2>7. QED
    BY <1>1, <2>1, <2>4, <2>6 DEF Rest
<1>4. CASE PageError
  <2>1. Good(cal') /\ cal'.batch = EmptyBatch
    BY <1>1, <1>4, EmptyBatchGood, WithBatchGood DEF PageError
  <2>2. QED
    BY <1>1, <1>4, <2>1, PagesAssumption DEF Rest, PageError
<1>5. CASE Restart
  <2> DEFINE s == Normalized(saved)
  <2>1. /\ cal' = WithBatch(Deduped(s), EmptyBatch)
        /\ saved' = IF Folded(s.events) # {}
                    THEN [events |-> Deduped(s).events, aliases |-> Deduped(s).aliases]
                    ELSE saved
        /\ pass' = "idle" /\ page' = 0 /\ todo' = {} /\ UNCHANGED <<retired, ahead>>
        /\ MayFold(s)
    BY <1>5 DEF Restart
  <2>2. saved \in Files
    BY <1>1 DEF Rest
  <2>3. /\ s.events \in Partial(Events) /\ s.aliases \in Partial(Aliases)
        /\ Reach(s.events, s.aliases)
    BY <2>2, NormalizedReaches
  <2>4. \A id \in Folded(s.events) : Members(s.aliases, id) = {}
    BY <2>1 DEF MayFold
  <2> HIDE DEF s
  <2>5. Good(Deduped(s))
    BY <2>3, <2>4, DedupedGood
  <2>6. Deduped(s).events \in Partial(Events) /\ Deduped(s).aliases \in Partial(Aliases)
    BY <2>5, CalendarParts
  <2>7. saved' \in Files
    BY <2>1, <2>2, <2>6 DEF Files
  <2>8. Good(cal') /\ cal'.batch = EmptyBatch
    BY <2>1, <2>5, EmptyBatchGood, WithBatchGood
  <2>9. QED
    BY <1>1, <2>1, <2>7, <2>8, PagesAssumption DEF Rest
<1>6. ASSUME NEW i \in Items, PullAdded(i) PROVE Good(cal') /\ Rest'
  <2>1. i.id \in IDs /\ i.ev \in Events
    BY DEF Items
  <2>2. Good(AddEvent(cal, i.id, i.ev, FALSE))
    BY <1>1, <2>1, AddGood
  <2>3. retired' \subseteq IDs
    BY <1>1, <1>6 DEF PullAdded, Rest
  <2>4. QED
    BY <1>1, <1>6, <2>2, <2>3, FinishGood DEF PullAdded
<1>7. ASSUME NEW i \in Items, PullChanged(i) PROVE Good(cal') /\ Rest'
  <2>1. i.id \in IDs /\ i.ev \in Events
    BY DEF Items
  <2>2. Good(ChangeEvent(cal, i.id, i.ev))
    BY <1>1, <2>1, ChangeGood
  <2>3. retired' \subseteq IDs
    BY <1>1, <1>7 DEF PullChanged, Rest
  <2>4. QED
    BY <1>1, <1>7, <2>2, <2>3, FinishGood DEF PullChanged
<1>8. ASSUME NEW i \in Items, ApplyReplayed(i) PROVE Good(cal') /\ Rest'
  <2>1. i.id \in IDs /\ i.ev \in Events
    BY DEF Items
  <2>2. Good(AddEvent(cal, i.id, i.ev, TRUE))
    BY <1>1, <2>1, AddGood
  <2>3. retired' \subseteq IDs
    BY <1>1, <1>8 DEF ApplyReplayed, Rest
  <2>4. CASE todo = {i}
    BY <1>1, <1>8, <2>2, <2>3, <2>4, FinishGood DEF ApplyReplayed
  <2>5. CASE todo # {i}
    <3>1. /\ cal' = AddEvent(cal, i.id, i.ev, TRUE) /\ todo' = todo \ {i}
          /\ UNCHANGED <<saved, pass, page, ahead>> /\ pass = "replay"
      BY <1>8, <2>5 DEF ApplyReplayed
    <3>2. QED
      BY <1>1, <2>2, <2>3, <3>1 DEF Rest
  <2>6. QED
    BY <2>4, <2>5
<1>9. ASSUME NEW id \in IDs, PullDeleted(id) PROVE Good(cal') /\ Rest'
  <2>1. Good(DeleteEvent(cal, id))
    BY <1>1, DeleteGood
  <2>2. retired' \subseteq IDs
    BY <1>1, <1>9 DEF PullDeleted, Rest
  <2>3. QED
    BY <1>1, <1>9, <2>1, <2>2, FinishGood DEF PullDeleted
<1>10. ASSUME NEW id \in IDs, RemoveEvent(id) PROVE Good(cal') /\ Rest'
  <2> DEFINE gone == Members(cal.aliases, id) \cup ({id} \cap DOMAIN cal.aliases)
             b == Batch(None, {id}, None, gone)
  <2>1. /\ cal' = WithBatch(Replayed(cal, b), cal.batch) /\ SaveBatch(b)
        /\ retired' = retired \cup {id} /\ UNCHANGED <<pass, page, todo>>
    BY <1>10 DEF RemoveEvent
  <2>2. DOMAIN cal.aliases \subseteq IDs
    BY <1>2, PartialMaps
  <2>3. gone \in SUBSET IDs
    BY <2>2 DEF Members
  <2>4. GoodBatch(b) /\ DOMAIN b.aliases = {} /\ b.deletes = {id} /\ b.aliasDeletes = gone
    BY <2>3, RemoveBatch
  <2>5. \A a \in DOMAIN cal.aliases :
          cal.aliases[a].target \in b.deletes => a \in b.aliasDeletes
    BY <2>4 DEF Members
  <2> HIDE DEF b, gone
  <2>6. Good(cal')
    BY <1>1, <2>1, <2>4, <2>5, WriteGood
  <2>7. saved' \in Files /\ ahead' \in BOOLEAN
    BY <1>1, <2>1, <2>4, SaveKeepsFiles DEF Rest
  <2>8. cal'.batch = cal.batch
    BY <2>1 DEF WithBatch, Calendar
  <2>9. QED
    BY <1>1, <2>1, <2>6, <2>7, <2>8 DEF Rest
<1>11. ASSUME NEW id \in IDs, NEW ev \in Events, UpsertEvent(id, ev) PROVE Good(cal') /\ Rest'
  <2> DEFINE b == RecordAliasDelete(RecordUpsert(EmptyBatch, id, ev), id)
  <2>1. /\ cal' = WithBatch(Replayed(cal, b), cal.batch) /\ SaveBatch(b)
        /\ UNCHANGED <<pass, page, todo, retired>>
    BY <1>11 DEF UpsertEvent
  <2>2. GoodBatch(b) /\ DOMAIN b.aliases = {} /\ b.deletes = {}
    BY UpsertBatch
  <2> HIDE DEF b
  <2>3. Good(cal')
    BY <1>1, <2>1, <2>2, WriteGood
  <2>4. saved' \in Files /\ ahead' \in BOOLEAN
    BY <1>1, <2>1, <2>2, SaveKeepsFiles DEF Rest
  <2>5. cal'.batch = cal.batch
    BY <2>1 DEF WithBatch, Calendar
  <2>6. QED
    BY <1>1, <2>1, <2>3, <2>4, <2>5 DEF Rest
<1>12. ASSUME NEW added \in Additions, PullReplay(added) PROVE Good(cal') /\ Rest'
  <2>1. /\ cal' = Pruned(cal, added) /\ todo' = added /\ pass' = "replay"
        /\ UNCHANGED <<saved, page, retired, ahead>>
    BY <1>12 DEF PullReplay
  <2>2. Good(cal')
    BY <1>1, <2>1, PrunedGood
  <2>3. added \subseteq Items
    BY DEF Additions, kSubset
  <2>4. QED
    BY <1>1, <2>1, <2>2, <2>3 DEF Rest
<1>13. CASE UNCHANGED vars
  BY <1>1, <1>13 DEF vars, Good, Disjoint, Reach, Rest
<1>14. QED
  BY <1>3, <1>4, <1>5, <1>6, <1>7, <1>8, <1>9, <1>10, <1>11, <1>12, <1>13 DEF Next

(* With a server that never makes an event with aliases the equal of an    *)
(* older one, every alias leads to a visible event and is not one itself:  *)
(* after folding, splitting, promotion, pruning, CalDAV's writes, lost     *)
(* batches and restarts.                                                   *)
THEOREM AliasesAlwaysReach ==
    ASSUME "refold" \notin Faults
    PROVE  Spec => [](TypeOK /\ AliasesReachEvents)
<1>1. Inv /\ [Next]_vars => Inv'
  BY NextKeepsInv
<1>2. Init => Inv
  BY InitGood
<1>3. Inv => TypeOK /\ AliasesReachEvents
  BY DEF Inv
<1>4. QED
  BY <1>1, <1>2, <1>3, PTL DEF Spec

-----------------------------------------------------------------------------
(* A deletion and what the other ServerIDs stand for.                      *)

(* The meeting a ServerID stands for.                                      *)
LEMMA ShownIs ==
    ASSUME NEW c, Good(c), NEW x
    PROVE  /\ x \in DOMAIN c.events => Canonical(c, x) = {x} /\ Shown(c, x) = {c.events[x].body}
           /\ x \in DOMAIN c.aliases =>
                /\ Canonical(c, x) = {c.aliases[x].target}
                /\ Shown(c, x) = {c.events[c.aliases[x].target].body}
           /\ x \notin DOMAIN c.events \cup DOMAIN c.aliases => Canonical(c, x) = {}
<1>1. CASE x \in DOMAIN c.events
  <2>1. Canonical(c, x) = {x}
    BY <1>1 DEF Canonical
  <2>2. x \notin DOMAIN c.aliases
    BY <1>1, AliasParts
  <2>3. QED
    BY <1>1, <2>1, <2>2 DEF Shown
<1>2. CASE x \in DOMAIN c.aliases
  <2>1. x \notin DOMAIN c.events /\ c.aliases[x].target \in DOMAIN c.events
    BY <1>2, AliasParts
  <2>2. Canonical(c, x) = {c.aliases[x].target}
    BY <1>2, <2>1 DEF Canonical, Members
  <2>3. QED
    BY <1>2, <2>1, <2>2 DEF Shown
<1>3. CASE x \notin DOMAIN c.events \cup DOMAIN c.aliases
  BY <1>3 DEF Canonical, Members
<1>4. QED
  BY <1>1, <1>2, <1>3

(* Two good calendars in which a ServerID stands for the same meeting.     *)
Stands(c, d, x) ==
    \/ /\ x \in DOMAIN c.events /\ x \in DOMAIN d.events
       /\ c.events[x].body = d.events[x].body
    \/ /\ x \in DOMAIN c.aliases /\ x \in DOMAIN d.aliases
       /\ c.events[c.aliases[x].target].body = d.events[d.aliases[x].target].body
    \/ /\ x \in DOMAIN c.aliases /\ x \in DOMAIN d.events
       /\ c.events[c.aliases[x].target].body = d.events[x].body

LEMMA StandsShown ==
    ASSUME NEW c, Good(c), NEW d, Good(d), NEW x, Stands(c, d, x)
    PROVE  Shown(d, x) = Shown(c, x)
<1>1. /\ x \in DOMAIN c.events => Shown(c, x) = {c.events[x].body}
      /\ x \in DOMAIN c.aliases => Shown(c, x) = {c.events[c.aliases[x].target].body}
  BY ShownIs
<1>2. /\ x \in DOMAIN d.events => Shown(d, x) = {d.events[x].body}
      /\ x \in DOMAIN d.aliases => Shown(d, x) = {d.events[d.aliases[x].target].body}
  BY ShownIs
<1>3. QED
  BY <1>1, <1>2 DEF Stands

(* What promotion makes of the calendar: d from c, when id goes and heir,  *)
(* one of the members that follow it, takes its place.                     *)
Promoted(c, d, id, members, heir) ==
    LET moved == members \ {heir}
        ev == [uid |-> c.aliases[heir].uid, body |-> c.events[id].body]
    IN  /\ DOMAIN d.events = (DOMAIN c.events \ {id}) \cup {heir}
        /\ \A x \in DOMAIN c.events \ {id} : d.events[x] = c.events[x]
        /\ d.events[heir] = ev
        /\ DOMAIN d.aliases = DOMAIN c.aliases \ {heir}
        /\ \A x \in DOMAIN c.aliases \ members : d.aliases[x] = c.aliases[x]
        /\ \A x \in moved : d.aliases[x] = AliasTo(heir, c.aliases[x].uid, c.aliases[x].replay)
        /\ d.batch.upserts = With(Forget(c.batch.upserts, {id}), heir, ev)
        /\ d.batch.deletes = (c.batch.deletes \cup {id}) \ {heir}
        /\ DOMAIN d.batch.aliases = (DOMAIN c.batch.aliases \ {heir}) \cup moved
        /\ \A x \in moved : d.batch.aliases[x] = d.aliases[x]
        /\ \A x \in DOMAIN c.batch.aliases \ members : d.batch.aliases[x] = c.batch.aliases[x]
        /\ d.batch.aliasDeletes = (c.batch.aliasDeletes \cup {heir}) \ moved

LEMMA PromoteIs ==
    ASSUME NEW c, Good(c), NEW id \in DOMAIN c.events,
           NEW members, members = Members(c.aliases, id), members # {}
    PROVE  /\ Min(members) \in members /\ Min(members) \in IDs /\ Min(members) # id
           /\ Min(members) \notin DOMAIN c.events /\ id \in IDs
           /\ [uid |-> c.aliases[Min(members)].uid, body |-> c.events[id].body] \in Events
           /\ members \subseteq DOMAIN c.aliases
           /\ \A x \in DOMAIN c.aliases : x \in members <=> c.aliases[x].target = id
           /\ Promoted(c, Promote(c, id, members), id, members, Min(members))
<1> DEFINE heir == Min(members)
           ev == [uid |-> c.aliases[heir].uid, body |-> c.events[id].body]
           E == With(Forget(c.events, {id}), heir, ev)
           A == Forget(c.aliases, {heir})
           BA == Forget(c.batch.aliases, {heir})
           moved == members \ {heir}
           new == [x \in moved |-> AliasTo(heir, c.aliases[x].uid, c.aliases[x].replay)]
           d == Promote(c, id, members)
<1>1. /\ c.events \in Partial(Events) /\ c.aliases \in Partial(Aliases)
      /\ GoodBatch(c.batch) /\ Reach(c.events, c.aliases)
      /\ c.batch.upserts \in Partial(Events) /\ c.batch.aliases \in Partial(Aliases)
  BY CalendarParts, BatchParts
<1>2. id \in IDs /\ c.events[id].body \in Bodies
  BY <1>1, EventParts
<1>3. /\ members \subseteq DOMAIN c.aliases
      /\ \A x \in DOMAIN c.aliases : x \in members <=> c.aliases[x].target = id
  BY DEF Members
<1>4. \A x \in members : /\ x \in IDs /\ x \notin DOMAIN c.events
                         /\ c.aliases[x].uid \in UIDs \cup {NoUID}
                         /\ c.aliases[x].replay \in BOOLEAN
  BY <1>3, AliasParts
<1>5. heir \in members
  BY <1>4, LeastID
<1>6. heir \in IDs /\ heir \notin DOMAIN c.events /\ ev \in Events /\ heir # id
  BY <1>2, <1>4, <1>5 DEF Events
<1>7. /\ d.events = E
      /\ d.aliases = Over(new, A)
      /\ d.batch.upserts = With(Forget(c.batch.upserts, {id}), heir, ev)
      /\ d.batch.deletes = (c.batch.deletes \cup {id}) \ {heir}
      /\ d.batch.aliases = Over(new, BA)
      /\ d.batch.aliasDeletes = (c.batch.aliasDeletes \cup {heir}) \ DOMAIN new
  BY DEF Promote, Handed, ShowEvent, HideEvent, DropAlias, Calendar, Batch,
         RecordAliasDelete, RecordDelete, RecordUpsert
<1>8. new \in Partial(Aliases)
  <2>1. \A x \in moved : AliasTo(heir, c.aliases[x].uid, c.aliases[x].replay) \in Aliases
    BY <1>4, <1>6, AliasType
  <2>2. new \in [moved -> Aliases]
    BY <2>1
  <2>3. moved \in SUBSET IDs
    BY <1>4
  <2> HIDE DEF new, moved
  <2>4. QED
    BY <2>2, <2>3, PartialMaps
<1>9. DOMAIN new = moved /\ \A x \in moved : new[x] = AliasTo(heir, c.aliases[x].uid, c.aliases[x].replay)
  OBVIOUS
<1> HIDE DEF heir, ev, moved, new, d
<1>10. /\ DOMAIN E = (DOMAIN c.events \ {id}) \cup {heir}
       /\ \A x \in DOMAIN c.events \ {id} : E[x] = c.events[x]
       /\ E[heir] = ev
  <2> DEFINE F == Forget(c.events, {id})
  <2>1. /\ F \in Partial(Events)
        /\ DOMAIN F = DOMAIN c.events \ {id}
        /\ \A x \in DOMAIN c.events \ {id} : F[x] = c.events[x]
    BY <1>1, <1>2, EventMaps
  <2> HIDE DEF F
  <2>2. \A y \in Events : /\ With(F, heir, y) \in Partial(Events)
                          /\ DOMAIN With(F, heir, y) = DOMAIN F \cup {heir}
                          /\ \A x \in DOMAIN F \cup {heir} :
                               With(F, heir, y)[x] = IF x = heir THEN y ELSE F[x]
    BY <1>6, <2>1, EventMaps
  <2>3. E = With(F, heir, ev)
    BY DEF F
  <2> HIDE DEF E
  <2>4. QED
    BY <1>6, <2>1, <2>2, <2>3
<1>11. /\ A \in Partial(Aliases) /\ DOMAIN A = DOMAIN c.aliases \ {heir}
       /\ \A x \in DOMAIN c.aliases \ {heir} : A[x] = c.aliases[x]
  BY <1>1, AliasMaps
<1>12. /\ BA \in Partial(Aliases) /\ DOMAIN BA = DOMAIN c.batch.aliases \ {heir}
       /\ \A x \in DOMAIN c.batch.aliases \ {heir} : BA[x] = c.batch.aliases[x]
  BY <1>1, AliasMaps
<1> HIDE DEF E, A, BA
<1>13. /\ DOMAIN Over(new, A) = moved \cup DOMAIN A
       /\ \A x \in moved : Over(new, A)[x] = new[x]
       /\ \A x \in DOMAIN A : x \notin moved => Over(new, A)[x] = A[x]
  BY <1>8, <1>9, <1>11, OverAliases
<1>14. /\ DOMAIN Over(new, BA) = moved \cup DOMAIN BA
       /\ \A x \in moved : Over(new, BA)[x] = new[x]
       /\ \A x \in DOMAIN BA : x \notin moved => Over(new, BA)[x] = BA[x]
  BY <1>8, <1>9, <1>12, OverAliases
<1>15. moved \subseteq DOMAIN c.aliases \ {heir} /\ members = moved \cup {heir} /\ heir \in members
  BY <1>3, <1>5 DEF moved
<1>16. /\ DOMAIN d.aliases = DOMAIN c.aliases \ {heir}
       /\ \A x \in DOMAIN c.aliases \ members : d.aliases[x] = c.aliases[x]
       /\ \A x \in moved : d.aliases[x] = AliasTo(heir, c.aliases[x].uid, c.aliases[x].replay)
  BY <1>7, <1>9, <1>11, <1>13, <1>15
<1>17. /\ DOMAIN d.batch.aliases = (DOMAIN c.batch.aliases \ {heir}) \cup moved
       /\ \A x \in DOMAIN c.batch.aliases \ members : d.batch.aliases[x] = c.batch.aliases[x]
       /\ \A x \in moved : x \in DOMAIN d.batch.aliases /\ d.batch.aliases[x] = d.aliases[x]
  BY <1>7, <1>9, <1>12, <1>13, <1>14, <1>15
<1>18. Promoted(c, d, id, members, heir)
  BY <1>7, <1>9, <1>10, <1>16, <1>17 DEF Promoted, ev, moved
<1>19. QED
  BY <1>2, <1>3, <1>5, <1>6, <1>18 DEF heir, ev, d

(* After a deletion every other ServerID stands for what it stood for.     *)
LEMMA DeleteStands ==
    ASSUME NEW c, Good(c), NEW id \in IDs,
           NEW x \in (DOMAIN c.events \cup DOMAIN c.aliases) \ {id}
    PROVE  Stands(c, DeleteEvent(c, id), x)
<1>1. /\ c.events \in Partial(Events) /\ c.aliases \in Partial(Aliases)
      /\ \A a \in DOMAIN c.aliases : c.aliases[a].target \in DOMAIN c.events
  BY CalendarParts DEF Reach
<1>2. CASE id \in DOMAIN c.aliases
  <2>1. DeleteEvent(c, id) = DropAlias(c, id)
    BY <1>2 DEF DeleteEvent
  <2>2. /\ DropAlias(c, id).events = c.events
        /\ DOMAIN DropAlias(c, id).aliases = DOMAIN c.aliases \ {id}
        /\ \A a \in DOMAIN c.aliases \ {id} : DropAlias(c, id).aliases[a] = c.aliases[a]
    BY DropAliasGood
  <2>3. QED
    BY <2>1, <2>2 DEF Stands
<1>3. CASE id \notin DOMAIN c.aliases \cup DOMAIN c.events
  BY <1>3 DEF DeleteEvent, Stands
<1>4. CASE id \notin DOMAIN c.aliases /\ id \in DOMAIN c.events /\ Members(c.aliases, id) = {}
  <2>1. DeleteEvent(c, id) = HideEvent(c, id)
    BY <1>4 DEF DeleteEvent
  <2>2. /\ DOMAIN Forget(c.events, {id}) = DOMAIN c.events \ {id}
        /\ \A y \in DOMAIN c.events \ {id} : Forget(c.events, {id})[y] = c.events[y]
    BY <1>1, EventMaps
  <2>3. \A a \in DOMAIN c.aliases : c.aliases[a].target # id
    BY <1>4 DEF Members
  <2>4. HideEvent(c, id).events = Forget(c.events, {id}) /\ HideEvent(c, id).aliases = c.aliases
    BY DEF HideEvent, Calendar
  <2>5. QED
    BY <1>1, <2>1, <2>2, <2>3, <2>4 DEF Stands
<1>5. CASE id \notin DOMAIN c.aliases /\ id \in DOMAIN c.events /\ Members(c.aliases, id) # {}
  <2> DEFINE members == Members(c.aliases, id)
             heir == Min(members)
             d == Promote(c, id, members)
  <2>1. DeleteEvent(c, id) = d
    BY <1>5 DEF DeleteEvent
  <2>2. \A m : m = Members(c.aliases, id) /\ m # {} =>
          Min(m) \in m /\ Min(m) \notin DOMAIN c.events
          /\ Promoted(c, Promote(c, id, m), id, m, Min(m))
    BY <1>5, PromoteIs, Zenon
  <2>3. \A y \in members : y \in DOMAIN c.aliases /\ c.aliases[y].target = id
    BY DEF Members
  <2>4. \A y \in DOMAIN c.aliases \ members : c.aliases[y].target # id
    BY DEF Members
  <2>5. members = Members(c.aliases, id) /\ members # {}
    BY <1>5
  <2> HIDE DEF members
  <2>6. /\ heir \in members /\ heir \notin DOMAIN c.events
         /\ Promoted(c, d, id, members, heir)
    BY <2>2, <2>5
  <2> HIDE DEF heir, d
  <2>7. \A y \in members \ {heir} : d.aliases[y].target = heir
    <3> TAKE y \in members \ {heir}
    <3>1. d.aliases[y] = AliasTo(heir, c.aliases[y].uid, c.aliases[y].replay)
      BY <2>6 DEF Promoted
    <3>2. QED
      BY <3>1 DEF AliasTo
  <2>8. CASE x \in DOMAIN c.events
    BY <2>1, <2>6, <2>8 DEF Stands, Promoted
  <2>9. CASE x = heir
    BY <2>1, <2>6, <2>3, <2>9 DEF Stands, Promoted
  <2>10. CASE x \in members \ {heir}
    BY <2>1, <2>6, <2>3, <2>10, <2>7 DEF Stands, Promoted
  <2>11. CASE x \in DOMAIN c.aliases \ members
    <3>1. d.aliases[x] = c.aliases[x] /\ x \in DOMAIN d.aliases
      BY <2>6, <2>11 DEF Promoted
    <3>2. c.aliases[x].target \in DOMAIN c.events \ {id}
      BY <1>1, <2>4, <2>11
    <3>3. QED
      BY <2>1, <2>6, <2>11, <3>1, <3>2 DEF Stands, Promoted
  <2>12. QED
    BY <2>8, <2>9, <2>10, <2>11
<1>6. QED
  BY <1>2, <1>3, <1>4, <1>5

(* The end of a page changes nothing but the batch.                        *)
LEMMA FinishShows ==
    ASSUME NEW c, FinishPage(c)
    PROVE  cal'.events = c.events /\ cal'.aliases = c.aliases
  BY DEF FinishPage, WithBatch, Calendar

(* sync.go 1121-1123: a deletion takes no meeting from another ServerID.   *)
THEOREM DeletionsSpareOthers ==
    ASSUME "refold" \notin Faults
    PROVE  Spec => DeleteSparesOthers
<1>1. ASSUME Inv, [Next]_vars, NEW id \in IDs, PullDeleted(id),
             NEW x \in (DOMAIN cal.events \cup DOMAIN cal.aliases) \ {id}
      PROVE  Shown(cal', x) = Shown(cal, x)
  <2>1. Good(cal)
    BY <1>1, InvIsGood
  <2>2. Good(DeleteEvent(cal, id))
    BY <2>1, DeleteGood
  <2>3. Shown(DeleteEvent(cal, id), x) = Shown(cal, x)
    BY <2>1, <2>2, DeleteStands, StandsShown
  <2>4. cal'.events = DeleteEvent(cal, id).events /\ cal'.aliases = DeleteEvent(cal, id).aliases
    BY <1>1, FinishShows DEF PullDeleted
  <2>5. QED
    BY <2>3, <2>4 DEF Shown, Canonical
<1>2. Inv /\ [Next]_vars =>
        [\A id \in IDs : PullDeleted(id) =>
            \A other \in (DOMAIN cal.events \cup DOMAIN cal.aliases) \ {id} :
                Shown(cal', other) = Shown(cal, other)]_vars
  BY <1>1
<1>3. Inv /\ [Next]_vars => Inv'
  BY NextKeepsInv
<1>4. QED
  BY <1>2, <1>3, InitGood, PTL DEF Spec, DeleteSparesOthers

-----------------------------------------------------------------------------
(* Replayed pages.                                                         *)

(* Nothing about a record of a replayed page looks new in c.               *)
Familiar(c, i) ==
    /\ i.id \in DOMAIN c.events => c.events[i.id].body = i.ev.body
    /\ i.id \in DOMAIN c.aliases => c.events[c.aliases[i.id].target].body = i.ev.body
    /\ \E t \in DOMAIN c.events : c.events[t].body = i.ev.body

(* What the rest of a replayed page was judged to be, it still is.         *)
Judged ==
    pass = "replay" =>
        \A i \in todo : Familiar(cal, i) /\ \A j \in todo : j.id = i.id => j = i

(* The judgement of calendarPageIsDuplicateReplay, and pruning after it.   *)
LEMMA ReplayFamiliar ==
    ASSUME NEW c, Good(c), NEW added, IsReplay(c, added), NEW i \in added
    PROVE  Familiar(Pruned(c, added), i)
<1>1. IF Canonical(c, i.id) # {} THEN \A x \in Canonical(c, i.id) : c.events[x].body = i.ev.body
      ELSE Lookalikes(c.events, i.ev) # {}
  BY DEF IsReplay
<1>2. /\ i.id \in DOMAIN c.events => Canonical(c, i.id) = {i.id}
      /\ i.id \in DOMAIN c.aliases => Canonical(c, i.id) = {c.aliases[i.id].target}
      /\ i.id \notin DOMAIN c.events \cup DOMAIN c.aliases => Canonical(c, i.id) = {}
  BY ShownIs
<1>3. \A a \in DOMAIN c.aliases : c.aliases[a].target \in DOMAIN c.events
  BY AliasParts
<1>4. Familiar(c, i)
  BY <1>1, <1>2, <1>3 DEF Familiar, Lookalikes
<1>5. PICK S : Pruned(c, added) = DropAliases(c, S)
  BY DEF Pruned
<1>6. c.aliases \in Partial(Aliases)
  BY CalendarParts
<1>7. /\ DOMAIN Forget(c.aliases, S) = DOMAIN c.aliases \ S
      /\ \A x \in DOMAIN c.aliases \ S : Forget(c.aliases, S)[x] = c.aliases[x]
  BY <1>6, AliasMaps
<1>8. /\ Pruned(c, added).events = c.events
      /\ Pruned(c, added).aliases = Forget(c.aliases, S)
  BY <1>5 DEF DropAliases, Calendar
<1>9. QED
  BY <1>4, <1>7, <1>8 DEF Familiar

(* The same meetings shown, and every ServerID but one the same alias.     *)
SameBut(c, d, id) ==
    /\ DOMAIN d.events = DOMAIN c.events
    /\ \A x \in DOMAIN c.events : d.events[x].body = c.events[x].body
    /\ DOMAIN d.aliases \ {id} = DOMAIN c.aliases \ {id}
    /\ \A x \in DOMAIN c.aliases \ {id} : d.aliases[x] = c.aliases[x]

(* A familiar record leaves what the user sees, and what every other       *)
(* ServerID is.                                                            *)
LEMMA ReplayApplied ==
    ASSUME NEW c, Good(c), NEW i \in Items, Familiar(c, i)
    PROVE  SameBut(c, AddEvent(c, i.id, i.ev, TRUE), i.id)
<1> DEFINE id == i.id
           ev == i.ev
           d == AddEvent(c, id, ev, TRUE)
<1>1. /\ c.events \in Partial(Events) /\ c.aliases \in Partial(Aliases)
  BY CalendarParts
<1>2. id \in IDs /\ ev \in Events
  BY DEF Items
<1>3. ev.uid \in UIDs \cup {NoUID}
  BY <1>2 DEF Events
<1>4. ASSUME NEW a \in Aliases PROVE SameBut(c, SetAlias(c, id, a), id)
  <2>1. /\ DOMAIN With(c.aliases, id, a) = DOMAIN c.aliases \cup {id}
        /\ \A x \in DOMAIN c.aliases \cup {id} :
             With(c.aliases, id, a)[x] = IF x = id THEN a ELSE c.aliases[x]
    <3> HIDE DEF id
    <3>1. id \in IDs /\ a \in Aliases /\ c.aliases \in Partial(Aliases)
      BY <1>1, <1>2, <1>4
    <3>2. QED
      BY <3>1, AliasSet
  <2>2. /\ SetAlias(c, id, a).events = c.events
        /\ SetAlias(c, id, a).aliases = With(c.aliases, id, a)
    BY DEF SetAlias, Calendar
  <2> HIDE DEF id
  <2>3. QED
    BY <2>1, <2>2 DEF SameBut
<1>5. CASE id \in DOMAIN c.events
  <2>0. id \notin DOMAIN c.aliases
    BY <1>5, AliasParts
  <2>1. d = IF c.events[id] = ev THEN c ELSE ShowEvent(c, id, ev)
    BY <1>5, <2>0 DEF AddEvent, Covered
  <2>2. c.events[id].body = ev.body
    BY <1>5 DEF Familiar
  <2>3. \A y \in Events : /\ With(c.events, id, y) \in Partial(Events)
                          /\ DOMAIN With(c.events, id, y) = DOMAIN c.events \cup {id}
                          /\ \A x \in DOMAIN c.events \cup {id} :
                               With(c.events, id, y)[x] = IF x = id THEN y ELSE c.events[x]
    <3> HIDE DEF id
    <3>1. QED
      BY <1>1, <1>2, EventMaps
  <2>4. /\ ShowEvent(c, id, ev).events = With(c.events, id, ev)
        /\ ShowEvent(c, id, ev).aliases = c.aliases
    BY DEF ShowEvent, Calendar
  <2> HIDE DEF d, id, ev
  <2>5. SameBut(c, ShowEvent(c, id, ev), id)
    BY <1>2, <1>5, <2>2, <2>3, <2>4 DEF SameBut
  <2>6. SameBut(c, d, id)
    BY <2>1, <2>5 DEF SameBut
  <2>7. QED
    BY <2>6 DEF d, id, ev
<1>6. CASE id \notin DOMAIN c.events /\ id \in DOMAIN c.aliases
  <2>1. Covered(c, id, ev)
    <3>1. Canonical(c, id) = {c.aliases[id].target}
      BY <1>6, ShownIs
    <3>2. QED
      BY <1>6, <3>1 DEF Covered, Familiar
  <2>2. /\ c.aliases[id].target \in IDs /\ c.aliases[id].replay \in BOOLEAN
    BY <1>6, AliasParts
  <2>3. d = IF c.aliases[id].uid # ev.uid \/ (TRUE /\ ~c.aliases[id].replay)
            THEN SetAlias(c, id, AliasTo(c.aliases[id].target, ev.uid, c.aliases[id].replay \/ TRUE))
            ELSE c
    BY <1>6, <2>1 DEF AddEvent
  <2>4. AliasTo(c.aliases[id].target, ev.uid, c.aliases[id].replay \/ TRUE) \in Aliases
    BY <1>3, <2>2, AliasType
  <2> HIDE DEF d, id, ev
  <2>5. SameBut(c, SetAlias(c, id, AliasTo(c.aliases[id].target, ev.uid, c.aliases[id].replay \/ TRUE)), id)
    BY <1>4, <2>4
  <2>6. SameBut(c, d, id)
    BY <2>3, <2>5 DEF SameBut
  <2>7. QED
    BY <2>6 DEF d, id, ev
<1>7. CASE id \notin DOMAIN c.events /\ id \notin DOMAIN c.aliases
  <2> DEFINE same == IF ev.uid = NoUID THEN {} ELSE Twins(c.events, ev)
             like == IF same = {} /\ TRUE THEN Lookalikes(c.events, ev) ELSE same
  <2>1. WithoutAlias(c, id) = c /\ ~Covered(c, id, ev)
    BY <1>7 DEF WithoutAlias, Covered
  <2>2. d = IF like = {} THEN ShowEvent(c, id, ev)
            ELSE SetAlias(c, id, AliasTo(Min(like), ev.uid, TRUE))
    BY <1>7, <2>1 DEF AddEvent
  <2>3. like # {} /\ like \subseteq DOMAIN c.events
    BY DEF Familiar, Lookalikes, Twins
  <2> HIDE DEF like, same
  <2>4. Min(like) \in IDs
    <3>1. like \in SUBSET IDs
      BY <1>1, <2>3, PartialMaps
    <3>2. QED
      BY <2>3, <3>1, LeastID
  <2>5. AliasTo(Min(like), ev.uid, TRUE) \in Aliases
    BY <1>3, <2>4, AliasType
  <2> HIDE DEF d, id, ev
  <2>6. SameBut(c, d, id)
    BY <1>4, <2>2, <2>3, <2>5
  <2>7. QED
    BY <2>6 DEF d, id, ev
<1>8. SameBut(c, d, id)
  BY <1>5, <1>6, <1>7
<1>9. QED
  BY <1>8

(* The same, in the words of the property.                                 *)
LEMMA ReplayKeepsFace ==
    ASSUME NEW c, Good(c), NEW i \in Items, Familiar(c, i), NEW d,
           d.events = AddEvent(c, i.id, i.ev, TRUE).events
    PROVE  Face(d) = Face(c)
<1>1. SameBut(c, AddEvent(c, i.id, i.ev, TRUE), i.id)
  BY ReplayApplied
<1>2. /\ DOMAIN d.events = DOMAIN c.events
      /\ \A x \in DOMAIN c.events : d.events[x].body = c.events[x].body
  BY <1>1 DEF SameBut
<1>3. QED
  BY <1>2 DEF Face

LEMMA ReplayKeepsFamiliar ==
    ASSUME NEW c, Good(c), NEW i \in Items, Familiar(c, i),
           NEW j \in Items, j.id # i.id, Familiar(c, j)
    PROVE  Familiar(AddEvent(c, i.id, i.ev, TRUE), j)
<1> DEFINE d == AddEvent(c, i.id, i.ev, TRUE)
<1>1. /\ DOMAIN d.events = DOMAIN c.events
      /\ \A x \in DOMAIN c.events : d.events[x].body = c.events[x].body
      /\ DOMAIN d.aliases \ {i.id} = DOMAIN c.aliases \ {i.id}
      /\ \A x \in DOMAIN c.aliases \ {i.id} : d.aliases[x] = c.aliases[x]
  BY ReplayApplied DEF SameBut
<1>2. \A x \in DOMAIN c.aliases : c.aliases[x].target \in DOMAIN c.events
  BY AliasParts
<1> HIDE DEF d
<1>3. Familiar(d, j)
  BY <1>1, <1>2 DEF Familiar
<1>4. QED
  BY <1>3 DEF d

LEMMA JudgedKept == Inv /\ Judged /\ [Next]_vars => Judged'
<1> SUFFICES ASSUME Inv, Judged, [Next]_vars, pass' = "replay"
             PROVE  \A i \in todo' : Familiar(cal', i) /\ \A j \in todo' : j.id = i.id => j = i
  BY DEF Judged
<1>1. Good(cal) /\ todo \subseteq Items /\ pass \in {"idle", "paging", "replay"}
  BY InvIsGood DEF Rest
<1>2. ASSUME NEW added \in Additions, PullReplay(added)
      PROVE  \A i \in todo' : Familiar(cal', i) /\ \A j \in todo' : j.id = i.id => j = i
  <2>1. \A i \in added : Familiar(Pruned(cal, added), i)
    BY <1>1, <1>2, ReplayFamiliar DEF PullReplay
  <2>2. \A i, j \in added : i.id = j.id => i = j
    BY DEF Additions
  <2>3. QED
    BY <1>2, <2>1, <2>2 DEF PullReplay
<1>3. ASSUME NEW i \in Items, ApplyReplayed(i)
      PROVE  \A j \in todo' : Familiar(cal', j) /\ \A k \in todo' : k.id = j.id => k = j
  <2>1. pass = "replay" /\ i \in todo /\ Familiar(cal, i)
    BY <1>3 DEF ApplyReplayed, Judged
  <2>2. CASE todo = {i}
    BY <1>3, <2>2 DEF ApplyReplayed, FinishPage
  <2>3. CASE todo # {i}
    <3>1. cal' = AddEvent(cal, i.id, i.ev, TRUE) /\ todo' = todo \ {i}
      BY <1>3, <2>3 DEF ApplyReplayed
    <3>2. \A j \in todo \ {i} : j \in Items /\ j.id # i.id /\ Familiar(cal, j)
      BY <1>1, <2>1 DEF Judged
    <3>3. \A j \in todo \ {i} : Familiar(AddEvent(cal, i.id, i.ev, TRUE), j)
      BY <1>1, <2>1, <3>2, ReplayKeepsFamiliar
    <3>4. QED
      BY <2>1, <3>1, <3>3 DEF Judged
  <2>4. QED
    BY <2>2, <2>3
<1>4. CASE UNCHANGED vars
  BY <1>4 DEF vars, Judged
<1>5. ~StartPass /\ ~PageError /\ ~Restart
  BY DEF StartPass, PageError, Restart
<1>6. \A i \in Items : ~PullAdded(i) /\ ~PullChanged(i)
  BY DEF PullAdded, PullChanged, FinishPage
<1>7. \A id \in IDs : ~PullDeleted(id) /\ ~RemoveEvent(id)
  BY DEF PullDeleted, RemoveEvent, FinishPage, Writable
<1>8. \A id \in IDs, ev \in Events : ~UpsertEvent(id, ev)
  BY DEF UpsertEvent, Writable
<1>9. QED
  BY <1>2, <1>3, <1>4, <1>5, <1>6, <1>7, <1>8 DEF Next

(* sync.go 936-977: applying a replayed page shows nothing again and      *)
(* hides nothing, in whatever order its records come.                      *)
THEOREM ReplaysShowNothingNew ==
    ASSUME "refold" \notin Faults
    PROVE  Spec => ReplayShowsNothingNew
<1>1. ASSUME Inv, Judged, NEW i \in todo, ApplyReplayed(i)
      PROVE  Face(cal') = Face(cal)
  <2>1. Good(cal) /\ i \in Items
    BY <1>1, InvIsGood DEF Rest
  <2>2. Familiar(cal, i)
    BY <1>1 DEF Judged, ApplyReplayed
  <2>3. cal'.events = AddEvent(cal, i.id, i.ev, TRUE).events
    BY <1>1, FinishShows DEF ApplyReplayed
  <2>4. QED
    BY <2>1, <2>2, <2>3, ReplayKeepsFace
<1>2. Inv /\ Judged /\ [Next]_vars =>
        [(\E i \in todo : ApplyReplayed(i)) => Face(cal') = Face(cal)]_vars
  BY <1>1
<1>3. Inv /\ [Next]_vars => Inv'
  BY NextKeepsInv
<1>4. Init => Judged
  BY DEF Init, Judged
<1>5. QED
  BY <1>2, <1>3, <1>4, InitGood, JudgedKept, PTL DEF Spec, ReplayShowsNothingNew

-----------------------------------------------------------------------------
(* Memory, the files and the pending batch.                                *)

(* Two aliases alike but for the mark replay.                              *)
SameAlias(a, b) == a.target = b.target /\ a.uid = b.uid

(* The files s and the batch of c give back what c holds; an alias in s    *)
(* that c has lost without a word in the batch leads to a ServerID in D.   *)
EventsFit(s, c) ==
    LET b == c.batch IN
    /\ DOMAIN c.events = DOMAIN b.upserts \cup (DOMAIN s.events \ b.deletes)
    /\ \A x \in DOMAIN c.events :
         c.events[x] = IF x \in DOMAIN b.upserts THEN b.upserts[x] ELSE s.events[x]

AliasesFit(s, c) ==
    LET b == c.batch IN
    /\ DOMAIN b.aliases \subseteq DOMAIN c.aliases
    /\ \A x \in DOMAIN b.aliases : SameAlias(c.aliases[x], b.aliases[x])
    /\ \A x \in DOMAIN c.aliases \ DOMAIN b.aliases :
         /\ x \in DOMAIN s.aliases
         /\ x \notin b.aliasDeletes /\ x \notin DOMAIN b.upserts
         /\ SameAlias(c.aliases[x], s.aliases[x])

LeftoversDead(s, c, D) ==
    LET b == c.batch IN
    \A x \in DOMAIN s.aliases :
        \/ x \in b.aliasDeletes \/ x \in DOMAIN b.aliases \/ x \in DOMAIN c.aliases
        \/ s.aliases[x].target \in D

Fits(s, c, D) == EventsFit(s, c) /\ AliasesFit(s, c) /\ LeftoversDead(s, c, D)

(* Every ServerID of the calendar, or of the files.                        *)
Names(c) == DOMAIN c.events \cup DOMAIN c.aliases

(* The step from c to d loses nothing and brings in no name but those in N.*)
Keeps(s, c, d, D, N) ==
    d \in Calendars /\ Fits(s, d, D) /\ Names(d) \subseteq Names(c) \cup N

LEMMA Typed ==
    ASSUME NEW c \in Calendars
    PROVE  /\ c.events \in Partial(Events) /\ c.aliases \in Partial(Aliases)
           /\ c.batch \in Batches
           /\ c.batch.upserts \in Partial(Events) /\ c.batch.deletes \in SUBSET IDs
           /\ c.batch.aliases \in Partial(Aliases) /\ c.batch.aliasDeletes \in SUBSET IDs
  BY DEF Calendars, Batches

(* Each operation on the calendar, with what it records, loses nothing.    *)
LEMMA FitsShow ==
    ASSUME NEW s, NEW D, NEW c \in Calendars, Fits(s, c, D),
           NEW id \in IDs, id \notin DOMAIN c.aliases, NEW ev \in Events
    PROVE  Keeps(s, c, ShowEvent(c, id, ev), D, {id})
<1> DEFINE b == c.batch
           d == ShowEvent(c, id, ev)
           E == With(c.events, id, ev)
           U == With(b.upserts, id, ev)
<1>1. /\ c.events \in Partial(Events) /\ c.aliases \in Partial(Aliases)
      /\ b.upserts \in Partial(Events) /\ b.deletes \in SUBSET IDs
      /\ b.aliases \in Partial(Aliases) /\ b.aliasDeletes \in SUBSET IDs
      /\ id \in IDs /\ ev \in Events
  BY Typed
<1>2. /\ E \in Partial(Events)
      /\ DOMAIN E = DOMAIN c.events \cup {id}
      /\ \A x \in DOMAIN c.events \cup {id} : E[x] = IF x = id THEN ev ELSE c.events[x]
  <2>1. \A y \in Events :
          /\ With(c.events, id, y) \in Partial(Events)
          /\ DOMAIN With(c.events, id, y) = DOMAIN c.events \cup {id}
          /\ \A x \in DOMAIN c.events \cup {id} :
               With(c.events, id, y)[x] = IF x = id THEN y ELSE c.events[x]
    BY <1>1, EventMaps
  <2>2. QED
    BY <2>1
<1>3. /\ U \in Partial(Events)
      /\ DOMAIN U = DOMAIN b.upserts \cup {id}
      /\ \A x \in DOMAIN b.upserts \cup {id} : U[x] = IF x = id THEN ev ELSE b.upserts[x]
  <2>1. \A y \in Events :
          /\ With(b.upserts, id, y) \in Partial(Events)
          /\ DOMAIN With(b.upserts, id, y) = DOMAIN b.upserts \cup {id}
          /\ \A x \in DOMAIN b.upserts \cup {id} :
               With(b.upserts, id, y)[x] = IF x = id THEN y ELSE b.upserts[x]
    BY <1>1, EventMaps
  <2>2. QED
    BY <2>1
<1>4. d = Calendar(E, c.aliases, Batch(U, b.deletes \ {id}, b.aliases, b.aliasDeletes))
  BY DEF ShowEvent, RecordUpsert
<1> HIDE DEF E, U
<1>5. /\ d.events = E /\ d.aliases = c.aliases
      /\ d.batch.upserts = U /\ d.batch.deletes = b.deletes \ {id}
      /\ d.batch.aliases = b.aliases /\ d.batch.aliasDeletes = b.aliasDeletes
  BY <1>4 DEF Calendar, Batch
<1>6. d \in Calendars
  BY <1>1, <1>2, <1>3, <1>4 DEF Calendar, Batch, Calendars, Batches
<1> HIDE DEF d
<1>7. EventsFit(s, d)
  BY <1>2, <1>3, <1>5 DEF Fits, EventsFit
<1>8. AliasesFit(s, d)
  BY <1>3, <1>5 DEF Fits, AliasesFit
<1>9. LeftoversDead(s, d, D)
  BY <1>5 DEF Fits, LeftoversDead
<1>10. Keeps(s, c, d, D, {id})
  BY <1>2, <1>5, <1>6, <1>7, <1>8, <1>9 DEF Keeps, Fits, Names
<1>11. QED
  BY <1>10 DEF d

LEMMA FitsHide ==
    ASSUME NEW s, NEW D, NEW c \in Calendars, Fits(s, c, D), NEW id \in IDs
    PROVE  Keeps(s, c, HideEvent(c, id), D, {})
<1> DEFINE b == c.batch
           d == HideEvent(c, id)
           E == Forget(c.events, {id})
           U == Forget(b.upserts, {id})
<1>1. /\ c.events \in Partial(Events) /\ c.aliases \in Partial(Aliases)
      /\ b.upserts \in Partial(Events) /\ b.deletes \in SUBSET IDs
      /\ b.aliases \in Partial(Aliases) /\ b.aliasDeletes \in SUBSET IDs
  BY Typed
<1>2. /\ E \in Partial(Events)
      /\ DOMAIN E = DOMAIN c.events \ {id}
      /\ \A x \in DOMAIN c.events \ {id} : E[x] = c.events[x]
  BY <1>1, EventForget
<1>3. /\ U \in Partial(Events)
      /\ DOMAIN U = DOMAIN b.upserts \ {id}
      /\ \A x \in DOMAIN b.upserts \ {id} : U[x] = b.upserts[x]
  BY <1>1, EventForget
<1>4. d = Calendar(E, c.aliases, Batch(U, b.deletes \cup {id}, b.aliases, b.aliasDeletes))
  BY DEF HideEvent, RecordDelete
<1> HIDE DEF E, U
<1>5. /\ d.events = E /\ d.aliases = c.aliases
      /\ d.batch.upserts = U /\ d.batch.deletes = b.deletes \cup {id}
      /\ d.batch.aliases = b.aliases /\ d.batch.aliasDeletes = b.aliasDeletes
  BY <1>4 DEF Calendar, Batch
<1>6. d \in Calendars
  BY <1>1, <1>2, <1>3, <1>4 DEF Calendar, Batch, Calendars, Batches
<1> HIDE DEF d
<1>7. EventsFit(s, d)
  BY <1>2, <1>3, <1>5 DEF Fits, EventsFit
<1>8. AliasesFit(s, d)
  BY <1>3, <1>5 DEF Fits, AliasesFit
<1>9. LeftoversDead(s, d, D)
  BY <1>5 DEF Fits, LeftoversDead
<1>10. Keeps(s, c, d, D, {})
  BY <1>2, <1>5, <1>6, <1>7, <1>8, <1>9 DEF Keeps, Fits, Names
<1>11. QED
  BY <1>10 DEF d

(* Several aliases at once, as SetAlias and Promote record them.           *)
SetAliases(c, new) ==
    Calendar(c.events, Over(new, c.aliases),
             Batch(c.batch.upserts, c.batch.deletes, Over(new, c.batch.aliases),
                   c.batch.aliasDeletes \ DOMAIN new))

LEMMA FitsSetAliases ==
    ASSUME NEW s, NEW D, NEW c \in Calendars, Fits(s, c, D), NEW new \in Partial(Aliases)
    PROVE  Keeps(s, c, SetAliases(c, new), D, DOMAIN new)
<1> DEFINE b == c.batch
           d == SetAliases(c, new)
           A == Over(new, c.aliases)
           B == Over(new, b.aliases)
<1>1. /\ c.events \in Partial(Events) /\ c.aliases \in Partial(Aliases)
      /\ b.upserts \in Partial(Events) /\ b.deletes \in SUBSET IDs
      /\ b.aliases \in Partial(Aliases) /\ b.aliasDeletes \in SUBSET IDs
  BY Typed
<1>2. /\ A \in Partial(Aliases)
      /\ DOMAIN A = DOMAIN new \cup DOMAIN c.aliases
      /\ \A x \in DOMAIN new : A[x] = new[x]
      /\ \A x \in DOMAIN c.aliases : x \notin DOMAIN new => A[x] = c.aliases[x]
  BY <1>1, OverAliases
<1>3. /\ B \in Partial(Aliases)
      /\ DOMAIN B = DOMAIN new \cup DOMAIN b.aliases
      /\ \A x \in DOMAIN new : B[x] = new[x]
      /\ \A x \in DOMAIN b.aliases : x \notin DOMAIN new => B[x] = b.aliases[x]
  BY <1>1, OverAliases
<1>4. d = Calendar(c.events, A, Batch(b.upserts, b.deletes, B, b.aliasDeletes \ DOMAIN new))
  BY DEF SetAliases
<1> HIDE DEF A, B
<1>5. /\ d.events = c.events /\ d.aliases = A
      /\ d.batch.upserts = b.upserts /\ d.batch.deletes = b.deletes
      /\ d.batch.aliases = B /\ d.batch.aliasDeletes = b.aliasDeletes \ DOMAIN new
  BY <1>4 DEF Calendar, Batch
<1>6. d \in Calendars
  BY <1>1, <1>2, <1>3, <1>4 DEF Calendar, Batch, Calendars, Batches
<1> HIDE DEF d
<1>7. EventsFit(s, d)
  BY <1>5 DEF Fits, EventsFit
<1>8. AliasesFit(s, d)
  BY <1>2, <1>3, <1>5 DEF Fits, AliasesFit, SameAlias
<1>9. LeftoversDead(s, d, D)
  BY <1>2, <1>3, <1>5 DEF Fits, LeftoversDead
<1>10. Keeps(s, c, d, D, DOMAIN new)
  BY <1>2, <1>5, <1>6, <1>7, <1>8, <1>9 DEF Keeps, Fits, Names
<1>11. QED
  BY <1>10 DEF d

LEMMA FitsSetAlias ==
    ASSUME NEW s, NEW D, NEW c \in Calendars, Fits(s, c, D), NEW id \in IDs, NEW a \in Aliases
    PROVE  Keeps(s, c, SetAlias(c, id, a), D, {id})
<1> DEFINE new == [x \in {id} |-> a]
<1>1. new \in [{id} -> Aliases] /\ {id} \in SUBSET IDs /\ DOMAIN new = {id}
  OBVIOUS
<1>2. SetAlias(c, id, a) = SetAliases(c, new)
  BY DEF SetAlias, SetAliases, RecordAlias, With
<1> HIDE DEF new
<1>3. new \in Partial(Aliases)
  BY <1>1, PartialMaps
<1>4. QED
  BY <1>1, <1>2, <1>3, FitsSetAliases

LEMMA FitsDropAliases ==
    ASSUME NEW s, NEW D, NEW c \in Calendars, Fits(s, c, D), NEW S \in SUBSET IDs
    PROVE  Keeps(s, c, DropAliases(c, S), D, {})
<1> DEFINE b == c.batch
           d == DropAliases(c, S)
           A == Forget(c.aliases, S)
           B == Forget(b.aliases, S)
<1>1. /\ c.events \in Partial(Events) /\ c.aliases \in Partial(Aliases)
      /\ b.upserts \in Partial(Events) /\ b.deletes \in SUBSET IDs
      /\ b.aliases \in Partial(Aliases) /\ b.aliasDeletes \in SUBSET IDs
  BY Typed
<1>2. /\ A \in Partial(Aliases)
      /\ DOMAIN A = DOMAIN c.aliases \ S
      /\ \A x \in DOMAIN c.aliases \ S : A[x] = c.aliases[x]
  BY <1>1, AliasMaps
<1>3. /\ B \in Partial(Aliases)
      /\ DOMAIN B = DOMAIN b.aliases \ S
      /\ \A x \in DOMAIN b.aliases \ S : B[x] = b.aliases[x]
  BY <1>1, AliasMaps
<1>4. d = Calendar(c.events, A, Batch(b.upserts, b.deletes, B, b.aliasDeletes \cup S))
  BY DEF DropAliases
<1> HIDE DEF A, B
<1>5. /\ d.events = c.events /\ d.aliases = A
      /\ d.batch.upserts = b.upserts /\ d.batch.deletes = b.deletes
      /\ d.batch.aliases = B /\ d.batch.aliasDeletes = b.aliasDeletes \cup S
  BY <1>4 DEF Calendar, Batch
<1>6. d \in Calendars
  BY <1>1, <1>2, <1>3, <1>4 DEF Calendar, Batch, Calendars, Batches
<1> HIDE DEF d
<1>7. EventsFit(s, d)
  BY <1>5 DEF Fits, EventsFit
<1>8. AliasesFit(s, d)
  BY <1>2, <1>3, <1>5 DEF Fits, AliasesFit, SameAlias
<1>9. LeftoversDead(s, d, D)
  BY <1>2, <1>3, <1>5 DEF Fits, LeftoversDead
<1>10. Keeps(s, c, d, D, {})
  BY <1>2, <1>5, <1>6, <1>7, <1>8, <1>9 DEF Keeps, Fits, Names
<1>11. QED
  BY <1>10 DEF d

LEMMA FitsDropAlias ==
    ASSUME NEW s, NEW D, NEW c \in Calendars, Fits(s, c, D), NEW id \in IDs
    PROVE  Keeps(s, c, DropAlias(c, id), D, {})
<1>1. DropAlias(c, id) = DropAliases(c, {id})
  BY DEF DropAlias, DropAliases, RecordAliasDelete, Batch
<1>2. {id} \in SUBSET IDs
  OBVIOUS
<1>3. QED
  BY <1>1, <1>2, FitsDropAliases

(* Keeping after keeping.                                                  *)
LEMMA KeepsTwice ==
    ASSUME NEW s, NEW D, NEW c, NEW N, NEW d, Keeps(s, c, d, D, N),
           NEW M, NEW e, Keeps(s, d, e, D, M), M \subseteq N
    PROVE  Keeps(s, c, e, D, N)
  BY DEF Keeps

LEMMA FitsAdd ==
    ASSUME NEW s, NEW D, NEW c, Good(c), Fits(s, c, D),
           NEW id \in IDs, NEW ev \in Events, NEW replay \in BOOLEAN
    PROVE  Keeps(s, c, AddEvent(c, id, ev, replay), D, {id})
<1> DEFINE a == c.aliases[id]
           d == WithoutAlias(c, id)
           same == IF ev.uid = NoUID THEN {} ELSE Twins(d.events, ev)
           like == IF same = {} /\ replay THEN Lookalikes(d.events, ev) ELSE same
           e == AddEvent(c, id, ev, replay)
<1>0. ev.uid \in UIDs \cup {NoUID} /\ c \in Calendars
  BY DEF Events, Good
<1>1. Keeps(s, c, c, D, {id})
  BY <1>0 DEF Keeps
<1>2. CASE id \in DOMAIN c.events
  <2>1. id \notin DOMAIN c.aliases
    BY <1>2, AliasParts
  <2>2. Keeps(s, c, ShowEvent(c, id, ev), D, {id})
    BY <1>0, <2>1, FitsShow
  <2>3. e = IF c.events[id] = ev THEN c ELSE ShowEvent(c, id, ev)
    BY <1>2, <2>1 DEF AddEvent, Covered
  <2>4. QED
    BY <1>1, <2>2, <2>3
<1>3. CASE id \notin DOMAIN c.events /\ Covered(c, id, ev)
  <2>1. id \in DOMAIN c.aliases
    BY <1>3 DEF Covered
  <2>2. a.target \in IDs /\ (a.replay \/ replay) \in BOOLEAN
    BY <2>1, AliasParts
  <2>3. AliasTo(a.target, ev.uid, a.replay \/ replay) \in Aliases
    BY <1>0, <2>1, <2>2, AliasParts, AliasType
  <2>4. Keeps(s, c, SetAlias(c, id, AliasTo(a.target, ev.uid, a.replay \/ replay)), D, {id})
    BY <1>0, <2>3, FitsSetAlias
  <2>5. e = IF a.uid # ev.uid \/ (replay /\ ~a.replay)
            THEN SetAlias(c, id, AliasTo(a.target, ev.uid, a.replay \/ replay)) ELSE c
    BY <1>3 DEF AddEvent
  <2>6. QED
    BY <1>1, <2>4, <2>5
<1>4. CASE id \notin DOMAIN c.events /\ ~Covered(c, id, ev)
  <2>1. Good(d) /\ id \notin DOMAIN d.aliases
    BY WithoutAliasGood
  <2>2. Keeps(s, c, d, D, {id})
    <3>1. Keeps(s, c, DropAlias(c, id), D, {})
      BY <1>0, FitsDropAlias
    <3>2. QED
      BY <1>1, <3>1 DEF WithoutAlias, Keeps
  <2>3. like \subseteq DOMAIN d.events
    BY DEF Twins, Lookalikes
  <2>4. e = IF like = {} THEN ShowEvent(d, id, ev)
            ELSE SetAlias(d, id, AliasTo(Min(like), ev.uid, replay))
    BY <1>4 DEF AddEvent
  <2> HIDE DEF d, like, e
  <2>5. d \in Calendars /\ Fits(s, d, D)
    BY <2>2 DEF Keeps
  <2>6. CASE like = {}
    <3>1. Keeps(s, d, ShowEvent(d, id, ev), D, {id})
      BY <2>1, <2>5, FitsShow
    <3>2. QED
      BY <2>2, <2>4, <2>6, <3>1, KeepsTwice DEF e
  <2>7. CASE like # {}
    <3>1. d.events \in Partial(Events)
      BY <2>5, Typed
    <3>2. like \in SUBSET IDs
      BY <2>3, <3>1, PartialMaps
    <3>3. Min(like) \in IDs
      BY <2>7, <3>2, LeastID
    <3>4. AliasTo(Min(like), ev.uid, replay) \in Aliases
      BY <1>0, <3>3, AliasType
    <3>5. Keeps(s, d, SetAlias(d, id, AliasTo(Min(like), ev.uid, replay)), D, {id})
      BY <2>5, <3>4, FitsSetAlias
    <3>6. QED
      BY <2>2, <2>4, <2>7, <3>5, KeepsTwice DEF e
  <2>8. QED
    BY <2>6, <2>7
<1>5. QED
  BY <1>2, <1>3, <1>4

LEMMA FitsChange ==
    ASSUME NEW s, NEW D, NEW c, Good(c), Fits(s, c, D), NEW id \in IDs, NEW ev \in Events
    PROVE  Keeps(s, c, ChangeEvent(c, id, ev), D, {id})
<1> DEFINE a == c.aliases[id]
           d == WithoutAlias(c, id)
<1>0. ev.uid \in UIDs \cup {NoUID} /\ c \in Calendars
  BY DEF Events, Good
<1>1. Keeps(s, c, c, D, {id})
  BY <1>0 DEF Keeps
<1>2. CASE Covered(c, id, ev)
  <2>1. id \in DOMAIN c.aliases
    BY <1>2 DEF Covered
  <2>2. AliasTo(a.target, ev.uid, a.replay) \in Aliases
    BY <1>0, <2>1, AliasParts, AliasType
  <2>3. Keeps(s, c, SetAlias(c, id, AliasTo(a.target, ev.uid, a.replay)), D, {id})
    BY <1>0, <2>2, FitsSetAlias
  <2>4. QED
    BY <1>1, <1>2, <2>3 DEF ChangeEvent
<1>3. CASE ~Covered(c, id, ev)
  <2>1. id \notin DOMAIN d.aliases
    BY WithoutAliasGood
  <2>2. Keeps(s, c, d, D, {id})
    <3>1. Keeps(s, c, DropAlias(c, id), D, {})
      BY <1>0, FitsDropAlias
    <3>2. QED
      BY <1>1, <3>1 DEF WithoutAlias, Keeps
  <2>3. ChangeEvent(c, id, ev) = IF id \in DOMAIN c.events /\ c.events[id] = ev THEN c
                                 ELSE ShowEvent(d, id, ev)
    BY <1>3 DEF ChangeEvent
  <2> HIDE DEF d
  <2>4. Keeps(s, d, ShowEvent(d, id, ev), D, {id})
    BY <2>1, <2>2, FitsShow DEF Keeps
  <2>5. Keeps(s, c, ShowEvent(d, id, ev), D, {id})
    BY <2>2, <2>4, KeepsTwice
  <2>6. QED
    BY <1>1, <2>3, <2>5
<1>4. QED
  BY <1>2, <1>3

LEMMA FitsPromote ==
    ASSUME NEW s, NEW D, NEW c, Good(c), Fits(s, c, D),
           NEW id \in DOMAIN c.events, Members(c.aliases, id) # {}
    PROVE  Keeps(s, c, Promote(c, id, Members(c.aliases, id)), D, {})
<1> DEFINE members == Members(c.aliases, id)
           heir == Min(members)
           ev == [uid |-> c.aliases[heir].uid, body |-> c.events[id].body]
           c1 == DropAlias(c, heir)
           c2 == HideEvent(c1, id)
           c3 == ShowEvent(c2, heir, ev)
           new == [x \in members \ {heir} |->
                     AliasTo(heir, c.aliases[x].uid, c.aliases[x].replay)]
<1>1. c \in Calendars /\ c.events \in Partial(Events)
  BY CalendarParts DEF Good
<1>2. id \in IDs /\ c.events[id].body \in Bodies
  BY <1>1, EventParts
<1>3. members \subseteq DOMAIN c.aliases
  BY DEF Members
<1>4. \A x \in members : /\ x \in IDs
                         /\ c.aliases[x].uid \in UIDs \cup {NoUID}
                         /\ c.aliases[x].replay \in BOOLEAN
  BY <1>3, AliasParts
<1>5. heir \in members
  BY <1>4, LeastID
<1>6. heir \in IDs /\ heir \in DOMAIN c.aliases /\ ev \in Events
  BY <1>2, <1>3, <1>4, <1>5 DEF Events
<1>7. new \in Partial(Aliases) /\ DOMAIN new = members \ {heir}
  <2>1. \A x \in members \ {heir} : AliasTo(heir, c.aliases[x].uid, c.aliases[x].replay) \in Aliases
    BY <1>4, <1>6, AliasType
  <2>2. new \in [members \ {heir} -> Aliases] /\ DOMAIN new = members \ {heir}
    BY <2>1
  <2>3. members \ {heir} \in SUBSET IDs
    BY <1>4
  <2> HIDE DEF new
  <2>4. QED
    BY <2>2, <2>3, PartialMaps
<1>8. Promote(c, id, members) = SetAliases(c3, new)
  BY DEF Promote, Handed, SetAliases
<1> HIDE DEF members, heir, ev, new
<1>9. heir \notin DOMAIN c1.aliases
  BY <1>6, DropAliasGood
<1>10. Keeps(s, c, c1, D, {})
  BY <1>1, <1>6, FitsDropAlias
<1> HIDE DEF c1
<1>11. c1 \in Calendars /\ Fits(s, c1, D)
  BY <1>10 DEF Keeps
<1>12. Keeps(s, c1, c2, D, {}) /\ c2.aliases = c1.aliases
  BY <1>2, <1>11, FitsHide DEF HideEvent, Calendar
<1> HIDE DEF c2
<1>13. c2 \in Calendars /\ Fits(s, c2, D) /\ heir \notin DOMAIN c2.aliases
  BY <1>9, <1>12 DEF Keeps
<1>14. Keeps(s, c2, c3, D, {heir})
  BY <1>6, <1>13, FitsShow
<1> HIDE DEF c3
<1>15. Keeps(s, c3, SetAliases(c3, new), D, members \ {heir})
  BY <1>7, <1>14, FitsSetAliases DEF Keeps
<1>16. Keeps(s, c, SetAliases(c3, new), D, {})
  BY <1>3, <1>6, <1>10, <1>12, <1>14, <1>15 DEF Keeps, Names
<1>17. QED
  BY <1>8, <1>16 DEF members

LEMMA FitsDelete ==
    ASSUME NEW s, NEW D, NEW c, Good(c), Fits(s, c, D), NEW id \in IDs
    PROVE  Keeps(s, c, DeleteEvent(c, id), D, {})
<1>0. c \in Calendars
  BY DEF Good
<1>1. Keeps(s, c, c, D, {})
  BY <1>0 DEF Keeps
<1>2. Keeps(s, c, DropAlias(c, id), D, {}) /\ Keeps(s, c, HideEvent(c, id), D, {})
  BY <1>0, FitsDropAlias, FitsHide
<1>3. CASE id \in DOMAIN c.aliases
  BY <1>2, <1>3 DEF DeleteEvent
<1>4. CASE id \notin DOMAIN c.aliases /\ id \notin DOMAIN c.events
  BY <1>1, <1>4 DEF DeleteEvent
<1>5. CASE id \notin DOMAIN c.aliases /\ id \in DOMAIN c.events
  <2>1. DeleteEvent(c, id) = IF Members(c.aliases, id) = {} THEN HideEvent(c, id)
                             ELSE Promote(c, id, Members(c.aliases, id))
    BY <1>5 DEF DeleteEvent
  <2>2. QED
    BY <1>2, <1>5, <2>1, FitsPromote
<1>6. QED
  BY <1>3, <1>4, <1>5

LEMMA FitsPruned ==
    ASSUME NEW s, NEW D, NEW c, Good(c), Fits(s, c, D), NEW added
    PROVE  Keeps(s, c, Pruned(c, added), D, {})
<1>1. PICK S : S \subseteq DOMAIN c.aliases /\ Pruned(c, added) = DropAliases(c, S)
  BY DEF Pruned, Members
<1>2. c.aliases \in Partial(Aliases) /\ c \in Calendars
  BY CalendarParts DEF Good
<1>3. S \in SUBSET IDs
  BY <1>1, <1>2, PartialMaps
<1>4. QED
  BY <1>1, <1>2, <1>3, FitsDropAliases

-----------------------------------------------------------------------------
(* Folding, saving, CalDAV's writes and a restart.                         *)

(* What folding makes of the events and the aliases.                       *)
LEMMA DedupedIs ==
    ASSUME NEW c, NEW d, d = Deduped(c), NEW folded, folded = Folded(c.events)
    PROVE  /\ folded \subseteq DOMAIN c.events
           /\ DOMAIN d.events = DOMAIN c.events \ folded
           /\ \A x \in DOMAIN d.events : d.events[x] = c.events[x]
           /\ DOMAIN d.aliases = folded \cup DOMAIN c.aliases
           /\ \A x \in DOMAIN c.aliases \ folded : d.aliases[x] = c.aliases[x]
           /\ d.batch.upserts = None /\ d.batch.deletes = folded
           /\ d.batch.aliasDeletes = {} /\ DOMAIN d.batch.aliases = folded
           /\ \A x \in folded : d.aliases[x] = d.batch.aliases[x]
<1> DEFINE new == [id \in folded |->
                     AliasTo(Min(Twins(c.events, c.events[id])), c.events[id].uid, FALSE)]
<1>1. DOMAIN new = folded
  OBVIOUS
<1>2. d = Calendar(Forget(c.events, folded), Over(new, c.aliases), Batch(None, folded, new, {}))
  BY DEF Deduped
<1> HIDE DEF new
<1>3. /\ d.events = Forget(c.events, folded) /\ d.aliases = Over(new, c.aliases)
      /\ d.batch.upserts = None /\ d.batch.deletes = folded
      /\ d.batch.aliases = new /\ d.batch.aliasDeletes = {}
  BY <1>2 DEF Calendar, Batch
<1>4. folded \subseteq DOMAIN c.events
  BY DEF Folded
<1>5. /\ DOMAIN d.events = DOMAIN c.events \ folded
      /\ \A x \in DOMAIN d.events : d.events[x] = c.events[x]
  BY <1>3 DEF Forget, Restrict
<1>6. /\ DOMAIN d.aliases = folded \cup DOMAIN c.aliases
      /\ \A x \in folded : d.aliases[x] = new[x]
      /\ \A x \in DOMAIN c.aliases \ folded : d.aliases[x] = c.aliases[x]
  BY <1>1, <1>3 DEF Over
<1>7. QED
  BY <1>1, <1>3, <1>4, <1>5, <1>6

(* What a batch makes of the files.                                        *)
LEMMA ReplayedIs ==
    ASSUME NEW s, NEW b, NEW r, r = Replayed(s, b)
    PROVE  /\ DOMAIN r.events = (DOMAIN b.upserts \cup (DOMAIN s.events \ b.deletes))
                                  \ DOMAIN b.aliases
           /\ \A x \in DOMAIN r.events :
                r.events[x] = IF x \in DOMAIN b.upserts THEN b.upserts[x] ELSE s.events[x]
           /\ DOMAIN r.aliases = DOMAIN b.aliases
                                   \cup (DOMAIN s.aliases \ (b.aliasDeletes \cup DOMAIN b.upserts))
           /\ \A x \in DOMAIN r.aliases :
                r.aliases[x] = IF x \in DOMAIN b.aliases THEN b.aliases[x] ELSE s.aliases[x]
<1> DEFINE X == b.aliasDeletes \cup DOMAIN b.upserts
<1>1. /\ r.events = Forget(Over(b.upserts, Forget(s.events, b.deletes)), DOMAIN b.aliases)
      /\ r.aliases = Over(b.aliases, Forget(s.aliases, X))
  BY DEF Replayed
<1>2. /\ DOMAIN Forget(s.events, b.deletes) = DOMAIN s.events \ b.deletes
      /\ \A x \in DOMAIN s.events \ b.deletes : Forget(s.events, b.deletes)[x] = s.events[x]
  BY DEF Forget, Restrict
<1> DEFINE E == Over(b.upserts, Forget(s.events, b.deletes))
<1>3. /\ DOMAIN E = DOMAIN b.upserts \cup (DOMAIN s.events \ b.deletes)
      /\ \A x \in DOMAIN E : E[x] = IF x \in DOMAIN b.upserts THEN b.upserts[x] ELSE s.events[x]
  BY <1>2 DEF Over
<1> HIDE DEF E
<1>4. /\ DOMAIN r.events = DOMAIN E \ DOMAIN b.aliases
      /\ \A x \in DOMAIN r.events : r.events[x] = E[x]
  BY <1>1 DEF E, Forget, Restrict
<1>5. /\ DOMAIN Forget(s.aliases, X) = DOMAIN s.aliases \ X
      /\ \A x \in DOMAIN s.aliases \ X : Forget(s.aliases, X)[x] = s.aliases[x]
  BY DEF Forget, Restrict
<1>6. /\ DOMAIN r.aliases = DOMAIN b.aliases \cup (DOMAIN s.aliases \ X)
      /\ \A x \in DOMAIN r.aliases :
           r.aliases[x] = IF x \in DOMAIN b.aliases THEN b.aliases[x] ELSE s.aliases[x]
  BY <1>1, <1>5 DEF Over
<1>7. QED
  BY <1>3, <1>4, <1>6

(* In the files no alias is an event, and each leads to an event or to a   *)
(* ServerID in D.                                                          *)
FilesReach(s, D) ==
    \A a \in DOMAIN s.aliases :
        a \notin DOMAIN s.events /\ s.aliases[a].target \in DOMAIN s.events \cup D

LEMMA FitsMore ==
    ASSUME NEW s, NEW c, NEW D, NEW D2, D \subseteq D2, Fits(s, c, D), FilesReach(s, D)
    PROVE  Fits(s, c, D2) /\ FilesReach(s, D2)
  BY DEF Fits, LeftoversDead, FilesReach

LEMMA NoneEmpty == DOMAIN None = {}
  BY DEF None

LEMMA EmptyParts ==
    /\ DOMAIN EmptyBatch.upserts = {} /\ EmptyBatch.deletes = {}
    /\ DOMAIN EmptyBatch.aliases = {} /\ EmptyBatch.aliasDeletes = {}
  BY NoneEmpty DEF EmptyBatch, Batch

LEMMA WithBatchParts ==
    ASSUME NEW c, NEW b
    PROVE  /\ WithBatch(c, b).events = c.events /\ WithBatch(c, b).aliases = c.aliases
           /\ WithBatch(c, b).batch = b
  BY DEF WithBatch, Calendar

(* Folding begins with an empty batch and records all it does.             *)
LEMMA FitsDeduped ==
    ASSUME NEW s, NEW D, NEW c, c.batch = EmptyBatch, Fits(s, c, D),
           NEW d, d = Deduped(c)
    PROVE  Fits(s, d, D) /\ Names(d) \subseteq Names(c)
<1> DEFINE folded == Folded(c.events)
<1>1. /\ folded \subseteq DOMAIN c.events
      /\ DOMAIN d.events = DOMAIN c.events \ folded
      /\ \A x \in DOMAIN d.events : d.events[x] = c.events[x]
      /\ DOMAIN d.aliases = folded \cup DOMAIN c.aliases
      /\ \A x \in DOMAIN c.aliases \ folded : d.aliases[x] = c.aliases[x]
      /\ d.batch.upserts = None /\ d.batch.deletes = folded
      /\ d.batch.aliasDeletes = {} /\ DOMAIN d.batch.aliases = folded
      /\ \A x \in folded : d.aliases[x] = d.batch.aliases[x]
  BY DedupedIs
<1>2. /\ DOMAIN c.batch.upserts = {} /\ c.batch.deletes = {}
      /\ DOMAIN c.batch.aliases = {} /\ c.batch.aliasDeletes = {}
  BY EmptyParts
<1> HIDE DEF folded
<1>3. EventsFit(s, d)
  BY <1>1, <1>2, NoneEmpty DEF Fits, EventsFit
<1>4. AliasesFit(s, d)
  BY <1>1, <1>2, NoneEmpty DEF Fits, AliasesFit, SameAlias
<1>5. LeftoversDead(s, d, D)
  BY <1>1, <1>2 DEF Fits, LeftoversDead
<1>6. QED
  BY <1>1, <1>3, <1>4, <1>5 DEF Fits, Names

(* The batch once appended.                                                *)
LEMMA SavedFits ==
    ASSUME NEW s, NEW D, NEW c, Good(c), Fits(s, c, D), FilesReach(s, D),
           NEW r, r = Replayed(s, c.batch), NEW e, e = WithBatch(c, EmptyBatch)
    PROVE  /\ Fits(r, e, D) /\ FilesReach(r, D)
           /\ Names(r) \subseteq Names(s) \cup Names(c) /\ Names(e) = Names(c)
<1> DEFINE b == c.batch
<1>1. \A a \in DOMAIN c.aliases : a \notin DOMAIN c.events /\ c.aliases[a].target \in DOMAIN c.events
  BY AliasParts
<1>2. /\ DOMAIN r.events = (DOMAIN b.upserts \cup (DOMAIN s.events \ b.deletes)) \ DOMAIN b.aliases
      /\ \A x \in DOMAIN r.events :
           r.events[x] = IF x \in DOMAIN b.upserts THEN b.upserts[x] ELSE s.events[x]
      /\ DOMAIN r.aliases = DOMAIN b.aliases
                              \cup (DOMAIN s.aliases \ (b.aliasDeletes \cup DOMAIN b.upserts))
      /\ \A x \in DOMAIN r.aliases :
           r.aliases[x] = IF x \in DOMAIN b.aliases THEN b.aliases[x] ELSE s.aliases[x]
  BY ReplayedIs
<1>3. e.events = c.events /\ e.aliases = c.aliases /\ e.batch = EmptyBatch
  BY WithBatchParts
<1>4. /\ DOMAIN e.batch.upserts = {} /\ e.batch.deletes = {}
      /\ DOMAIN e.batch.aliases = {} /\ e.batch.aliasDeletes = {}
  BY <1>3, EmptyParts
<1> HIDE DEF b
<1>5. DOMAIN r.events = DOMAIN c.events
  BY <1>1, <1>2 DEF Fits, EventsFit, AliasesFit, b
<1>6. EventsFit(r, e)
  BY <1>2, <1>3, <1>4, <1>5 DEF Fits, EventsFit, b
<1>7. AliasesFit(r, e)
  BY <1>2, <1>3, <1>4 DEF Fits, AliasesFit, SameAlias, b
<1>8. LeftoversDead(r, e, D)
  <2> SUFFICES ASSUME NEW x \in DOMAIN r.aliases, x \notin DOMAIN c.aliases
               PROVE  r.aliases[x].target \in D
    BY <1>3 DEF LeftoversDead
  <2>1. x \notin DOMAIN b.aliases
    BY DEF Fits, AliasesFit, b
  <2>2. x \in DOMAIN s.aliases /\ x \notin b.aliasDeletes /\ r.aliases[x] = s.aliases[x]
    BY <1>2, <2>1
  <2>3. QED
    BY <2>1, <2>2 DEF Fits, LeftoversDead, b
<1>9. FilesReach(r, D)
  <2> SUFFICES ASSUME NEW x \in DOMAIN r.aliases
               PROVE  x \notin DOMAIN r.events /\ r.aliases[x].target \in DOMAIN r.events \cup D
    BY DEF FilesReach
  <2>1. CASE x \in DOMAIN c.aliases
    <3>1. SameAlias(c.aliases[x], r.aliases[x])
      BY <1>3, <1>4, <1>7, <2>1 DEF AliasesFit
    <3>2. QED
      BY <1>1, <1>5, <2>1, <3>1 DEF SameAlias
  <2>2. CASE x \notin DOMAIN c.aliases
    <3>1. r.aliases[x].target \in D
      BY <1>3, <1>4, <1>8, <2>2 DEF LeftoversDead
    <3>2. x \notin DOMAIN b.aliases
      BY <2>2 DEF Fits, AliasesFit, b
    <3>3. x \in DOMAIN s.aliases /\ x \notin DOMAIN b.upserts
      BY <1>2, <3>2
    <3>4. x \notin DOMAIN s.events
      BY <3>3 DEF FilesReach
    <3>5. QED
      BY <1>2, <3>1, <3>3, <3>4
  <2>3. QED
    BY <2>1, <2>2
<1>10. Names(r) \subseteq Names(s) \cup Names(c) /\ Names(e) = Names(c)
  BY <1>2, <1>3, <1>5 DEF Names, Fits, AliasesFit, b
<1>11. QED
  BY <1>4, <1>6, <1>7, <1>8, <1>9, <1>10 DEF Fits

(* A batch of CalDAV's, which names nothing the pending one names, changes *)
(* memory and files alike.                                                 *)
LEMMA WriteFits ==
    ASSUME NEW s, NEW D, NEW c, Fits(s, c, D), FilesReach(s, D),
           NEW b, DOMAIN b.aliases = {}, Named(b) \cap Named(c.batch) = {},
           NEW r, r = Replayed(s, b), NEW m, m = Replayed(c, b),
           NEW e, e = WithBatch(m, c.batch)
    PROVE  /\ Fits(r, e, D)
           /\ FilesReach(r, D \cup (b.deletes \cap DOMAIN s.events))
           /\ DOMAIN r.events = DOMAIN b.upserts \cup (DOMAIN s.events \ b.deletes)
           /\ DOMAIN r.aliases = DOMAIN s.aliases \ (b.aliasDeletes \cup DOMAIN b.upserts)
           /\ DOMAIN e.events = DOMAIN b.upserts \cup (DOMAIN c.events \ b.deletes)
           /\ DOMAIN e.aliases = DOMAIN c.aliases \ (b.aliasDeletes \cup DOMAIN b.upserts)
<1>1. /\ DOMAIN r.events = (DOMAIN b.upserts \cup (DOMAIN s.events \ b.deletes)) \ DOMAIN b.aliases
      /\ \A x \in DOMAIN r.events :
           r.events[x] = IF x \in DOMAIN b.upserts THEN b.upserts[x] ELSE s.events[x]
      /\ DOMAIN r.aliases = DOMAIN b.aliases
                              \cup (DOMAIN s.aliases \ (b.aliasDeletes \cup DOMAIN b.upserts))
      /\ \A x \in DOMAIN r.aliases :
           r.aliases[x] = IF x \in DOMAIN b.aliases THEN b.aliases[x] ELSE s.aliases[x]
  BY ReplayedIs
<1>2. /\ DOMAIN m.events = (DOMAIN b.upserts \cup (DOMAIN c.events \ b.deletes)) \ DOMAIN b.aliases
      /\ \A x \in DOMAIN m.events :
           m.events[x] = IF x \in DOMAIN b.upserts THEN b.upserts[x] ELSE c.events[x]
      /\ DOMAIN m.aliases = DOMAIN b.aliases
                              \cup (DOMAIN c.aliases \ (b.aliasDeletes \cup DOMAIN b.upserts))
      /\ \A x \in DOMAIN m.aliases :
           m.aliases[x] = IF x \in DOMAIN b.aliases THEN b.aliases[x] ELSE c.aliases[x]
  BY ReplayedIs
<1>3. e.events = m.events /\ e.aliases = m.aliases /\ e.batch = c.batch
  BY WithBatchParts
<1>4. \A x \in Named(b) : /\ x \notin DOMAIN c.batch.upserts /\ x \notin c.batch.deletes
                          /\ x \notin DOMAIN c.batch.aliases /\ x \notin c.batch.aliasDeletes
  BY DEF Named
<1>5. DOMAIN b.upserts \cup b.deletes \cup b.aliasDeletes \subseteq Named(b)
  BY DEF Named
<1>6. EventsFit(r, e)
  BY <1>1, <1>2, <1>3, <1>4, <1>5 DEF Fits, EventsFit
<1>7. AliasesFit(r, e)
  BY <1>1, <1>2, <1>3, <1>4, <1>5 DEF Fits, AliasesFit, SameAlias
<1>8. LeftoversDead(r, e, D)
  BY <1>1, <1>2, <1>3, <1>4, <1>5 DEF Fits, LeftoversDead
<1>9. FilesReach(r, D \cup (b.deletes \cap DOMAIN s.events))
  BY <1>1 DEF FilesReach
<1>10. QED
  BY <1>1, <1>2, <1>3, <1>6, <1>7, <1>8, <1>9 DEF Fits

(* What loading keeps of the files.                                        *)
LEMMA NormalizedIs ==
    ASSUME NEW s, NEW n, n = Normalized(s)
    PROVE  /\ n.events = s.events
           /\ DOMAIN n.aliases = {a \in DOMAIN s.aliases :
                                    /\ a \notin DOMAIN s.events
                                    /\ s.aliases[a].target # a
                                    /\ s.aliases[a].target \in DOMAIN s.events}
           /\ \A a \in DOMAIN n.aliases : SameAlias(n.aliases[a], s.aliases[a])
<1> DEFINE good == {a \in DOMAIN s.aliases :
                     /\ a \notin DOMAIN s.events
                     /\ s.aliases[a].target # a
                     /\ s.aliases[a].target \in DOMAIN s.events}
           Flag(a) == s.aliases[a].replay
                       \/ s.aliases[a].uid \notin {NoUID, s.events[s.aliases[a].target].uid}
           kept == [a \in good |-> AliasTo(s.aliases[a].target, s.aliases[a].uid, Flag(a))]
<1>1. n.events = s.events /\ n.aliases = kept
  BY DEF Normalized
<1>2. DOMAIN kept = good
  OBVIOUS
<1>3. \A a \in good : SameAlias(kept[a], s.aliases[a])
  BY DEF SameAlias, AliasTo
<1> HIDE DEF kept
<1>4. QED
  BY <1>1, <1>2, <1>3

(* Folding where there is nothing to fold.                                 *)
LEMMA FoldsNothing ==
    ASSUME NEW n, NEW d, d = Deduped(n)
    PROVE  Folded(n.events) = {} =>
             /\ DOMAIN d.events = DOMAIN n.events
             /\ \A x \in DOMAIN d.events : d.events[x] = n.events[x]
             /\ DOMAIN d.aliases = DOMAIN n.aliases
             /\ \A x \in DOMAIN n.aliases : d.aliases[x] = n.aliases[x]
<1> DEFINE F == Folded(n.events)
<1>1. /\ F \subseteq DOMAIN n.events
      /\ DOMAIN d.events = DOMAIN n.events \ F
      /\ \A x \in DOMAIN d.events : d.events[x] = n.events[x]
      /\ DOMAIN d.aliases = F \cup DOMAIN n.aliases
      /\ \A x \in DOMAIN n.aliases \ F : d.aliases[x] = n.aliases[x]
      /\ d.batch.upserts = None /\ d.batch.deletes = F
      /\ d.batch.aliasDeletes = {} /\ DOMAIN d.batch.aliases = F
      /\ \A x \in F : d.aliases[x] = d.batch.aliases[x]
  BY DedupedIs
<1>2. QED
  BY <1>1

(* A restart that folds nothing finds the memory the files give.           *)
LEMMA LoadedFits ==
    ASSUME NEW s, NEW D, FilesReach(s, D), D \cap Names(s) = {},
           NEW n, n = Normalized(s), Folded(n.events) = {},
           NEW d, d = Deduped(n), NEW e, e = WithBatch(d, EmptyBatch)
    PROVE  Fits(s, e, D)
<1>1. /\ n.events = s.events
      /\ DOMAIN n.aliases = {a \in DOMAIN s.aliases :
                               /\ a \notin DOMAIN s.events
                               /\ s.aliases[a].target # a
                               /\ s.aliases[a].target \in DOMAIN s.events}
      /\ \A a \in DOMAIN n.aliases : SameAlias(n.aliases[a], s.aliases[a])
  BY NormalizedIs
<1>2. /\ DOMAIN d.events = DOMAIN n.events
      /\ \A x \in DOMAIN d.events : d.events[x] = n.events[x]
      /\ DOMAIN d.aliases = DOMAIN n.aliases
      /\ \A x \in DOMAIN n.aliases : d.aliases[x] = n.aliases[x]
  BY FoldsNothing
<1>3. e.events = d.events /\ e.aliases = d.aliases /\ e.batch = EmptyBatch
  BY WithBatchParts
<1>4. /\ DOMAIN e.batch.upserts = {} /\ e.batch.deletes = {}
      /\ DOMAIN e.batch.aliases = {} /\ e.batch.aliasDeletes = {}
  BY <1>3, EmptyParts
<1>5. EventsFit(s, e)
  BY <1>1, <1>2, <1>3, <1>4 DEF EventsFit
<1>6. AliasesFit(s, e)
  BY <1>1, <1>2, <1>3, <1>4 DEF AliasesFit, SameAlias
<1>7. LeftoversDead(s, e, D)
  <2> SUFFICES ASSUME NEW x \in DOMAIN s.aliases, x \notin DOMAIN n.aliases
               PROVE  s.aliases[x].target \in D
    BY <1>2, <1>3 DEF LeftoversDead
  <2>1. x \notin DOMAIN s.events /\ s.aliases[x].target \in DOMAIN s.events \cup D
    BY DEF FilesReach
  <2>2. CASE s.aliases[x].target = x
    BY <2>1, <2>2 DEF Names
  <2>3. CASE s.aliases[x].target # x
    BY <1>1, <2>1, <2>3
  <2>4. QED
    BY <2>2, <2>3
<1>8. QED
  BY <1>5, <1>6, <1>7 DEF Fits

(* Files that fit give a restart what is in memory.                        *)
LEMMA FitRestores ==
    ASSUME NEW s \in Files, NEW D, NEW c, Good(c), Fits(s, c, D), FilesReach(s, D),
           D \cap Names(c) = {}
    PROVE  Meaning(Normalized(Replayed(s, c.batch))) = Meaning(Normalized(c))
<1> DEFINE r == Replayed(s, c.batch)
           e == WithBatch(c, EmptyBatch)
           n == Normalized(r)
           m == Normalized(c)
<1>0. /\ s.events \in Partial(Events) /\ s.aliases \in Partial(Aliases)
      /\ c.events \in Partial(Events) /\ GoodBatch(c.batch)
  BY CalendarParts DEF Files
<1>1. r \in Files
  BY <1>0, ReplayedFiles
<1>2. r.events \in Partial(Events)
  BY <1>1 DEF Files
<1>3. Fits(r, e, D) /\ FilesReach(r, D)
  BY SavedFits
<1>4. e.events = c.events /\ e.aliases = c.aliases /\ e.batch = EmptyBatch
  BY WithBatchParts
<1>5. /\ DOMAIN e.batch.upserts = {} /\ e.batch.deletes = {}
      /\ DOMAIN e.batch.aliases = {} /\ e.batch.aliasDeletes = {}
  BY <1>4, EmptyParts
<1>6. \A a \in DOMAIN c.aliases : a \notin DOMAIN c.events /\ c.aliases[a].target \in DOMAIN c.events
  BY AliasParts
<1>7. /\ n.events = r.events
      /\ DOMAIN n.aliases = {a \in DOMAIN r.aliases :
                               /\ a \notin DOMAIN r.events
                               /\ r.aliases[a].target # a
                               /\ r.aliases[a].target \in DOMAIN r.events}
      /\ \A a \in DOMAIN n.aliases : SameAlias(n.aliases[a], r.aliases[a])
  <2> HIDE DEF r
  <2>1. QED
    BY NormalizedIs
<1>8. /\ m.events = c.events
      /\ DOMAIN m.aliases = {a \in DOMAIN c.aliases :
                               /\ a \notin DOMAIN c.events
                               /\ c.aliases[a].target # a
                               /\ c.aliases[a].target \in DOMAIN c.events}
      /\ \A a \in DOMAIN m.aliases : SameAlias(m.aliases[a], c.aliases[a])
  BY NormalizedIs
<1> HIDE DEF r, e, n, m
<1>9. /\ DOMAIN c.events = DOMAIN r.events
      /\ \A x \in DOMAIN c.events : c.events[x] = r.events[x]
  BY <1>3, <1>4, <1>5 DEF Fits, EventsFit
<1>10. r.events = c.events
  <2>1. /\ r.events \in [DOMAIN r.events -> Events]
        /\ c.events \in [DOMAIN c.events -> Events]
    BY <1>0, <1>2, PartialMaps
  <2>2. QED
    BY <1>9, <2>1
<1>11. \A a \in DOMAIN c.aliases : a \in DOMAIN r.aliases /\ SameAlias(c.aliases[a], r.aliases[a])
  BY <1>3, <1>4, <1>5 DEF Fits, AliasesFit
<1>12. \A a \in DOMAIN r.aliases \ DOMAIN c.aliases : r.aliases[a].target \notin DOMAIN c.events
  BY <1>3, <1>4, <1>5 DEF Fits, LeftoversDead, Names
<1>13. DOMAIN m.aliases = DOMAIN c.aliases
  BY <1>6, <1>8
<1>14. DOMAIN n.aliases = DOMAIN c.aliases
  BY <1>6, <1>7, <1>10, <1>11, <1>12 DEF SameAlias
<1>15. \A a \in DOMAIN c.aliases : SameAlias(n.aliases[a], m.aliases[a])
  BY <1>7, <1>8, <1>11, <1>13, <1>14 DEF SameAlias
<1>16. [a \in DOMAIN n.aliases |-> <<n.aliases[a].target, n.aliases[a].uid>>]
         = [a \in DOMAIN m.aliases |-> <<m.aliases[a].target, m.aliases[a].uid>>]
  BY <1>13, <1>14, <1>15 DEF SameAlias
<1>17. Meaning(n) = Meaning(m)
  BY <1>7, <1>8, <1>10, <1>16 DEF Meaning
<1>18. QED
  BY <1>17 DEF n, m, r

-----------------------------------------------------------------------------
(* The invariant behind BatchRestoresMemory.                               *)

(* ServerIDs gone for good: deleted, and named nowhere any more.           *)
Dead == retired \ (Names(saved) \cup Names(cal))

Restorable == ahead \/ (Fits(saved, cal, Dead) /\ FilesReach(saved, Dead))

(* What is left of a replayed page brings back no deleted ServerID.        *)
FreshTodo == \A i \in todo : i.id \notin retired

LEMMA DeadStaysDead ==
    ASSUME retired \subseteq retired', NEW N, N \cap retired = {},
           Names(saved') \cup Names(cal') \subseteq Names(saved) \cup Names(cal) \cup N
    PROVE  Dead \subseteq Dead'
  BY DEF Dead, Names

(* The end of a page.                                                      *)
LEMMA FinishRestores ==
    ASSUME Restorable, NEW c, Good(c), NEW N, N \cap retired = {},
           Fits(saved, cal, Dead) => Keeps(saved, cal, c, Dead, N),
           retired \subseteq retired', FinishPage(c)
    PROVE  Restorable'
<1> SUFFICES ASSUME ~ahead' PROVE Fits(saved', cal', Dead') /\ FilesReach(saved', Dead')
  BY DEF Restorable
<1>1. ~ahead
  BY DEF FinishPage, SaveBatch
<1>2. Keeps(saved, cal, c, Dead, N) /\ FilesReach(saved, Dead)
  BY <1>1 DEF Restorable
<1>3. CASE cal' = c /\ UNCHANGED <<saved, ahead>>
  <2>1. Dead \subseteq Dead'
    BY <1>2, <1>3, DeadStaysDead DEF Keeps, Names
  <2>2. Fits(saved', cal', Dead) /\ FilesReach(saved', Dead)
    BY <1>2, <1>3 DEF Keeps
  <2> HIDE DEF Dead
  <2>3. QED
    BY <2>1, <2>2, FitsMore
<1>4. CASE cal' = WithBatch(c, EmptyBatch) /\ SaveBatch(c.batch)
  <2>1. saved' = Replayed(saved, c.batch)
    BY <1>4 DEF SaveBatch
  <2>2. /\ Fits(saved', cal', Dead) /\ FilesReach(saved', Dead)
        /\ Names(saved') \subseteq Names(saved) \cup Names(c) /\ Names(cal') = Names(c)
    BY <1>2, <1>4, <2>1, SavedFits DEF Keeps
  <2>3. Dead \subseteq Dead'
    <3>1. Names(saved') \cup Names(cal') \subseteq Names(saved) \cup Names(cal) \cup N
      BY <1>2, <2>2 DEF Keeps
    <3>2. QED
      BY <3>1, DeadStaysDead
  <2>4. QED
    BY <2>2, <2>3, FitsMore
<1>5. QED
  BY <1>3, <1>4 DEF FinishPage

LEMMA FreshKept ==
    ASSUME Inv, FreshTodo, [Next]_vars PROVE FreshTodo'
<1>1. pass # "replay" => todo = {}
  BY DEF Inv, TypeOK
<1>2. StartPass \/ PageError => FreshTodo'
  BY DEF StartPass, PageError, FreshTodo
<1>3. Restart => FreshTodo'
  BY DEF Restart, FreshTodo
<1>4. ASSUME NEW i \in Items, PullAdded(i) \/ PullChanged(i) PROVE FreshTodo'
  BY <1>4 DEF PullAdded, PullChanged, FinishPage, FreshTodo
<1>5. ASSUME NEW i \in Items, ApplyReplayed(i) PROVE FreshTodo'
  <2>1. CASE todo = {i}
    BY <1>5, <2>1 DEF ApplyReplayed, FinishPage, FreshTodo
  <2>2. CASE todo # {i}
    BY <1>5, <2>2 DEF ApplyReplayed, FreshTodo
  <2>3. QED
    BY <2>1, <2>2
<1>6. ASSUME NEW id \in IDs, PullDeleted(id) \/ RemoveEvent(id) PROVE FreshTodo'
  BY <1>1, <1>6 DEF PullDeleted, RemoveEvent, Writable, FinishPage, FreshTodo
<1>7. ASSUME NEW added \in Additions, PullReplay(added) PROVE FreshTodo'
  BY <1>7 DEF PullReplay, FreshTodo
<1>8. ASSUME NEW id \in IDs, NEW ev \in Events, UpsertEvent(id, ev) PROVE FreshTodo'
  BY <1>8 DEF UpsertEvent, FreshTodo
<1>9. CASE UNCHANGED vars
  BY <1>9 DEF vars, FreshTodo
<1>10. QED
  BY <1>2, <1>3, <1>4, <1>5, <1>6, <1>7, <1>8, <1>9 DEF Next

(* Neither the batch of a page nor its empty successor changes what fits.  *)
LEMMA SameFits ==
    ASSUME NEW s, NEW c, NEW D, Fits(s, c, D), NEW e,
           e.events = c.events, e.aliases = c.aliases, e.batch = c.batch
    PROVE  Fits(s, e, D) /\ Names(e) = Names(c)
  BY DEF Fits, EventsFit, AliasesFit, LeftoversDead, Names

LEMMA RestartRestores ==
    ASSUME "refold" \notin Faults, Inv, Fits(saved, cal, Dead), FilesReach(saved, Dead), Restart
    PROVE  Fits(saved', cal', Dead') /\ FilesReach(saved', Dead')
<1> DEFINE n == Normalized(saved)
           d == Deduped(n)
<1>1. /\ cal' = WithBatch(d, EmptyBatch)
      /\ saved' = IF Folded(n.events) # {}
                  THEN [events |-> d.events, aliases |-> d.aliases] ELSE saved
      /\ retired' = retired
      /\ \A id \in Folded(n.events) : Members(n.aliases, id) = {}
  BY DEF Restart, MayFold
<1>2. saved \in Files
  BY InvIsGood DEF Rest
<1>3. /\ n.events \in Partial(Events) /\ n.aliases \in Partial(Aliases)
      /\ Reach(n.events, n.aliases)
  BY <1>2, NormalizedReaches
<1>4. /\ n.events = saved.events /\ DOMAIN n.aliases \subseteq DOMAIN saved.aliases
  BY NormalizedIs
<1> DEFINE folded == Folded(n.events)
<1>5. /\ folded \subseteq DOMAIN n.events
      /\ DOMAIN d.events = DOMAIN n.events \ folded
      /\ \A x \in DOMAIN d.events : d.events[x] = n.events[x]
      /\ DOMAIN d.aliases = folded \cup DOMAIN n.aliases
      /\ \A x \in DOMAIN n.aliases \ folded : d.aliases[x] = n.aliases[x]
      /\ d.batch.upserts = None /\ d.batch.deletes = folded
      /\ d.batch.aliasDeletes = {} /\ DOMAIN d.batch.aliases = folded
      /\ \A x \in folded : d.aliases[x] = d.batch.aliases[x]
  <2> HIDE DEF n
  <2>1. QED
    BY DedupedIs
<1>6. Good(d)
  <2> HIDE DEF n
  <2>1. QED
    BY <1>1, <1>3, DedupedGood
<1>7. cal'.events = d.events /\ cal'.aliases = d.aliases /\ cal'.batch = EmptyBatch
  BY <1>1, WithBatchParts
<1>8. /\ DOMAIN cal'.batch.upserts = {} /\ cal'.batch.deletes = {}
      /\ DOMAIN cal'.batch.aliases = {} /\ cal'.batch.aliasDeletes = {}
  BY <1>7, EmptyParts
<1>9. Names(cal') \subseteq Names(saved) /\ Names(saved') \subseteq Names(saved)
  <2> HIDE DEF n, d, folded
  <2>1. Names(cal') \subseteq Names(saved)
    BY <1>4, <1>5, <1>7 DEF Names
  <2>2. Names([events |-> d.events, aliases |-> d.aliases]) = Names(cal')
    BY <1>7 DEF Names
  <2>3. QED
    BY <1>1, <2>1, <2>2
<1>10. Dead \subseteq Dead'
  BY <1>1, <1>9, DeadStaysDead
<1>11. CASE folded # {}
  <2>1. saved'.events = d.events /\ saved'.aliases = d.aliases
    BY <1>1, <1>11
  <2>2. \A a \in DOMAIN d.aliases : a \notin DOMAIN d.events /\ d.aliases[a].target \in DOMAIN d.events
    BY <1>6, AliasParts
  <2> HIDE DEF d, Dead
  <2>3. Fits(saved', cal', Dead')
    BY <1>7, <1>8, <2>1 DEF Fits, EventsFit, AliasesFit, LeftoversDead, SameAlias
  <2>4. FilesReach(saved', Dead')
    BY <2>1, <2>2 DEF FilesReach
  <2>5. QED
    BY <2>3, <2>4
<1>12. CASE folded = {}
  <2>1. saved' = saved
    BY <1>1, <1>12
  <2>2. Dead \cap Names(saved) = {}
    BY DEF Dead
  <2> DEFINE e == WithBatch(d, EmptyBatch)
  <2>3. Fits(saved, e, Dead)
    <3> HIDE DEF Dead
    <3>1. \A m, b : m = Normalized(saved) /\ Folded(m.events) = {} /\ b = Deduped(m)
            => Fits(saved, WithBatch(b, EmptyBatch), Dead)
      BY <2>2, LoadedFits
    <3>2. QED
      BY <1>12, <3>1
  <2>4. Fits(saved', cal', Dead)
    BY <1>1, <2>1, <2>3
  <2>5. FilesReach(saved', Dead)
    BY <2>1
  <2> HIDE DEF Dead, d, n
  <2>6. QED
    BY <1>10, <2>4, <2>5, FitsMore
<1>13. QED
  BY <1>11, <1>12

(* What UpsertEvent's batch names.                                         *)
LEMMA UpsertNames ==
    ASSUME NEW id, NEW ev
    PROVE  LET b == RecordAliasDelete(RecordUpsert(EmptyBatch, id, ev), id)
           IN  /\ DOMAIN b.aliases = {} /\ b.deletes = {} /\ DOMAIN b.upserts = {id}
               /\ b.aliasDeletes = {id}
<1>1. DOMAIN With(None, id, ev) = {id}
  BY NoneEmpty DEF With, Over
<1>2. DOMAIN Forget(None, {id}) = {}
  BY NoneEmpty DEF Forget, Restrict
<1>3. QED
  BY <1>1, <1>2 DEF RecordAliasDelete, RecordUpsert, EmptyBatch, Batch

LEMMA RestorableKept ==
    ASSUME "refold" \notin Faults, "crossed" \notin Faults,
           Inv, Restorable, FreshTodo, [Next]_vars
    PROVE  Restorable'
<1>1. Good(cal) /\ Rest
  BY InvIsGood
<1>2. /\ cal.events \in Partial(Events) /\ cal.aliases \in Partial(Aliases)
      /\ GoodBatch(cal.batch) /\ Reach(cal.events, cal.aliases) /\ cal \in Calendars
  BY <1>1, CalendarParts DEF Good
<1>3. CASE ahead'
  BY <1>3 DEF Restorable
<1>4. CASE StartPass /\ ~ahead'
  <2> DEFINE d == Deduped(cal)
  <2>1. /\ cal' = WithBatch(d, EmptyBatch) /\ SaveBatch(d.batch)
        /\ pass = "idle" /\ MayFold(cal) /\ retired' = retired
    BY <1>4 DEF StartPass
  <2>2. saved' = Replayed(saved, d.batch) /\ ~ahead
    BY <1>4, <2>1 DEF SaveBatch
  <2>3. Fits(saved, cal, Dead) /\ FilesReach(saved, Dead) /\ cal.batch = EmptyBatch
    BY <1>1, <2>1, <2>2 DEF Restorable, Rest
  <2>4. Good(d)
    BY <1>2, <2>1, DedupedGood DEF MayFold
  <2>5. Fits(saved, d, Dead) /\ Names(d) \subseteq Names(cal)
    BY <2>3, FitsDeduped
  <2> HIDE DEF d
  <2>6. /\ Fits(saved', cal', Dead) /\ FilesReach(saved', Dead)
        /\ Names(saved') \subseteq Names(saved) \cup Names(d) /\ Names(cal') = Names(d)
    BY <2>1, <2>2, <2>3, <2>4, <2>5, SavedFits
  <2>7. Dead \subseteq Dead'
    BY <2>1, <2>5, <2>6 DEF Dead
  <2>8. QED
    BY <2>6, <2>7, FitsMore DEF Restorable
<1>5. CASE PageError /\ ~ahead'
  <2>1. /\ cal' = WithBatch(cal, EmptyBatch) /\ cal.batch = EmptyBatch
        /\ ~ahead /\ saved' = saved /\ retired' = retired
    BY <1>5 DEF PageError
  <2>2. cal'.events = cal.events /\ cal'.aliases = cal.aliases /\ cal'.batch = cal.batch
    BY <2>1, WithBatchParts
  <2>3. Fits(saved, cal, Dead) /\ FilesReach(saved, Dead)
    BY <2>1 DEF Restorable
  <2>4. Fits(saved', cal', Dead) /\ Names(cal') = Names(cal)
    BY <2>1, <2>2, <2>3, SameFits
  <2>5. Dead \subseteq Dead'
    <3>1. Names(saved') \cup Names(cal') \subseteq Names(saved) \cup Names(cal) \cup {}
      BY <2>1, <2>4
    <3>2. QED
      BY <2>1, <3>1 DEF Dead
  <2>6. QED
    BY <2>1, <2>3, <2>4, <2>5, FitsMore DEF Restorable
<1>6. CASE Restart /\ ~ahead'
  <2>1. ~ahead
    BY <1>6 DEF Restart
  <2>2. QED
    BY <1>6, <2>1, RestartRestores DEF Restorable
<1>7. ASSUME NEW i \in Items, PullAdded(i) PROVE Restorable'
  <2> DEFINE c == AddEvent(cal, i.id, i.ev, FALSE)
  <2>1. i.id \in IDs /\ i.ev \in Events
    BY DEF Items
  <2>2. {i.id} \cap retired = {} /\ FinishPage(c) /\ retired' = retired
    BY <1>7 DEF PullAdded
  <2>3. Good(c)
    BY <1>1, <2>1, AddGood
  <2>4. Fits(saved, cal, Dead) => Keeps(saved, cal, c, Dead, {i.id})
    BY <1>1, <2>1, FitsAdd
  <2> HIDE DEF c
  <2>5. QED
    BY <2>2, <2>3, <2>4, FinishRestores
<1>8. ASSUME NEW i \in Items, PullChanged(i) PROVE Restorable'
  <2> DEFINE c == ChangeEvent(cal, i.id, i.ev)
  <2>1. i.id \in IDs /\ i.ev \in Events
    BY DEF Items
  <2>2. {i.id} \cap retired = {} /\ FinishPage(c) /\ retired' = retired
    BY <1>8 DEF PullChanged
  <2>3. Good(c)
    BY <1>1, <2>1, ChangeGood
  <2>4. Fits(saved, cal, Dead) => Keeps(saved, cal, c, Dead, {i.id})
    BY <1>1, <2>1, FitsChange
  <2> HIDE DEF c
  <2>5. QED
    BY <2>2, <2>3, <2>4, FinishRestores
<1>9. ASSUME NEW id \in IDs, PullDeleted(id) PROVE Restorable'
  <2> DEFINE c == DeleteEvent(cal, id)
  <2>1. {} \cap retired = {} /\ FinishPage(c) /\ retired \subseteq retired'
    BY <1>9 DEF PullDeleted
  <2>2. Good(c)
    BY <1>1, DeleteGood
  <2>3. Fits(saved, cal, Dead) => Keeps(saved, cal, c, Dead, {})
    BY <1>1, FitsDelete
  <2> HIDE DEF c
  <2>4. QED
    BY <2>1, <2>2, <2>3, FinishRestores
<1>10. ASSUME NEW added \in Additions, PullReplay(added), ~ahead' PROVE Restorable'
  <2>1. /\ cal' = Pruned(cal, added) /\ saved' = saved /\ retired' = retired /\ ~ahead
    BY <1>10 DEF PullReplay
  <2>2. Fits(saved, cal, Dead) /\ FilesReach(saved, Dead)
    BY <2>1 DEF Restorable
  <2>3. Keeps(saved, cal, cal', Dead, {})
    BY <1>1, <2>1, <2>2, FitsPruned
  <2>4. Dead \subseteq Dead'
    <3>1. Names(saved') \cup Names(cal') \subseteq Names(saved) \cup Names(cal) \cup {}
      BY <2>1, <2>3 DEF Keeps
    <3>2. QED
      BY <2>1, <3>1 DEF Dead
  <2>5. QED
    BY <2>1, <2>2, <2>3, <2>4, FitsMore DEF Restorable, Keeps
<1>11. ASSUME NEW i \in Items, ApplyReplayed(i), ~ahead' PROVE Restorable'
  <2> DEFINE c == AddEvent(cal, i.id, i.ev, TRUE)
  <2>1. i.id \in IDs /\ i.ev \in Events
    BY DEF Items
  <2>2. {i.id} \cap retired = {} /\ retired' = retired
    BY <1>11 DEF ApplyReplayed, FreshTodo
  <2>3. Good(c)
    BY <1>1, <2>1, AddGood
  <2>4. Fits(saved, cal, Dead) => Keeps(saved, cal, c, Dead, {i.id})
    BY <1>1, <2>1, FitsAdd
  <2>5. CASE todo = {i}
    <3>1. FinishPage(c)
      BY <1>11, <2>5 DEF ApplyReplayed
    <3> HIDE DEF c
    <3>2. QED
      BY <2>2, <2>3, <2>4, <3>1, FinishRestores
  <2>6. CASE todo # {i}
    <3>1. cal' = c /\ saved' = saved /\ ahead' = ahead
      BY <1>11, <2>6 DEF ApplyReplayed
    <3> HIDE DEF c
    <3>2. Fits(saved, cal, Dead) /\ FilesReach(saved, Dead)
      BY <1>11, <3>1 DEF Restorable
    <3>3. Keeps(saved, cal, cal', Dead, {i.id})
      BY <2>4, <3>1, <3>2
    <3>4. Dead \subseteq Dead'
      <4>1. Names(saved') \cup Names(cal') \subseteq Names(saved) \cup Names(cal) \cup {i.id}
        BY <3>1, <3>3 DEF Keeps
      <4>2. QED
        BY <2>2, <4>1 DEF Dead
    <3>5. QED
      BY <3>1, <3>2, <3>3, <3>4, FitsMore DEF Restorable, Keeps
  <2>7. QED
    BY <2>5, <2>6
<1>12. ASSUME NEW id \in IDs, NEW ev \in Events, UpsertEvent(id, ev), ~ahead' PROVE Restorable'
  <2> DEFINE b == RecordAliasDelete(RecordUpsert(EmptyBatch, id, ev), id)
             r == Replayed(saved, b)
             m == Replayed(cal, b)
  <2>1. /\ cal' = WithBatch(m, cal.batch) /\ SaveBatch(b) /\ retired' = retired
        /\ {id} \cap Named(cal.batch) = {} /\ {id} \cap retired = {}
    BY <1>12 DEF UpsertEvent, Writable
  <2>2. saved' = r /\ ~ahead
    BY <1>12, <2>1 DEF SaveBatch
  <2>3. Fits(saved, cal, Dead) /\ FilesReach(saved, Dead)
    BY <2>2 DEF Restorable
  <2>4. /\ DOMAIN b.aliases = {} /\ b.deletes = {} /\ DOMAIN b.upserts = {id}
        /\ b.aliasDeletes = {id}
    BY UpsertNames
  <2>0. DOMAIN b.aliases = {}
    BY <2>4
  <2>5. Named(b) \cap Named(cal.batch) = {}
    <3> HIDE DEF b
    <3>1. QED
      BY <2>1, <2>4 DEF Named
  <2> HIDE DEF b, r, m
  <2>6. /\ Fits(r, cal', Dead)
        /\ FilesReach(r, Dead \cup (b.deletes \cap DOMAIN saved.events))
        /\ DOMAIN r.events = DOMAIN b.upserts \cup (DOMAIN saved.events \ b.deletes)
        /\ DOMAIN r.aliases = DOMAIN saved.aliases \ (b.aliasDeletes \cup DOMAIN b.upserts)
        /\ DOMAIN cal'.events = DOMAIN b.upserts \cup (DOMAIN cal.events \ b.deletes)
        /\ DOMAIN cal'.aliases = DOMAIN cal.aliases \ (b.aliasDeletes \cup DOMAIN b.upserts)
    BY <2>0, <2>1, <2>3, <2>5, WriteFits DEF r, m
  <2>7. Names(saved') \cup Names(cal') \subseteq Names(saved) \cup Names(cal) \cup {id}
    BY <2>2, <2>4, <2>6 DEF Names
  <2>8. Dead \subseteq Dead'
    BY <2>1, <2>7, DeadStaysDead
  <2>9. Dead \cup (b.deletes \cap DOMAIN saved.events) = Dead
    BY <2>4
  <2>10. Fits(saved', cal', Dead) /\ FilesReach(saved', Dead)
    BY <2>2, <2>6, <2>9
  <2> HIDE DEF Dead
  <2>11. QED
    BY <2>8, <2>10, FitsMore DEF Restorable
<1>13. ASSUME NEW id \in IDs, RemoveEvent(id), ~ahead' PROVE Restorable'
  <2> DEFINE gone == Members(cal.aliases, id) \cup ({id} \cap DOMAIN cal.aliases)
             b == Batch(None, {id}, None, gone)
             r == Replayed(saved, b)
             m == Replayed(cal, b)
  <2>1. /\ cal' = WithBatch(m, cal.batch) /\ SaveBatch(b) /\ retired' = retired \cup {id}
        /\ ({id} \cup gone) \cap Named(cal.batch) = {}
    BY <1>13 DEF RemoveEvent, Writable
  <2>2. saved' = r /\ ~ahead
    BY <1>13, <2>1 DEF SaveBatch
  <2>3. Fits(saved, cal, Dead) /\ FilesReach(saved, Dead)
    BY <2>2 DEF Restorable
  <2>4. /\ DOMAIN b.aliases = {} /\ b.deletes = {id} /\ DOMAIN b.upserts = {}
        /\ b.aliasDeletes = gone
    BY NoneEmpty DEF Batch
  <2>5. Named(b) \cap Named(cal.batch) = {}
    <3> HIDE DEF b
    <3>1. QED
      BY <2>1, <2>4 DEF Named
  <2>6. id \in DOMAIN cal.aliases => id \in gone
    OBVIOUS
  <2> HIDE DEF b, r, m, gone
  <2>7. /\ Fits(r, cal', Dead)
        /\ FilesReach(r, Dead \cup (b.deletes \cap DOMAIN saved.events))
        /\ DOMAIN r.events = DOMAIN b.upserts \cup (DOMAIN saved.events \ b.deletes)
        /\ DOMAIN r.aliases = DOMAIN saved.aliases \ (b.aliasDeletes \cup DOMAIN b.upserts)
        /\ DOMAIN cal'.events = DOMAIN b.upserts \cup (DOMAIN cal.events \ b.deletes)
        /\ DOMAIN cal'.aliases = DOMAIN cal.aliases \ (b.aliasDeletes \cup DOMAIN b.upserts)
    BY <2>1, <2>3, <2>4, <2>5, WriteFits DEF r, m
  <2>8. Dead \subseteq Dead'
    <3>1. Names(saved') \cup Names(cal') \subseteq Names(saved) \cup Names(cal) \cup {}
      BY <2>2, <2>4, <2>7 DEF Names
    <3>2. QED
      BY <2>1, <3>1 DEF Dead
  <2>9. b.deletes \cap DOMAIN saved.events \subseteq Dead'
    <3>1. id \in DOMAIN saved.events => id \notin DOMAIN saved.aliases
      BY <2>3 DEF FilesReach
    <3>2. id \in DOMAIN saved.events => id \notin Names(saved') \cup Names(cal')
      BY <2>2, <2>4, <2>6, <2>7, <3>1 DEF Names
    <3>3. QED
      BY <2>1, <2>4, <3>2 DEF Dead
  <2> HIDE DEF Dead
  <2>10. Fits(saved', cal', Dead')
    BY <2>2, <2>7, <2>8 DEF Fits, LeftoversDead
  <2>11. FilesReach(saved', Dead')
    BY <2>2, <2>7, <2>8, <2>9 DEF FilesReach
  <2>12. QED
    BY <2>10, <2>11 DEF Restorable
<1>14. CASE UNCHANGED vars
  BY <1>14 DEF vars, Restorable, Dead, Fits, EventsFit, AliasesFit, LeftoversDead, FilesReach, Names
<1>15. QED
  BY <1>3, <1>4, <1>5, <1>6, <1>7, <1>8, <1>9, <1>10, <1>11, <1>12, <1>13, <1>14 DEF Next

LEMMA InitRestorable == Init => Restorable /\ FreshTodo
<1> SUFFICES ASSUME Init PROVE Fits(saved, cal, Dead) /\ FilesReach(saved, Dead) /\ FreshTodo
  BY DEF Restorable
<1>1. /\ DOMAIN cal.events = {} /\ DOMAIN cal.aliases = {} /\ cal.batch = EmptyBatch
      /\ DOMAIN saved.events = {} /\ DOMAIN saved.aliases = {} /\ todo = {}
  BY NoneEmpty DEF Init, Calendar
<1>2. /\ DOMAIN cal.batch.upserts = {} /\ cal.batch.deletes = {}
      /\ DOMAIN cal.batch.aliases = {} /\ cal.batch.aliasDeletes = {}
  BY <1>1, EmptyParts
<1>3. QED
  BY <1>1, <1>2 DEF Fits, EventsFit, AliasesFit, LeftoversDead, FilesReach, FreshTodo

(* state.go 675-677: keeping only the last mutation of each ServerID loses *)
(* nothing.  As long as the server sends nothing that folds an event       *)
(* others stand for, and CalDAV writes to nothing the pending batch names, *)
(* the files and the batch give back what is in memory.                    *)
THEOREM BatchAlwaysRestores ==
    ASSUME "refold" \notin Faults, "crossed" \notin Faults
    PROVE  Spec => []BatchRestoresMemory
<1>1. Inv /\ Restorable /\ FreshTodo /\ [Next]_vars => Restorable' /\ FreshTodo'
  BY RestorableKept, FreshKept
<1>2. Inv /\ [Next]_vars => Inv'
  BY NextKeepsInv
<1>3. Inv /\ Restorable => BatchRestoresMemory
  <2> SUFFICES ASSUME Inv, Restorable, ~ahead PROVE BatchRestoresMemory
    BY DEF BatchRestoresMemory
  <2>1. Good(cal) /\ saved \in Files
    BY InvIsGood DEF Rest
  <2>2. Fits(saved, cal, Dead) /\ FilesReach(saved, Dead)
    BY DEF Restorable
  <2>3. Dead \cap Names(cal) = {}
    BY DEF Dead
  <2> HIDE DEF Dead
  <2>4. QED
    BY <2>1, <2>2, <2>3, FitRestores DEF BatchRestoresMemory
<1>4. QED
  BY <1>1, <1>2, <1>3, InitGood, InitRestorable, PTL DEF Spec
=============================================================================
