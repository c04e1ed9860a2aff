---------------------------- MODULE FlagSyncProofs ----------------------------
(***************************************************************************)
(* FlagsAgree and FileFollows of FlagSync, for any flags, sessions and     *)
(* bounds and with every fault.                                            *)
(***************************************************************************)
EXTENDS FlagSync, TLAPS

(* Who is idle carries nothing.                                            *)
IdleIsEmpty ==
    /\ pass.at = "idle" => Brought = {}
    /\ \A s \in Sessions : store[s].at = "idle" => store[s].done = {}

(* A cell that two carry is dirty.                                         *)
ContentionKnown == Contended \subseteq dirty

(* The pages are as good as the server, unless the cell is owed again or   *)
(* they hold an old change of it.                                          *)
PageCurrent ==
    \A c \in Brought \ (dirty \cup owed \cup pass.stale) : Page[c] = server[c]

(* What a STORE has marked is in memory and on file until it lets go.      *)
MarksStand ==
    \A s \in Sessions : store[s].at # "failed" =>
        \A c \in store[s].done \ dirty :
            local[c] = store[s].value /\ file[c] = store[s].value

FlagInv == TypeOK /\ IdleIsEmpty /\ ContentionKnown /\ PageCurrent
              /\ MarksStand /\ FileFollows /\ FlagsAgree

-----------------------------------------------------------------------------
(* Flags laid over others.                                                 *)
LEMMA Overlay ==
    ASSUME NEW D \in SUBSET Cells, NEW p \in [D -> BOOLEAN], NEW f \in Flags
    PROVE  /\ Over(p, f) \in Flags
           /\ \A c \in Cells : Over(p, f)[c] = IF c \in D THEN p[c] ELSE f[c]
  BY DEF Over, Flags

(* The pages are the Boolean functions on sets of cells.                   *)
LEMMA PageShape ==
    ASSUME NEW p
    PROVE  p \in Pages <=> \E D \in SUBSET Cells : p \in [D -> BOOLEAN]
  BY DEF Pages

LEMMA EmptyPage == NoPage \in Pages /\ DOMAIN NoPage = {}
  BY PageShape DEF NoPage

LEMMA NoStoreShape == NoStore \in Stores
  BY DEF NoStore, Stores

LEMMA MarkShape ==
    ASSUME NEW r \in Stores, NEW c \in r.todo
    PROVE  /\ AfterMark(r, c) \in Stores
           /\ AfterMark(r, c).at = r.at /\ AfterMark(r, c).value = r.value
           /\ AfterMark(r, c).done = r.done \cup {c}
           /\ AfterFailure(r, c) \in Stores
           /\ AfterFailure(r, c).at = "failed"
           /\ AfterFailure(r, c).done = r.done \cup {c}
  BY DEF AfterMark, AfterFailure, Stores

(* A cell held and clean after a step was clean before, and is not shared. *)
LEMMA StillClean ==
    ASSUME Watch, NEW c, c \in Held', c \notin dirty'
    PROVE  c \notin dirty /\ c \notin Contended'
  BY DEF Watch

-----------------------------------------------------------------------------
(* Types.                                                                  *)
LEMMA PassShape ==
    ASSUME NEW p \in Passes
    PROVE  /\ DOMAIN p.added \in SUBSET Cells /\ p.added \in [DOMAIN p.added -> BOOLEAN]
           /\ DOMAIN p.changed \in SUBSET Cells
           /\ p.changed \in [DOMAIN p.changed -> BOOLEAN]
  BY PageShape DEF Passes

(* What the pages come to.                                                 *)
LEMMA PageType ==
    ASSUME TypeOK
    PROVE  /\ Brought \in SUBSET Cells /\ Page \in [Brought -> BOOLEAN]
           /\ \A c \in Brought : Page[c] = IF c \in DOMAIN pass.changed
                                           THEN pass.changed[c] ELSE pass.added[c]
<1>1. PICK D \in SUBSET Cells : D = DOMAIN pass.changed /\ pass.changed \in [D -> BOOLEAN]
  BY PassShape DEF TypeOK
<1>2. PICK E \in SUBSET Cells : E = DOMAIN pass.added /\ pass.added \in [E -> BOOLEAN]
  BY PassShape DEF TypeOK
<1>3. /\ Page \in [D \cup E -> BOOLEAN]
      /\ \A c \in D \cup E : Page[c] = IF c \in D THEN pass.changed[c] ELSE pass.added[c]
  BY <1>1, <1>2 DEF Page, Over
<1>4. QED
  BY <1>1, <1>2, <1>3 DEF Brought

LEMMA TroubleBudget ==
    ASSUME TypeOK, NEW name, Trouble(name)
    PROVE  spent' \in Budgets
  BY BoundsAssumption DEF TypeOK, Budgets, Trouble

LEMMA ServerType ==
    ASSUME TypeOK, NEW D \in SUBSET Cells, NEW v \in BOOLEAN
    PROVE  /\ Over(Value(D, v), server) \in Flags
           /\ \A c \in Cells : Over(Value(D, v), server)[c]
                                = IF c \in D THEN v ELSE server[c]
<1>1. Value(D, v) \in [D -> BOOLEAN] /\ \A c \in D : Value(D, v)[c] = v
  BY DEF Value
<1>2. QED
  BY <1>1, Overlay DEF TypeOK

(* One kind of flags pulled, laid over those of that kind there are.       *)
LEMMA PulledOver ==
    ASSUME TypeOK, NEW D \in SUBSET Cells, NEW p \in Pages
    PROVE  /\ Over(Sent(D), p) \in Pages
           /\ DOMAIN Over(Sent(D), p) = D \cup DOMAIN p
           /\ \A c \in D \cup DOMAIN p : Over(Sent(D), p)[c]
                                         = IF c \in D THEN server[c] ELSE p[c]
<1>1. Sent(D) \in [D -> BOOLEAN] /\ \A c \in D : Sent(D)[c] = server[c]
  BY DEF Sent, TypeOK, Flags
<1>2. DOMAIN p \in SUBSET Cells /\ p \in [DOMAIN p -> BOOLEAN]
  BY PageShape
<1>3. PICK E \in SUBSET Cells : E = DOMAIN p /\ p \in [E -> BOOLEAN]
  BY <1>2
<1>4. /\ Over(Sent(D), p) \in [D \cup E -> BOOLEAN]
      /\ \A c \in D \cup E : Over(Sent(D), p)[c] = IF c \in D THEN Sent(D)[c] ELSE p[c]
  BY <1>1, <1>3 DEF Over
<1>5. Over(Sent(D), p) \in Pages
  BY <1>4, PageShape
<1>6. QED
  BY <1>1, <1>3, <1>4, <1>5

LEMMA PulledIs ==
    ASSUME TypeOK, NEW D \in SUBSET Cells, NEW p \in Pages, NEW q,
           q = Over(Sent(D), p)
    PROVE  /\ q \in Pages /\ DOMAIN q = D \cup DOMAIN p
           /\ \A c \in DOMAIN q : q[c] = IF c \in D THEN server[c] ELSE p[c]
  BY PulledOver

(* PullPage with its page named.                                           *)
Pulls(D) ==
    /\ D \in SUBSET owed
    /\ owed' = owed \ D
    /\ anew' = anew \ D
    /\ pass' = [pass EXCEPT
                   !.added = Over(Sent(D \cap anew), @),
                   !.changed = Over(Sent(D \ anew), @),
                   !.stale = (@ \cup (D \cap anew \cap DOMAIN pass.changed))
                                \ (D \ anew),
                   !.at = IF D = owed THEN "last" ELSE "more"]

LEMMA PullsPage ==
    ASSUME PullPage
    PROVE  \E D \in SUBSET owed : Pulls(D)
  BY DEF PullPage, Pulls

LEMMA PulledPage ==
    ASSUME TypeOK, NEW D, Pulls(D)
    PROVE  /\ pass' \in Passes
           /\ Brought' = D \cup Brought
           /\ \A c \in (D \cup Brought) \ pass'.stale :
                 Page'[c] = IF c \in D THEN server[c] ELSE Page[c]
           /\ \A c \in Brought \ D : c \in pass.stale => c \in pass'.stale
<1>1. pass \in Passes /\ pass.added \in Pages /\ pass.changed \in Pages
      /\ pass.stale \in SUBSET Cells
  BY DEF TypeOK, Passes
<1>2. D \in SUBSET Cells /\ D \cap anew \in SUBSET Cells /\ D \ anew \in SUBSET Cells
  BY DEF Pulls, TypeOK
<1>3. /\ pass'.added = Over(Sent(D \cap anew), pass.added)
      /\ pass'.changed = Over(Sent(D \ anew), pass.changed)
      /\ pass'.stale = (pass.stale \cup (D \cap anew \cap DOMAIN pass.changed))
                          \ (D \ anew)
      /\ pass'.at \in {"last", "more"} /\ pass'.retried = pass.retried
      /\ DOMAIN pass' = DOMAIN pass
  BY <1>1 DEF Pulls, Passes
<1> DEFINE A == D \cap anew
           C == D \ anew
<1>4. /\ pass'.added \in Pages /\ DOMAIN pass'.added = A \cup DOMAIN pass.added
      /\ \A c \in DOMAIN pass'.added :
            pass'.added[c] = IF c \in A THEN server[c] ELSE pass.added[c]
  <2> HIDE DEF A
  <2>1. A \in SUBSET Cells /\ pass'.added = Over(Sent(A), pass.added)
    BY <1>2, <1>3 DEF A
  <2>2. QED
    BY <1>1, <2>1, PulledIs
<1>5. /\ pass'.changed \in Pages
      /\ DOMAIN pass'.changed = C \cup DOMAIN pass.changed
      /\ \A c \in DOMAIN pass'.changed :
            pass'.changed[c] = IF c \in C THEN server[c] ELSE pass.changed[c]
  <2> HIDE DEF C
  <2>1. C \in SUBSET Cells /\ pass'.changed = Over(Sent(C), pass.changed)
    BY <1>2, <1>3 DEF C
  <2>2. QED
    BY <1>1, <2>1, PulledIs
<1>6. pass' \in Passes
  <2>1. pass'.stale \in SUBSET Cells /\ pass'.retried \in BOOLEAN
    BY <1>1, <1>2, <1>3 DEF Passes
  <2>2. QED
    BY <1>1, <1>3, <1>4, <1>5, <2>1 DEF Pulls, Passes
<1>7. Brought' = D \cup Brought
  BY <1>4, <1>5 DEF Brought
<1>8. \A c \in Brought' : Page'[c] = IF c \in DOMAIN pass'.changed
                                      THEN pass'.changed[c] ELSE pass'.added[c]
  <2>1. PICK H \in SUBSET Cells :
           H = DOMAIN pass'.changed /\ pass'.changed \in [H -> BOOLEAN]
    BY <1>6, PassShape
  <2>2. PICK E \in SUBSET Cells :
           E = DOMAIN pass'.added /\ pass'.added \in [E -> BOOLEAN]
    BY <1>6, PassShape
  <2>3. Page' = Over(pass'.changed, pass'.added)
    BY DEF Page
  <2>4. \A c \in H \cup E : Page'[c] = IF c \in H THEN pass'.changed[c] ELSE pass'.added[c]
    BY <2>1, <2>2, <2>3 DEF Over
  <2>5. QED
    BY <2>1, <2>2, <2>4 DEF Brought
<1>9. \A c \in Brought : Page[c] = IF c \in DOMAIN pass.changed
                                    THEN pass.changed[c] ELSE pass.added[c]
  BY PageType
<1>10. ASSUME NEW c \in D, c \notin pass'.stale PROVE Page'[c] = server[c]
  <2>1. CASE c \notin anew
    BY <1>5, <1>7, <1>8, <2>1
  <2>2. CASE c \in anew
    <3>1. c \notin DOMAIN pass.changed
      BY <1>3, <1>10, <2>2
    <3>2. QED
      BY <1>4, <1>5, <1>7, <1>8, <2>2, <3>1
  <2>3. QED
    BY <2>1, <2>2
<1>11. ASSUME NEW c \in Brought \ D PROVE Page'[c] = Page[c]
  <2>1. c \in DOMAIN pass'.changed <=> c \in DOMAIN pass.changed
    BY <1>5
  <2>2. c \in DOMAIN pass.changed \/ c \in DOMAIN pass.added
    BY DEF Brought
  <2>3. QED
    BY <1>4, <1>5, <1>7, <1>8, <1>9, <2>1, <2>2
<1>12. QED
  BY <1>3, <1>6, <1>7, <1>10, <1>11

LEMMA MergedPage ==
    ASSUME TypeOK
    PROVE  /\ Merged(Page) \in Flags
           /\ \A c \in Cells : Merged(Page)[c]
                                = IF c \in Brought THEN Page[c] ELSE local[c]
<1>1. Brought \in SUBSET Cells /\ Page \in [Brought -> BOOLEAN]
  BY PageType
<1>2. local \in Flags
  BY DEF TypeOK
<1>3. QED
  BY <1>1, <1>2, Overlay DEF Merged

LEMMA LostCells ==
    ASSUME TypeOK
    PROVE  Lost \subseteq Cells
  BY PageType DEF Lost

LEMMA StepKeepsTypes ==
    ASSUME TypeOK, Step
    PROVE  /\ server' \in Flags /\ owed' \subseteq Cells /\ anew' \subseteq Cells
           /\ local' \in Flags
           /\ file' \in Flags /\ pass' \in Passes
           /\ store' \in [Sessions -> Stores]
           /\ spent' \in Budgets /\ unsaved' \subseteq Cells
<1> USE DEF TypeOK
<1>1. CASE \E c \in Cells : OthersChange(c)
  BY <1>1, BoundsAssumption DEF OthersChange, Flags, Budgets, tasks
<1>2. CASE StartPass
  BY <1>2, EmptyPage DEF StartPass, data, NoPass, Passes
<1>3. CASE PullPage
  <2>1. PICK D \in SUBSET owed : Pulls(D)
    BY <1>3, PullsPage
  <2>2. pass' \in Passes
    BY <2>1, PulledPage
  <2>3. owed' \subseteq Cells /\ anew' \subseteq Cells
    BY <2>1 DEF Pulls
  <2>4. QED
    BY <1>3, <2>2, <2>3 DEF PullPage
<1>4. CASE PullStatus3
  BY <1>4, TroubleBudget DEF PullStatus3, Reset, tasks
<1>5. CASE PullStatus5
  <2>1. pass' \in Passes
    BY <1>5, EmptyPage DEF PullStatus5, NoPass, Passes
  <2>2. QED
    BY <1>5, <2>1, TroubleBudget DEF PullStatus5, Reset
<1>6. CASE PullError
  <2>1. pass' \in Passes
    BY <1>6 DEF PullError, Passes
  <2>2. QED
    BY <1>6, <2>1, TroubleBudget DEF PullError, Reset
<1>7. CASE Apply
  <2>1. pass' \in Passes /\ local' \in Flags
    BY <1>7, MergedPage, EmptyPage DEF Apply, NoPass, Passes
  <2>2. file' \in Flags /\ unsaved' \subseteq Cells
    BY <1>7, <2>1, PageType DEF Apply, Saved, NotSaved
  <2>3. QED
    BY <1>7, <2>1, <2>2 DEF Apply
<1>8. CASE \E s \in Sessions : StoreBegin(s)
  <2>1. PICK s \in Sessions, C \in SUBSET Cells, v \in BOOLEAN :
           store' = [store EXCEPT ![s] = [NoStore EXCEPT
                        !.at = "marking", !.todo = C, !.value = v]]
    BY <1>8 DEF StoreBegin
  <2>2. store' \in [Sessions -> Stores]
    BY <2>1 DEF NoStore, Stores
  <2>3. spent' \in Budgets
    BY <1>8, BoundsAssumption DEF StoreBegin, Budgets
  <2>4. QED
    BY <1>8, <2>2, <2>3 DEF StoreBegin, data
<1>9. CASE \E s \in Sessions : Mark(s) \/ MarkFails(s)
  <2>1. PICK s \in Sessions : Mark(s) \/ MarkFails(s)
    BY <1>9
  <2>2. store[s] \in Stores
    OBVIOUS
  <2>3. PICK c \in store[s].todo : local' = [local EXCEPT ![c] = store[s].value]
    BY <2>1 DEF Mark, MarkFails
  <2>4. local' \in Flags
    BY <2>2, <2>3 DEF Flags, Stores
  <2>5. store' \in [Sessions -> Stores]
    <3>1. CASE Mark(s)
      BY <2>2, <3>1, MarkShape DEF Mark
    <3>2. CASE MarkFails(s)
      BY <2>2, <3>2, MarkShape DEF MarkFails
    <3>3. QED
      BY <2>1, <3>1, <3>2
  <2>6. file' \in Flags /\ unsaved' \subseteq Cells
    BY <2>1, <2>2, <2>4 DEF Mark, MarkFails, Saved, NotSaved, Stores
  <2>7. QED
    BY <2>1, <2>4, <2>5, <2>6 DEF Mark, MarkFails
<1>10. CASE \E s \in Sessions : GiveUp(s) \/ Answer(s) \/ AnswerFails(s)
  <2>1. PICK s \in Sessions : GiveUp(s) \/ Answer(s) \/ AnswerFails(s)
    BY <1>10
  <2>2. store' \in [Sessions -> Stores]
    <3>1. CASE Answer(s)
      BY <3>1 DEF Answer, Stores
    <3>2. CASE GiveUp(s) \/ AnswerFails(s)
      BY <3>2, NoStoreShape DEF GiveUp, AnswerFails, Abandon
    <3>3. QED
      BY <2>1, <3>1, <3>2
  <2>3. QED
    BY <2>1, <2>2 DEF GiveUp, Answer, AnswerFails, data
<1>11. CASE \E s \in Sessions : PushStatus3(s)
  BY <1>11, TroubleBudget DEF PushStatus3, Reset, tasks
<1>12. CASE \E s \in Sessions : Push(s) \/ PushFails(s)
  <2>1. PICK s \in Sessions : Push(s) \/ PushFails(s)
    BY <1>12
  <2>2. store[s] \in Stores
    OBVIOUS
  <2>3. store[s].done \in SUBSET Cells /\ store[s].value \in BOOLEAN
    BY <2>2 DEF Stores
  <2>4. PICK D \in SUBSET Cells : server' = Over(Value(D, store[s].value), server)
    BY <2>1, <2>3 DEF Push, PushFails
  <2>5. server' \in Flags
    BY <2>3, <2>4, ServerType
  <2>6. store' \in [Sessions -> Stores]
    BY <2>1, NoStoreShape DEF Push, PushFails, Abandon
  <2>7. pass' \in Passes
    <3>1. CASE Push(s)
      <4>1. PICK O \in SUBSET owed :
               pass' = [pass EXCEPT !.stale = @ \cup (O \cap Brought)]
        BY <3>1 DEF Push
      <4>2. O \cap Brought \subseteq Cells
        OBVIOUS
      <4>3. QED
        BY <4>1, <4>2 DEF Passes
    <3>2. CASE PushFails(s)
      BY <3>2 DEF PushFails
    <3>3. QED
      BY <2>1, <3>1, <3>2
  <2>8. QED
    BY <2>1, <2>5, <2>6, <2>7 DEF Push, PushFails, Reset
<1>13. CASE Crash
  <2>1. pass' \in Passes /\ store' \in [Sessions -> Stores]
    BY <1>13, EmptyPage DEF Crash, NoPass, Passes, NoStore, Stores
  <2>2. owed' \subseteq Cells /\ anew' \subseteq Cells
    BY <1>13, LostCells DEF Crash, Reset
  <2>3. QED
    BY <1>13, <2>1, <2>2, TroubleBudget DEF Crash
<1>14. QED
  BY <1>1, <1>2, <1>3, <1>4, <1>5, <1>6, <1>7, <1>8, <1>9, <1>10, <1>11, <1>12,
     <1>13 DEF Step

(* The history variables name cells.                                       *)
LEMMA HistoryTypes ==
    ASSUME TypeOK, Next
    PROVE  dirty' \subseteq Cells /\ doubt' \subseteq Cells
<1>1. pass \in Passes /\ pass' \in Passes
  BY StepKeepsTypes DEF TypeOK, Next
<1>2. Brought \subseteq Cells /\ Brought' \subseteq Cells
  <2>1. Brought \subseteq Cells
    BY PageType
  <2>2. DOMAIN pass'.added \in SUBSET Cells /\ DOMAIN pass'.changed \in SUBSET Cells
    BY <1>1, PassShape
  <2>3. QED
    BY <2>1, <2>2 DEF Brought
<1>3. store \in [Sessions -> Stores] /\ store' \in [Sessions -> Stores]
  BY StepKeepsTypes DEF TypeOK, Next
<1>4. Marked \subseteq Cells /\ Marked' \subseteq Cells
  BY <1>3 DEF Marked, Stores
<1>5. dirty' \subseteq Cells
  BY <1>2, <1>4 DEF Next, Watch, Held
<1>6. doubt' \subseteq Cells \cup Marked'
  <2> USE DEF TypeOK
  <2>1. CASE Apply \/ Crash
    BY <1>2, <1>4, <2>1, LostCells DEF Apply, Crash
  <2>2. ASSUME NEW s \in Sessions, MarkFails(s)
        PROVE  doubt' \subseteq doubt \cup Marked'
    <3>1. PICK c \in store[s].todo : store'[s].done = store[s].done \cup {c}
                                       /\ doubt' = doubt \cup {c}
      BY <1>3, <2>2, MarkShape DEF MarkFails
    <3>2. QED
      BY <3>1 DEF Marked
  <2>3. ASSUME NEW s \in Sessions, GiveUp(s) \/ AnswerFails(s) \/ PushFails(s)
        PROVE  doubt' \subseteq doubt \cup Marked
    BY <2>3 DEF GiveUp, AnswerFails, PushFails, Abandon, Marked
  <2>4. ASSUME NEW s \in Sessions, Push(s)
        PROVE  doubt' \subseteq Cells
    <3>1. Marked = UNION {store[t].done : t \in Sessions}
      BY DEF Marked
    <3>2. QED
      BY <1>4, <2>4, <3>1 DEF Push
  <2>5. CASE UNCHANGED doubt
    BY <2>5
  <2>6. QED
    BY <1>4, <2>1, <2>2, <2>3, <2>4, <2>5
    DEF Next, Step, OthersChange, StartPass, PullPage, PullStatus3, PullStatus5,
        PullError, StoreBegin, Mark, Answer, PushStatus3
<1>7. QED
  BY <1>2, <1>4, <1>5, <1>6 DEF TypeOK

LEMMA Types ==
    ASSUME TypeOK, Next
    PROVE  TypeOK'
  BY StepKeepsTypes, HistoryTypes DEF TypeOK, Next

-----------------------------------------------------------------------------
(* Which actions touch what.                                               *)
PassStep == PullPage \/ PullStatus5 \/ PullError \/ Apply \/ Crash \/ StartPass

LEMMA PassUntouched ==
    ASSUME Step, ~PassStep, ~ \E s \in Sessions : Push(s)
    PROVE  pass' = pass
  BY DEF Step, PassStep, OthersChange, PullStatus3, StoreBegin, Mark, MarkFails,
         GiveUp, Answer, AnswerFails, PushStatus3, PushFails, tasks

(* A push can at most outdate the pages.                                   *)
LEMMA PassKept ==
    ASSUME TypeOK, Step, ~PassStep
    PROVE  pass'.added = pass.added /\ pass'.changed = pass.changed /\ pass'.at = pass.at
<1>1. CASE \E s \in Sessions : Push(s)
  BY <1>1 DEF Push, TypeOK, Passes
<1>2. CASE ~ \E s \in Sessions : Push(s)
  BY <1>2, PassUntouched
<1>3. QED
  BY <1>1, <1>2

(* Where a STORE of another session, or the pass, moves, a session's STORE *)
(* is what it was.                                                         *)
LEMMA MarksKept ==
    ASSUME TypeOK, Step, NEW t \in Sessions
    PROVE  \/ store'[t].done = store[t].done /\ store'[t].value = store[t].value
              /\ (store'[t].at = "failed" <=> store[t].at = "failed")
              /\ (store'[t].at = "idle" => store[t].at = "idle")
           \/ store'[t].done = {} /\ store'[t].at \in {"idle", "marking"}
           \/ Mark(t) \/ MarkFails(t)
<1> USE DEF TypeOK
<1>1. CASE \E s \in Sessions : StoreBegin(s)
  BY <1>1 DEF StoreBegin, NoStore, Stores
<1>2. CASE \E s \in Sessions : Mark(s) \/ MarkFails(s)
  BY <1>2 DEF Mark, MarkFails
<1>3. CASE \E s \in Sessions : GiveUp(s) \/ Answer(s) \/ AnswerFails(s)
  BY <1>3 DEF GiveUp, Answer, AnswerFails, Abandon, NoStore, Stores
<1>4. CASE \E s \in Sessions : Push(s) \/ PushFails(s)
  BY <1>4 DEF Push, PushFails, Abandon, NoStore, Stores
<1>5. CASE Crash
  BY <1>5 DEF Crash, NoStore
<1>6. CASE UNCHANGED store
  BY <1>6
<1>7. QED
  BY <1>1, <1>2, <1>3, <1>4, <1>5, <1>6
  DEF Step, OthersChange, StartPass, PullPage, PullStatus3, PullStatus5,
      PullError, Apply, PushStatus3, tasks

LEMMA IdleStep ==
    ASSUME TypeOK, IdleIsEmpty, Step
    PROVE  IdleIsEmpty'
<1>1. pass'.at = "idle" => Brought' = {}
  <2>1. CASE StartPass \/ PullPage \/ PullStatus5 \/ PullError
    BY <2>1 DEF StartPass, PullPage, PullStatus5, PullError, TypeOK, Passes, NoPass
  <2>2. CASE Apply \/ Crash
    BY <2>2, EmptyPage DEF Apply, Crash, NoPass, Brought
  <2>3. CASE ~PassStep
    BY <2>3, PassKept DEF IdleIsEmpty, Brought
  <2>4. QED
    BY <2>1, <2>2, <2>3 DEF PassStep
<1>2. ASSUME NEW t \in Sessions, store'[t].at = "idle" PROVE store'[t].done = {}
  <2>1. store[t] \in Stores
    BY DEF TypeOK
  <2>2. CASE Mark(t) \/ MarkFails(t)
    BY <1>2, <2>1, <2>2, MarkShape DEF Mark, MarkFails, TypeOK
  <2>3. CASE ~(Mark(t) \/ MarkFails(t))
    BY <1>2, <2>3, MarksKept DEF IdleIsEmpty
  <2>4. QED
    BY <2>2, <2>3
<1>3. QED
  BY <1>1, <1>2 DEF IdleIsEmpty

LEMMA ContentionStep ==
    ASSUME TypeOK', Watch
    PROVE  ContentionKnown'
<1>1. Contended' \subseteq Held'
  BY DEF Contended, Held, Marked
<1>2. QED
  BY <1>1 DEF Watch, ContentionKnown

(* Another holder has a clean cell neither before a step nor after it.     *)
LEMMA CleanIsMine ==
    ASSUME TypeOK, ContentionKnown, NEW c \in Cells, c \notin dirty
    PROVE  /\ \A s \in Sessions : ~(c \in Brought /\ c \in store[s].done)
           /\ \A s, t \in Sessions :
                 c \in store[s].done /\ c \in store[t].done => s = t
  BY DEF ContentionKnown, Contended, Marked

(* The server's flags change by other devices and by pushes only.          *)
LEMMA ServerMoves ==
    ASSUME TypeOK, Step, NEW c \in Cells, server'[c] # server[c]
    PROVE  c \in owed' \/ \E s \in Sessions :
                             (Push(s) \/ PushFails(s)) /\ c \in store[s].done
<1>1. CASE \E d \in Cells : OthersChange(d)
  BY <1>1 DEF OthersChange, TypeOK, Flags
<1>2. CASE \E s \in Sessions : Push(s) \/ PushFails(s)
  <2>1. PICK s \in Sessions : Push(s) \/ PushFails(s)
    BY <1>2
  <2>2. store[s].done \in SUBSET Cells /\ store[s].value \in BOOLEAN
    BY DEF TypeOK, Stores
  <2>3. PICK D \in SUBSET store[s].done :
           server' = Over(Value(D, store[s].value), server)
    BY <2>1 DEF Push, PushFails
  <2>4. c \in D
    BY <2>2, <2>3, ServerType
  <2>5. QED
    BY <2>1, <2>3, <2>4
<1>3. CASE UNCHANGED server
  BY <1>3
<1>4. QED
  BY <1>1, <1>2, <1>3
  DEF Step, StartPass, PullPage, PullStatus3, PullStatus5, PullError, Apply,
      StoreBegin, Mark, MarkFails, GiveUp, Answer, AnswerFails, PushStatus3,
      Crash, tasks, data

(* What is owed is paid by a page, or put into the reply to a push.        *)
LEMMA OwedStays ==
    ASSUME TypeOK, Step, ~PullPage, ~ \E s \in Sessions : Push(s)
    PROVE  owed \subseteq owed'
  BY DEF TypeOK, Step, Reset, OthersChange, StartPass, PullStatus3, PullStatus5, PullError,
         Apply, StoreBegin, Mark, MarkFails, GiveUp, Answer, AnswerFails,
         PushStatus3, PushFails, Crash, tasks, data

LEMMA PageStep ==
    ASSUME FlagInv, Next, TypeOK'
    PROVE  PageCurrent'
<1> USE DEF FlagInv
<1> SUFFICES ASSUME NEW c \in Brought', c \notin dirty', c \notin owed',
                    c \notin pass'.stale
             PROVE  Page'[c] = server'[c]
  BY DEF PageCurrent
<1>1. c \notin dirty /\ c \notin Contended'
  BY StillClean DEF Next, Held
<1>2. c \in Cells
  <2>1. pass' \in Passes
    BY DEF TypeOK
  <2>2. QED
    BY <2>1, PassShape DEF Brought
<1>3. CASE PullPage
  <2>1. PICK D \in SUBSET owed : Pulls(D)
    BY <1>3, PullsPage
  <2>2. Brought' = D \cup Brought
    BY <2>1, PulledPage
  <2>3. /\ Page'[c] = IF c \in D THEN server[c] ELSE Page[c]
        /\ c \notin D => c \in Brought /\ c \notin pass.stale
    BY <2>1, <2>2, PulledPage
  <2>4. server' = server
    BY <1>3 DEF PullPage
  <2>5. c \notin D => c \notin owed
    BY <2>1 DEF Pulls
  <2>6. QED
    BY <1>1, <2>3, <2>4, <2>5 DEF PageCurrent
<1>4. CASE StartPass \/ Apply \/ Crash
  <2>1. pass'.added = NoPage /\ pass'.changed = NoPage
    BY <1>4 DEF StartPass, Apply, Crash, NoPass
  <2>2. QED
    BY <2>1, EmptyPage DEF Brought
<1>5. CASE PullStatus5
  BY <1>2, <1>5 DEF PullStatus5, Reset
<1>6. CASE PullError \/ ~PassStep
  <2>1. pass'.added = pass.added /\ pass'.changed = pass.changed
    BY <1>6, PassKept DEF Next, PullError, TypeOK, Passes
  <2>2. c \in Brought /\ c \notin owed /\ c \notin pass.stale
    <3>1. c \in Brought
      BY <2>1 DEF Brought
    <3>2. CASE PullError
      BY <3>1, <3>2 DEF PullError, Reset, TypeOK, Passes
    <3>3. CASE \E s \in Sessions : Push(s)
      BY <3>1, <3>3 DEF Push, TypeOK, Passes
    <3>4. CASE ~PassStep /\ ~ \E s \in Sessions : Push(s)
      BY <3>1, <3>4, OwedStays, PassUntouched DEF Next, PassStep
    <3>5. QED
      BY <1>6, <3>2, <3>3, <3>4
  <2>3. server'[c] = server[c]
    BY <1>1, <1>2, <2>2, ServerMoves, CleanIsMine DEF Next
  <2>4. QED
    BY <1>1, <2>1, <2>2, <2>3 DEF PageCurrent, Page
<1>7. QED
  BY <1>3, <1>4, <1>5, <1>6 DEF PassStep

(* The bridge's flags, in memory and on file, move where a STORE marks and *)
(* where a pass or a restart lays them anew.                               *)
LEMMA LocalMoves ==
    ASSUME TypeOK, Step, ~Apply, ~Crash, NEW c \in Cells
    PROVE  \/ local'[c] = local[c] /\ (file'[c] = file[c] \/ file'[c] = local[c])
           \/ \E s \in Sessions : (Mark(s) \/ MarkFails(s)) /\ c \in store'[s].done
<1>1. CASE \E s \in Sessions : Mark(s) \/ MarkFails(s)
  <2>1. PICK s \in Sessions : Mark(s) \/ MarkFails(s)
    BY <1>1
  <2>2. PICK d \in store[s].todo :
           /\ local' = [local EXCEPT ![d] = store[s].value]
           /\ file' = local' \/ file' = file
           /\ store'[s].done = store[s].done \cup {d}
    BY <2>1, MarkShape DEF Mark, MarkFails, Saved, NotSaved, TypeOK
  <2>3. CASE c = d
    BY <2>1, <2>2, <2>3
  <2>4. CASE c # d
    BY <2>2, <2>4 DEF TypeOK, Flags
  <2>5. QED
    BY <2>3, <2>4
<1>2. CASE UNCHANGED <<local, file>>
  BY <1>2
<1>3. QED
  BY <1>1, <1>2
  DEF Step, OthersChange, StartPass, PullPage, PullStatus3, PullStatus5, PullError,
      StoreBegin, GiveUp, Answer, AnswerFails, PushStatus3, Push, PushFails, tasks, data

LEMMA MarkedAreHeld ==
    ASSUME NEW s \in Sessions, NEW c \in store'[s].done
    PROVE  c \in Held'
  BY DEF Held, Marked

LEMMA MarksStep ==
    ASSUME FlagInv, Next, TypeOK'
    PROVE  MarksStand'
<1> USE DEF FlagInv
<1> SUFFICES ASSUME NEW t \in Sessions, store'[t].at # "failed",
                    NEW c \in store'[t].done, c \notin dirty'
             PROVE  local'[c] = store'[t].value /\ file'[c] = store'[t].value
  BY DEF MarksStand
<1>1. c \notin dirty /\ c \notin Contended'
  BY StillClean, MarkedAreHeld DEF Next
<1>2. c \in Cells /\ store[t] \in Stores
  BY DEF TypeOK, Stores
<1>3. CASE Mark(t)
  <2>1. PICK d \in store[t].todo :
           /\ local' = [local EXCEPT ![d] = store[t].value] /\ file' = local'
           /\ store'[t] = AfterMark(store[t], d)
    BY <1>3 DEF Mark, Saved, TypeOK
  <2>2. /\ store'[t].value = store[t].value /\ store[t].at # "failed"
        /\ store'[t].done = store[t].done \cup {d}
    BY <1>2, <2>1, MarkShape
  <2>3. c # d => local[c] = store[t].value
    BY <1>1, <2>2 DEF MarksStand
  <2>4. QED
    BY <1>2, <2>1, <2>2, <2>3 DEF TypeOK, Flags
<1>4. CASE ~Mark(t)
  <2>1. ~MarkFails(t)
    <3>1. SUFFICES ASSUME MarkFails(t) PROVE FALSE
      OBVIOUS
    <3>2. PICK d \in store[t].todo : store' = [store EXCEPT ![t] = AfterFailure(@, d)]
      BY <3>1 DEF MarkFails
    <3>3. store'[t] = AfterFailure(store[t], d)
      BY <3>2 DEF TypeOK
    <3>4. QED
      BY <1>2, <3>3, MarkShape
  <2>2. /\ c \in store[t].done /\ store'[t].value = store[t].value
        /\ store[t].at # "failed"
    BY <1>4, <2>1, MarksKept DEF Next
  <2>3. local[c] = store[t].value /\ file[c] = store[t].value
    BY <1>1, <2>2 DEF MarksStand
  <2>4. CASE Apply
    <3>1. c \notin Brought
      BY <1>1, <1>2, <2>2, CleanIsMine
    <3>2. local'[c] = local[c]
      BY <1>2, <2>4, <3>1, MergedPage DEF Apply
    <3>3. file'[c] = file[c] \/ file'[c] = local'[c]
      BY <2>4 DEF Apply, Saved, NotSaved
    <3>4. QED
      BY <2>2, <2>3, <3>2, <3>3
  <2>5. CASE Crash
    BY <2>5 DEF Crash, NoStore
  <2>6. CASE ~Apply /\ ~Crash
    <3>1. ~ \E s \in Sessions : (Mark(s) \/ MarkFails(s)) /\ c \in store'[s].done
      BY <1>1, <1>2, <1>4, <2>1 DEF Contended
    <3>2. QED
      BY <1>2, <2>2, <2>3, <2>6, <3>1, LocalMoves DEF Next
  <2>7. QED
    BY <2>4, <2>5, <2>6
<1>5. QED
  BY <1>3, <1>4

(* Doubt about a cell ends with a page or a push that had it to itself.    *)
Settles(c) ==
    \/ Apply /\ c \in Brought
    \/ \E s \in Sessions : Push(s) /\ c \in store[s].done

LEMMA DoubtEnds ==
    ASSUME Step, NEW c \in doubt, c \notin doubt'
    PROVE  Settles(c) /\ c \notin dirty
<1>1. CASE Apply
  BY <1>1 DEF Apply, Settles
<1>2. CASE \E s \in Sessions : Push(s)
  BY <1>2 DEF Push, Settles
<1>3. CASE doubt \subseteq doubt'
  BY <1>3
<1>4. QED
  BY <1>1, <1>2, <1>3
  DEF Step, OthersChange, StartPass, PullPage, PullStatus3, PullStatus5, PullError,
      StoreBegin, Mark, MarkFails, GiveUp, Answer, AnswerFails, Abandon,
      PushStatus3, PushFails, Crash

(* A push that settles a cell leaves both sides with its value.            *)
LEMMA PushSettles ==
    ASSUME TypeOK, MarksStand, NEW s \in Sessions, Push(s), NEW c \in store[s].done,
           c \notin doubt'
    PROVE  /\ local'[c] = store[s].value
           /\ c \notin owed' => server'[c] = store[s].value
<1>1. c \notin dirty /\ store[s].at = "pushing" /\ local' = local
  BY DEF Push
<1>2. local[c] = store[s].value
  BY <1>1 DEF MarksStand
<1>3. store[s].done \in SUBSET Cells /\ store[s].value \in BOOLEAN
  BY DEF TypeOK, Stores
<1>4. PICK kept \in SUBSET store[s].done :
         /\ server' = Over(Value(store[s].done \ kept, store[s].value), server)
         /\ c \notin kept \ owed'
  BY DEF Push
<1>5. c \notin owed' => server'[c] = store[s].value
  BY <1>3, <1>4, ServerType
<1>6. QED
  BY <1>1, <1>2, <1>5

LEMMA FileStep ==
    ASSUME FlagInv, Next, TypeOK'
    PROVE  FileFollows'
<1> USE DEF FlagInv
<1> SUFFICES ASSUME NEW c \in Cells, c \notin unsaved'
             PROVE  file'[c] = local'[c]
  BY DEF FileFollows
<1>1. CASE Apply
  <2>1. CASE Saved
    BY <2>1 DEF Saved
  <2>2. CASE ~Saved
    <3>1. c \notin unsaved /\ file' = file /\ c \notin Brought
      BY <1>1, <2>2 DEF Apply, NotSaved
    <3>2. local'[c] = local[c]
      BY <1>1, <3>1, MergedPage DEF Apply
    <3>3. QED
      BY <3>1, <3>2 DEF FileFollows
  <2>3. QED
    BY <2>1, <2>2
<1>2. CASE Crash
  BY <1>2 DEF Crash
<1>3. ASSUME NEW s \in Sessions, Mark(s)
      PROVE  file'[c] = local'[c]
  BY <1>3 DEF Mark, Saved
<1>4. ASSUME NEW s \in Sessions, MarkFails(s)
      PROVE  file'[c] = local'[c]
  <2>1. PICK d \in store[s].todo :
           local' = [local EXCEPT ![d] = store[s].value] /\ NotSaved({d})
    BY <1>4 DEF MarkFails
  <2>2. file' = file /\ c \notin unsaved /\ c # d
    BY <2>1 DEF NotSaved
  <2>3. QED
    BY <2>1, <2>2 DEF FileFollows, TypeOK, Flags
<1>5. CASE UNCHANGED <<local, file, unsaved>>
  BY <1>5 DEF FileFollows
<1>6. QED
  BY <1>1, <1>2, <1>3, <1>4, <1>5
  DEF Next, Step, OthersChange, StartPass, PullPage, PullStatus3, PullStatus5,
      PullError, StoreBegin, GiveUp, Answer, AnswerFails, PushStatus3, Push,
      PushFails, tasks, data

(* Who lets a cell go settles it, has it sent again or leaves it in doubt. *)
LEMMA LettingGo ==
    ASSUME TypeOK, IdleIsEmpty, Step, NEW c \in Held, c \notin Held',
           c \notin owed', c \notin doubt'
    PROVE  Settles(c)
<1>1. CASE c \in Brought
  <2>1. c \in Cells
    BY <1>1, PageType
  <2>2. CASE PullPage
    <3>1. PICK D \in SUBSET owed : Pulls(D)
      BY <2>2, PullsPage
    <3>2. Brought' = D \cup Brought
      BY <3>1, PulledPage
    <3>3. QED
      BY <1>1, <3>2 DEF Held
  <2>3. CASE StartPass
    BY <1>1, <2>3 DEF StartPass, IdleIsEmpty
  <2>4. CASE PullStatus5
    BY <2>1, <2>4 DEF PullStatus5, Reset
  <2>5. CASE Crash
    BY <1>1, <2>1, <2>5 DEF Crash, Reset, Lost
  <2>6. CASE Apply
    BY <1>1, <2>6 DEF Settles
  <2>7. CASE PullError \/ ~PassStep
    <3>1. pass'.added = pass.added /\ pass'.changed = pass.changed
      BY <2>7, PassKept DEF PullError, TypeOK, Passes
    <3>2. QED
      BY <1>1, <3>1 DEF Held, Brought
  <2>8. QED
    BY <2>2, <2>3, <2>4, <2>5, <2>6, <2>7 DEF PassStep
<1>2. ASSUME NEW t \in Sessions, c \in store[t].done PROVE Settles(c)
  <2>1. c \notin store'[t].done
    BY MarkedAreHeld
  <2>2. store[t] \in Stores
    BY DEF TypeOK
  <2>3. CASE GiveUp(t) \/ AnswerFails(t) \/ PushFails(t)
    BY <1>2, <2>3 DEF GiveUp, AnswerFails, PushFails, Abandon
  <2>4. CASE Push(t)
    BY <1>2, <2>4 DEF Settles
  <2>5. CASE Crash
    BY <1>2, <2>5 DEF Crash, Marked
  <2>6. CASE StoreBegin(t)
    BY <1>2, <2>6 DEF StoreBegin, IdleIsEmpty
  <2>7. CASE Mark(t) \/ MarkFails(t)
    <3>1. PICK d \in store[t].todo :
             \/ store' = [store EXCEPT ![t] = AfterMark(@, d)]
             \/ store' = [store EXCEPT ![t] = AfterFailure(@, d)]
      BY <2>7 DEF Mark, MarkFails
    <3>2. store'[t] = AfterMark(store[t], d) \/ store'[t] = AfterFailure(store[t], d)
      BY <3>1 DEF TypeOK
    <3>3. QED
      BY <1>2, <2>1, <2>2, <3>2, MarkShape
  <2>8. CASE Answer(t)
    BY <1>2, <2>1, <2>2, <2>8 DEF Answer, TypeOK, Stores
  <2>9. CASE store'[t] = store[t]
    BY <1>2, <2>1, <2>9
  <2>10. QED
    BY <2>3, <2>4, <2>5, <2>6, <2>7, <2>8, <2>9
    DEF Step, TypeOK, OthersChange, StartPass, PullPage, PullStatus3, PullStatus5,
        PullError, Apply, StoreBegin, Mark, MarkFails, GiveUp, Answer, AnswerFails,
        Abandon, PushStatus3, Push, PushFails, tasks
<1>3. QED
  BY <1>1, <1>2 DEF Held, Marked

LEMMA AgreeStep ==
    ASSUME FlagInv, Next, TypeOK'
    PROVE  FlagsAgree'
<1> USE DEF FlagInv
<1> SUFFICES ASSUME NEW c \in Cells, c \notin Held', c \notin owed', c \notin doubt'
             PROVE  local'[c] = server'[c]
  BY DEF FlagsAgree
<1>1. CASE Apply
  <2>1. server' = server /\ owed' = owed /\ store' = store
    BY <1>1 DEF Apply
  <2>2. local'[c] = IF c \in Brought THEN Page[c] ELSE local[c]
    BY <1>1, MergedPage DEF Apply
  <2>3. CASE c \in Brought
    <3>1. c \notin dirty /\ c \notin pass.stale
      BY <1>1, <2>3 DEF Apply
    <3>2. QED
      BY <2>1, <2>2, <2>3, <3>1 DEF PageCurrent
  <2>4. CASE c \notin Brought
    <3>1. c \notin Held /\ c \notin doubt
      BY <1>1, <2>1, <2>4 DEF Apply, Held, Marked
    <3>2. QED
      BY <2>1, <2>2, <2>4, <3>1 DEF FlagsAgree
  <2>5. QED
    BY <2>3, <2>4
<1>2. CASE Crash
  <2>1. /\ c \notin owed /\ c \notin doubt /\ c \notin Marked /\ c \notin Lost
        /\ local' = file /\ server' = server
    BY <1>2 DEF Crash, Reset
  <2>2. c \notin Held /\ file[c] = local[c]
    BY <2>1 DEF Lost, Held
  <2>3. QED
    BY <2>1, <2>2 DEF FlagsAgree
<1>3. ASSUME NEW s \in Sessions, Push(s), c \in store[s].done
      PROVE  local'[c] = server'[c]
  BY <1>3, PushSettles
<1>4. CASE ~Settles(c) /\ ~Apply /\ ~Crash
  <2>1. c \notin doubt /\ c \notin Held
    BY <1>4, DoubtEnds, LettingGo DEF Next
  <2>2. c \notin owed
    <3>0. CASE \E s \in Sessions : Push(s)
      <4>1. PICK s \in Sessions : Push(s)
        BY <3>0
      <4>2. c \notin store[s].done
        BY <2>1 DEF Held, Marked
      <4>3. QED
        BY <4>1, <4>2 DEF Push
    <3>1. CASE PullPage
      <4>1. PICK D \in SUBSET owed : Pulls(D)
        BY <3>1, PullsPage
      <4>2. Brought' = D \cup Brought
        BY <4>1, PulledPage
      <4>3. owed' = owed \ D
        BY <4>1 DEF Pulls
      <4>4. QED
        BY <4>2, <4>3 DEF Held
    <3>2. CASE ~PullPage /\ ~ \E s \in Sessions : Push(s)
      BY <3>2, OwedStays DEF Next
    <3>3. QED
      BY <3>0, <3>1, <3>2
  <2>3. local[c] = server[c]
    BY <2>1, <2>2 DEF FlagsAgree
  <2>4. \A s \in Sessions : c \notin store[s].done
    BY <2>1 DEF Held, Marked
  <2>5. server'[c] = server[c]
    BY <2>4, ServerMoves DEF Next
  <2>6. local'[c] = local[c]
    BY <1>4, LocalMoves, MarkedAreHeld DEF Next
  <2>7. QED
    BY <2>3, <2>5, <2>6
<1>5. QED
  BY <1>1, <1>2, <1>3, <1>4 DEF Settles

-----------------------------------------------------------------------------
LEMMA FlagInit ==
    ASSUME Init
    PROVE  FlagInv
<1>1. TypeOK
  BY BoundsAssumption, EmptyPage, NoStoreShape
  DEF Init, TypeOK, NoPass, Passes, Budgets
<1>2. IdleIsEmpty /\ Brought = {} /\ Marked = {}
  BY EmptyPage DEF Init, NoPass, NoStore, IdleIsEmpty, Brought, Marked
<1>3. ContentionKnown
  BY <1>2 DEF Init, NoStore, ContentionKnown, Contended
<1>4. PageCurrent /\ MarksStand
  BY <1>2 DEF Init, NoStore, PageCurrent, MarksStand
<1>5. FileFollows /\ FlagsAgree
  BY DEF Init, FileFollows, FlagsAgree
<1>6. QED
  BY <1>1, <1>2, <1>3, <1>4, <1>5 DEF FlagInv

LEMMA FlagStep ==
    ASSUME FlagInv, [Next]_vars
    PROVE  FlagInv'
<1>1. CASE Next
  <2>1. TypeOK'
    BY <1>1, Types DEF FlagInv
  <2>2. IdleIsEmpty'
    BY <1>1, IdleStep DEF FlagInv, Next
  <2>3. ContentionKnown'
    BY <1>1, <2>1, ContentionStep DEF Next
  <2>4. PageCurrent' /\ MarksStand'
    BY <1>1, <2>1, PageStep, MarksStep
  <2>5. FileFollows' /\ FlagsAgree'
    BY <1>1, <2>1, FileStep, AgreeStep
  <2>6. QED
    BY <2>1, <2>2, <2>3, <2>4, <2>5 DEF FlagInv
<1>2. CASE UNCHANGED vars
  BY <1>2
  DEF vars, FlagInv, TypeOK, IdleIsEmpty, ContentionKnown, PageCurrent, MarksStand,
      FileFollows, FlagsAgree, Brought, Page, Marked, Held, Contended
<1>3. QED
  BY <1>1, <1>2

(* Every variable has its type: the values of the flags, the page of the   *)
(* pass (syncMailOnce's added and changed) and the STOREs in progress.     *)
THEOREM FlagTypes == Spec => []TypeOK
<1>1. FlagInv => TypeOK
  BY DEF FlagInv
<1>2. QED
  BY <1>1, FlagInit, FlagStep, PTL DEF Spec

(* A flag nobody is working on and the server owes nothing about is the    *)
(* server's, or a STORE that did not succeed, a contention or a report the *)
(* key has passed unread left it in doubt (applyFlagMutations,             *)
(* pushEmailChanges, syncMailOnce's merge).                                *)
THEOREM FlagsStayTogether == Spec => []FlagsAgree
<1>1. FlagInv => FlagsAgree
  BY DEF FlagInv
<1>2. QED
  BY <1>1, FlagInit, FlagStep, PTL DEF Spec

(* The shard file has every flag that memory has, but for those changed    *)
(* while it could not be written (markRead, setFlagged and mutateFolder    *)
(* save under s.mu).                                                       *)
THEOREM FlagsAreSaved == Spec => []FileFollows
<1>1. FlagInv => FileFollows
  BY DEF FlagInv
<1>2. QED
  BY <1>1, FlagInit, FlagStep, PTL DEF Spec
=============================================================================
