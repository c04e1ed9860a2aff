--------------------------- MODULE ImapSessionProofs ---------------------------
(***************************************************************************)
(* Proofs about ImapSession, for any sessions, messages, length of the     *)
(* channels and faults: what a command has moved on the server is in the   *)
(* list of the destination, or the command is still to put it there, or    *)
(* never could; the types; a client's numbering stays its session's; what  *)
(* is refused stays listed; a notification that is read tells the client   *)
(* all there is.  Lists are built by recursion over their positions:       *)
(* NatSets is the induction for it.                                        *)
(***************************************************************************)
EXTENDS ImapSession, NaturalsInduction, FiniteSetTheorems, SequenceTheorems, TLAPS

(* sess is a function to records, where one to states; what snapshots and  *)
(* views hold does not matter here.                                        *)
Fields == {"at", "snap", "cmd", "ids", "got"}

Shape ==
    /\ sess = [s \in Sessions |-> sess[s]]
    /\ \A s \in Sessions : sess[s] = [x \in Fields |-> sess[s][x]]

MoveInv ==
    /\ Shape
    /\ where = [m \in Msgs |-> where[m]]
    /\ MovedIsListed

(* Only s has taken a step.                                                *)
OnlyMoves(s) == Shape' /\ \A t \in Sessions \ {s} : sess'[t] = sess[t]

-----------------------------------------------------------------------------
(* Nothing has been moved and no list is touched.                          *)
LEMMA SessionMoves ==
    ASSUME MoveInv, NEW s \in Sessions, OnlyMoves(s), UNCHANGED <<where, Trash, unheard>>,
           sess[s].at \notin {"moved", "removed"} \/ sess'[s] = sess[s]
    PROVE  MoveInv'
<1>1. ASSUME NEW m \in Msgs, where[m] = "trash", m \notin Trash \cup unheard
      PROVE  \E t \in Sessions : sess'[t].at \in {"moved", "removed"} /\ m \in sess'[t].got
  <2>1. PICK t \in Sessions : sess[t].at \in {"moved", "removed"} /\ m \in sess[t].got
    BY <1>1 DEF MoveInv, MovedIsListed
  <2>2. sess'[t] = sess[t]
    BY <2>1 DEF OnlyMoves
  <2>3. QED
    BY <2>1, <2>2
<1>2. QED
  BY <1>1 DEF MoveInv, MovedIsListed, OnlyMoves

(* The session keeps its state, or leaves it with fresh fields.            *)
LEMMA RefreshedMoves ==
    ASSUME MoveInv, NEW s \in Sessions, NEW at,
           sess' = [sess EXCEPT ![s] = Refreshed(s, at)]
    PROVE  OnlyMoves(s)
  BY DEF MoveInv, Shape, Fields, Refreshed, OnlyMoves

(* Mail arrives, vanishes elsewhere, is moved back, is synced, and the     *)
(* poller tells of it.                                                     *)
LEMMA OutsideSteps ==
    ASSUME MoveInv,
           \/ \E m \in Msgs : Arrive(m) \/ Vanish(m) \/ Returns(m) \/ SyncAdds(m) \/ SyncDrops(m)
           \/ SyncChanges \/ PollerTells
    PROVE  MoveInv'
<1>1. ASSUME NEW m \in Msgs, Arrive(m) \/ Vanish(m) \/ Returns(m) PROVE MoveInv'
  <2>1. sess' = sess
    BY <1>1 DEF Arrive, Vanish, Returns
  <2>2. where' = [n \in Msgs |-> where'[n]]
        /\ \A n \in Msgs : where'[n] = "trash" => where[n] = "trash" /\ (Returns(m) => n # m)
    BY <1>1 DEF Arrive, Vanish, Returns, MoveInv
  <2>3. \A n \in Msgs : n \in Trash \cup unheard => n \in Trash' \cup unheard' \/ (Returns(m) /\ n = m)
    BY <1>1 DEF Arrive, Vanish, Returns, history
  <2>4. QED
    BY <2>1, <2>2, <2>3 DEF MoveInv, MovedIsListed, Shape
<1>2. CASE (\E m \in Msgs : SyncAdds(m) \/ SyncDrops(m)) \/ SyncChanges \/ PollerTells
  <2>1. UNCHANGED <<sess, where, Trash, unheard>>
    BY <1>2 DEF SyncAdds, SyncDrops, SyncChanges, PollerTells, store, history
  <2>2. QED
    BY <2>1 DEF MoveInv, MovedIsListed, Shape
<1>3. QED
  BY <1>1, <1>2

-----------------------------------------------------------------------------
(* Commands that move nothing.                                             *)
LEMMA ReadingSteps ==
    ASSUME MoveInv, NEW s \in Sessions,
           \/ Poll(s) \/ IdleReads(s) \/ Select(s) \/ Unselect(s)
           \/ Noop(s) \/ Idle(s) \/ IdleStops(s)
    PROVE  MoveInv'
<1>1. CASE Poll(s) \/ IdleReads(s) \/ Select(s)
  <2>1. PICK at : sess' = [sess EXCEPT ![s] = Refreshed(s, at)]
    BY <1>1 DEF Poll, IdleReads, Select
  <2>2. sess[s].at \notin {"moved", "removed"} /\ UNCHANGED <<where, Trash, unheard>>
    BY <1>1 DEF Poll, IdleReads, Select, store
  <2>3. QED
    BY <2>1, <2>2, RefreshedMoves, SessionMoves
<1>2. CASE Unselect(s)
  <2>1. OnlyMoves(s)
    BY <1>2 DEF Unselect, Closed, MoveInv, Shape, Fields, OnlyMoves
  <2>2. QED
    BY <1>2, <2>1, SessionMoves DEF Unselect, store
<1>3. CASE Noop(s) \/ Idle(s) \/ IdleStops(s)
  <2>1. PICK at : sess' = [sess EXCEPT ![s].at = at]
    BY <1>3 DEF Noop, Idle, IdleStops
  <2>2. OnlyMoves(s)
    BY <2>1 DEF MoveInv, Shape, Fields, OnlyMoves
  <2>3. sess[s].at \notin {"moved", "removed"} /\ UNCHANGED <<where, Trash, unheard>>
    BY <1>3 DEF Noop, Idle, IdleStops, store, history
  <2>4. QED
    BY <2>2, <2>3, SessionMoves
<1>4. QED
  BY <1>1, <1>2, <1>3

(* EXPUNGE and COPY up to their request.                                   *)
LEMMA StartMoveStep ==
    ASSUME MoveInv, NEW s \in Sessions, NEW cmd, NEW ids, StartMove(s, cmd, ids)
    PROVE  MoveInv'
<1>1. OnlyMoves(s)
  BY DEF StartMove, MoveInv, Shape, Fields, OnlyMoves
<1>2. sess[s].at = "ready" /\ UNCHANGED <<where, Trash, unheard>>
  BY DEF StartMove, store, history
<1>3. QED
  BY <1>1, <1>2, SessionMoves

(* The answer: what has gone to the trash is what the session now holds,   *)
(* if it hears of it.                                                      *)
LEMMA MoveAnswerStep ==
    ASSUME MoveInv, NEW s \in Sessions, MoveAnswer(s)
    PROVE  MoveInv'
<1>0. PICK got : \E heard \in BOOLEAN :
         /\ where' = [m \in Msgs |-> IF m \in got THEN "trash" ELSE where[m]]
         /\ IF got = {} \/ ~heard THEN Fails(s)
            ELSE sess' = [sess EXCEPT ![s].at = "moved", ![s].got = got]
         /\ unheard' = IF heard THEN unheard ELSE unheard \cup got
  BY DEF MoveAnswer, Saves
<1>1. PICK heard \in BOOLEAN :
         /\ where' = [m \in Msgs |-> IF m \in got THEN "trash" ELSE where[m]]
         /\ IF got = {} \/ ~heard THEN Fails(s)
            ELSE sess' = [sess EXCEPT ![s].at = "moved", ![s].got = got]
         /\ unheard' = IF heard THEN unheard ELSE unheard \cup got
  BY <1>0
<1>2. Shape' /\ \A t \in Sessions \ {s} : sess'[t] = sess[t]
  BY <1>1 DEF MoveInv, Shape, Fails, Fields
<1>3. heard /\ got # {} => sess'[s].at = "moved" /\ sess'[s].got = got
  BY <1>1 DEF MoveInv, Shape, Fields
<1>4. sess[s].at = "moving" /\ Trash' = Trash
  BY DEF MoveAnswer
<1>5. unheard \subseteq unheard' /\ (~heard => got \subseteq unheard')
  BY <1>1
<1>6. ASSUME NEW m \in Msgs, where'[m] = "trash", m \notin Trash' \cup unheard'
      PROVE  \E t \in Sessions : sess'[t].at \in {"moved", "removed"} /\ m \in sess'[t].got
  <2>1. CASE m \in got
    BY <1>3, <1>5, <1>6, <2>1
  <2>2. CASE m \notin got
    <3>1. where[m] = "trash"
      BY <1>1, <1>6, <2>2
    <3>2. PICK t \in Sessions : sess[t].at \in {"moved", "removed"} /\ m \in sess[t].got
      BY <1>4, <1>5, <1>6, <3>1 DEF MoveInv, MovedIsListed
    <3>3. QED
      BY <1>2, <1>4, <3>2
  <2>3. QED
    BY <2>1, <2>2
<1>7. where' = [m \in Msgs |-> where'[m]]
  BY <1>1
<1>8. QED
  BY <1>2, <1>6, <1>7 DEF MoveInv, MovedIsListed

(* removeItems: the session holds on to what it has moved, unless the      *)
(* write ends the command.                                                 *)
LEMMA RemoveMovedStep ==
    ASSUME MoveInv, NEW s \in Sessions, RemoveMoved(s)
    PROVE  MoveInv'
<1>1. PICK saved \in BOOLEAN :
         /\ IF saved THEN sess' = [sess EXCEPT ![s].at = "removed"] ELSE Fails(s)
         /\ unheard' = IF saved THEN unheard ELSE unheard \cup sess[s].got
  BY DEF RemoveMoved, Saves
<1>2. UNCHANGED <<where, Trash>>
  BY DEF RemoveMoved
<1>3. OnlyMoves(s) /\ (saved => sess'[s].at = "removed" /\ sess'[s].got = sess[s].got)
  BY <1>1 DEF Fails, MoveInv, Shape, Fields, OnlyMoves
<1>4. ASSUME NEW m \in Msgs, where[m] = "trash", m \notin Trash \cup unheard'
      PROVE  \E t \in Sessions : sess'[t].at \in {"moved", "removed"} /\ m \in sess'[t].got
  <2>1. m \notin unheard /\ (saved \/ m \notin sess[s].got)
    BY <1>1, <1>4
  <2>2. PICK t \in Sessions : sess[t].at \in {"moved", "removed"} /\ m \in sess[t].got
    BY <1>4, <2>1 DEF MoveInv, MovedIsListed
  <2>3. QED
    BY <1>3, <2>1, <2>2 DEF OnlyMoves
<1>5. QED
  BY <1>2, <1>3, <1>4 DEF MoveInv, MovedIsListed, OnlyMoves

(* addMovedItems: memory has them even if the write fails.                 *)
LEMMA AddMovedStep ==
    ASSUME MoveInv, NEW s \in Sessions, AddMoved(s)
    PROVE  MoveInv'
<1>1. Trash' = Trash \cup sess[s].got /\ where' = where /\ unheard' = unheard
  BY DEF AddMoved
<1>2. Fails(s) \/ sess' = [sess EXCEPT ![s].at = "added"]
  BY DEF AddMoved
<1>3. OnlyMoves(s)
  BY <1>2 DEF Fails, MoveInv, Shape, Fields, OnlyMoves
<1>4. ASSUME NEW m \in Msgs, where[m] = "trash", m \notin Trash' \cup unheard
      PROVE  \E t \in Sessions : sess'[t].at \in {"moved", "removed"} /\ m \in sess'[t].got
  <2>1. PICK t \in Sessions : sess[t].at \in {"moved", "removed"} /\ m \in sess[t].got
    BY <1>1, <1>4 DEF MoveInv, MovedIsListed
  <2>2. t # s
    BY <1>1, <1>4, <2>1
  <2>3. QED
    BY <1>3, <2>1, <2>2 DEF OnlyMoves
<1>5. QED
  BY <1>1, <1>3, <1>4 DEF MoveInv, MovedIsListed, OnlyMoves

(* The end of the command: what it held is in the list by now.             *)
LEMMA FinishStep ==
    ASSUME MoveInv, NEW s \in Sessions, Finish(s)
    PROVE  MoveInv'
<1>1. PICK at : sess' = [sess EXCEPT ![s] = Refreshed(s, at)]
  BY DEF Finish
<1>2. sess[s].at = "added" /\ UNCHANGED <<where, Trash, unheard>>
  BY DEF Finish, store
<1>3. QED
  BY <1>1, <1>2, RefreshedMoves, SessionMoves

-----------------------------------------------------------------------------
(* imapd.go 693-700, 786-792: what this device has moved is in the list of *)
(* its destination, or a command is still to put it there, whatever other  *)
(* sessions, syncs, other devices and refusals come between; the exception *)
(* is a command that never heard that it was moved, or could not save that *)
(* it is gone.                                                             *)
THEOREM MovedMailIsListed == Spec => []MovedIsListed
<1>1. Init => MoveInv
  BY DEF Init, MoveInv, MovedIsListed, Shape, Closed, Fields
<1>2. MoveInv /\ [Next]_vars => MoveInv'
  <2> SUFFICES ASSUME MoveInv, [Next]_vars PROVE MoveInv'
    OBVIOUS
  <2>1. CASE UNCHANGED vars
    BY <2>1 DEF vars, store, history, MoveInv, MovedIsListed, Shape
  <2>2. ASSUME NEW s \in Sessions, Server(s) PROVE MoveInv'
    BY <2>2, ReadingSteps, MoveAnswerStep, RemoveMovedStep, AddMovedStep, FinishStep DEF Server
  <2>3. ASSUME NEW s \in Sessions, NEW ids \in SUBSET Msgs, Expunge(s, ids) \/ Copy(s, ids)
        PROVE  MoveInv'
    BY <2>3, StartMoveStep DEF Expunge, Copy
  <2>4. QED
    BY <2>1, <2>2, <2>3, OutsideSteps, ReadingSteps DEF Next
<1>3. QED
  BY <1>1, <1>2, PTL DEF Spec, MoveInv

-----------------------------------------------------------------------------
(* Induction, and what a recursion computes.                               *)

(* A set of numbers that has 0 and the successor of each is all of them:   *)
(* induction, with a set where the library's theorem has an operator.      *)
LEMMA NatSets ==
    ASSUME NEW S \in SUBSET Nat, 0 \in S, \A n \in S : n + 1 \in S
    PROVE  S = Nat
<1> SUFFICES ASSUME Nat \ S # {} PROVE FALSE
  OBVIOUS
<1>1. PICK x \in Nat \ S : \A y \in Nat \ S : ~(<<y, x>> \in OpToRel(<, Nat))
  BY NatLessThanWellFounded, WFMin
<1>2. x # 0 /\ x - 1 \in Nat
  OBVIOUS
<1>3. x - 1 \notin S
  BY <1>2
<1>4. <<x - 1, x>> \in OpToRel(<, Nat)
  BY <1>2 DEF OpToRel
<1>5. QED
  BY <1>1, <1>2, <1>3, <1>4

(* What a recursion over 1 .. N computes exists.                           *)
Computes(f, N, base, step) ==
    f[0] = base /\ \A n \in 1 .. N : f[n] = step[<<n, f[n - 1]>>]

LEMMA RecursionExists ==
    ASSUME NEW S, NEW base \in S, NEW N \in Nat, NEW step,
           \A n \in 1 .. N : \A x \in S : step[<<n, x>>] \in S
    PROVE  \E f \in [0 .. N -> S] : Computes(f, N, base, step)
<1> DEFINE P == {n \in Nat : n <= N => \E f \in [0 .. n -> S] : Computes(f, n, base, step)}
<1>1. 0 \in P
  <2>1. [i \in 0 .. 0 |-> base] \in [0 .. 0 -> S]
    OBVIOUS
  <2>2. Computes([i \in 0 .. 0 |-> base], 0, base, step)
    BY DEF Computes
  <2>3. QED
    BY <2>1, <2>2
<1>2. ASSUME NEW n \in P PROVE n + 1 \in P
  <2> SUFFICES ASSUME n + 1 <= N
               PROVE  \E f \in [0 .. n + 1 -> S] : Computes(f, n + 1, base, step)
    BY <1>2
  <2>1. PICK f \in [0 .. n -> S] : Computes(f, n, base, step)
    BY <1>2
  <2> DEFINE g == [i \in 0 .. n + 1 |-> IF i = n + 1 THEN step[<<n + 1, f[n]>>] ELSE f[i]]
  <2>2. n \in Nat /\ n + 1 \in 1 .. N /\ f[n] \in S
    BY <1>2, <2>1
  <2>3. g \in [0 .. n + 1 -> S]
    BY <2>1, <2>2
  <2>4. g[0] = base /\ g[n + 1] = step[<<n + 1, g[n]>>]
    BY <2>1, <2>2 DEF Computes
  <2>5. ASSUME NEW i \in 1 .. n PROVE g[i] = step[<<i, g[i - 1]>>]
    <3>1. f[i] = step[<<i, f[i - 1]>>]
      BY <2>1 DEF Computes
    <3>2. g[i] = f[i] /\ g[i - 1] = f[i - 1]
      BY <2>2
    <3>3. QED
      BY <3>1, <3>2
  <2> HIDE DEF g
  <2>6. \A i \in 1 .. n + 1 : i = n + 1 \/ i \in 1 .. n
    BY <2>2
  <2>7. Computes(g, n + 1, base, step)
    BY <2>2, <2>4, <2>5, <2>6 DEF Computes
  <2>8. QED
    BY <2>3, <2>7
<1> HIDE DEF P
<1>3. P = Nat
  <2>1. P \in SUBSET Nat
    BY DEF P
  <2>2. QED
    BY <1>1, <1>2, <2>1, NatSets
<1>4. QED
  BY <1>3 DEF P

-----------------------------------------------------------------------------
(* Kept and Told satisfy the equations that define them.                   *)
KeptEq(f, list, gone) ==
    f = [n \in 0 .. Len(list) |->
           IF n = 0 THEN <<>>
           ELSE IF list[n] \in gone THEN f[n - 1] ELSE Append(f[n - 1], list[n])]

ToldEq(f, list, snap, gone) ==
    f = [n \in 0 .. Len(snap) |->
           IF n = 0 THEN list
           ELSE IF snap[n] \in gone /\ n \in DOMAIN f[n - 1]
                THEN RemoveAt(f[n - 1], n) ELSE f[n - 1]]

LEMMA KeptIs ==
    ASSUME NEW list \in Seq(Msgs), NEW gone
    PROVE  KeptEq(Kept(list, gone), list, gone)
<1> DEFINE S == Seq(Msgs)
           N == Len(list)
           step == [p \in (1 .. N) \X S |->
                      IF list[p[1]] \in gone THEN p[2] ELSE Append(p[2], list[p[1]])]
<1>1. \A n \in 1 .. N : list[n] \in Msgs
  OBVIOUS
<1>2. \A n \in 1 .. N : \A x \in S :
         step[<<n, x>>] = IF list[n] \in gone THEN x ELSE Append(x, list[n])
  OBVIOUS
<1>3. \A n \in 1 .. N : \A x \in S : step[<<n, x>>] \in S
  <2>1. \A n \in 1 .. N : \A x \in S : Append(x, list[n]) \in S
    BY <1>1
  <2>2. QED
    BY <1>2, <2>1
<1>4. <<>> \in S /\ N \in Nat
  OBVIOUS
<1> HIDE DEF step
<1>5. PICK k \in [0 .. N -> S] : Computes(k, N, <<>>, step)
  BY <1>3, <1>4, RecursionExists
<1>6. KeptEq(k, list, gone)
  <2>1. ASSUME NEW n \in 0 .. N
        PROVE  k[n] = IF n = 0 THEN <<>>
                      ELSE IF list[n] \in gone THEN k[n - 1] ELSE Append(k[n - 1], list[n])
    <3>1. CASE n = 0
      BY <1>5, <3>1 DEF Computes
    <3>2. CASE n # 0
      <4>1. n \in 1 .. N /\ k[n - 1] \in S
        BY <1>4, <1>5, <3>2
      <4>2. k[n] = step[<<n, k[n - 1]>>]
        BY <1>5, <4>1 DEF Computes
      <4>3. QED
        BY <1>2, <3>2, <4>1, <4>2
    <3>3. QED
      BY <3>1, <3>2
  <2>2. QED
    BY <1>5, <2>1 DEF KeptEq
<1>7. Kept(list, gone) = CHOOSE f : KeptEq(f, list, gone)
  BY DEF Kept, KeptEq
<1>8. QED
  BY <1>6, <1>7

LEMMA ToldIs ==
    ASSUME NEW list \in Seq(Msgs), NEW snap \in Seq(Msgs), NEW gone
    PROVE  ToldEq(Told(list, snap, gone), list, snap, gone)
<1> DEFINE S == Seq(Msgs)
           N == Len(snap)
           step == [p \in (1 .. N) \X S |->
                      IF snap[p[1]] \in gone /\ p[1] \in DOMAIN p[2]
                      THEN RemoveAt(p[2], p[1]) ELSE p[2]]
<1>1. \A n \in 1 .. N : \A x \in S :
         step[<<n, x>>] = IF snap[n] \in gone /\ n \in DOMAIN x THEN RemoveAt(x, n) ELSE x
  OBVIOUS
<1>2. \A n \in 1 .. N : \A x \in S : n \in DOMAIN x => RemoveAt(x, n) \in S
  BY DEF RemoveAt
<1>3. \A n \in 1 .. N : \A x \in S : step[<<n, x>>] \in S
  BY <1>1, <1>2
<1>4. N \in Nat
  OBVIOUS
<1> HIDE DEF step
<1>5. PICK k \in [0 .. N -> S] : Computes(k, N, list, step)
  BY <1>3, <1>4, RecursionExists
<1>6. ToldEq(k, list, snap, gone)
  <2>1. ASSUME NEW n \in 0 .. N
        PROVE  k[n] = IF n = 0 THEN list
                      ELSE IF snap[n] \in gone /\ n \in DOMAIN k[n - 1]
                           THEN RemoveAt(k[n - 1], n) ELSE k[n - 1]
    <3>1. CASE n = 0
      BY <1>5, <3>1 DEF Computes
    <3>2. CASE n # 0
      <4>1. n \in 1 .. N /\ k[n - 1] \in S
        BY <1>4, <1>5, <3>2
      <4>2. k[n] = step[<<n, k[n - 1]>>]
        BY <1>5, <4>1 DEF Computes
      <4>3. QED
        BY <1>1, <3>2, <4>1, <4>2
    <3>3. QED
      BY <3>1, <3>2
  <2>2. QED
    BY <1>5, <2>1 DEF ToldEq
<1>7. Told(list, snap, gone) = CHOOSE f : ToldEq(f, list, snap, gone)
  BY DEF Told, ToldEq
<1>8. QED
  BY <1>6, <1>7

-----------------------------------------------------------------------------
(* What is left of a list: each of its messages that is not gone, once.    *)
KeptUpTo(k, n, list, gone) ==
    /\ k \in Seq(Msgs)
    /\ \A j \in 1 .. Len(k) : \E i \in 1 .. n : k[j] = list[i] /\ list[i] \notin gone
    /\ \A i \in 1 .. n : list[i] \notin gone => \E j \in 1 .. Len(k) : k[j] = list[i]
    /\ \A i, j \in 1 .. Len(k) : k[i] = k[j] => i = j

LEMMA WithoutIs ==
    ASSUME NEW list \in Seq(Msgs), IsInjective(list), NEW gone
    PROVE  /\ Without(list, gone) \in Seq(Msgs)
           /\ IsInjective(Without(list, gone))
           /\ ToSet(Without(list, gone)) = ToSet(list) \ gone
<1> DEFINE N == Len(list)
           k == Kept(list, gone)
           P == {n \in Nat : n <= N => KeptUpTo(k[n], n, list, gone)}
<1>1. \A n \in 0 .. N :
         k[n] = IF n = 0 THEN <<>>
                ELSE IF list[n] \in gone THEN k[n - 1] ELSE Append(k[n - 1], list[n])
  <2>1. KeptEq(k, list, gone)
    BY KeptIs
  <2> HIDE DEF k
  <2>2. QED
    BY <2>1 DEF KeptEq
<1>2. N \in Nat /\ DOMAIN list = 1 .. N /\ \A i \in 1 .. N : list[i] \in Msgs
  OBVIOUS
<1>3. \A i, j \in 1 .. N : list[i] = list[j] => i = j
  BY <1>2 DEF IsInjective
<1> HIDE DEF k, N
<1>4. 0 \in P
  <2>1. k[0] = <<>> /\ <<>> \in Seq(Msgs) /\ Len(<<>>) = 0 /\ 1 .. 0 = {}
    BY <1>1, <1>2
  <2>2. QED
    BY <2>1 DEF KeptUpTo
<1>5. ASSUME NEW n \in P PROVE n + 1 \in P
  <2> SUFFICES ASSUME n + 1 <= N PROVE KeptUpTo(k[n + 1], n + 1, list, gone)
    BY <1>5
  <2>1. n \in Nat /\ n + 1 \in 1 .. N /\ KeptUpTo(k[n], n, list, gone)
    BY <1>2, <1>5
  <2>2. k[n + 1] = IF list[n + 1] \in gone THEN k[n] ELSE Append(k[n], list[n + 1])
    BY <1>1, <2>1
  <2> DEFINE old == k[n]
             new == k[n + 1]
             last == list[n + 1]
  <2>3. \A i \in 1 .. n + 1 : i \in 1 .. n \/ i = n + 1
    BY <2>1
  <2>4. 1 .. n \subseteq 1 .. n + 1
    BY <2>1
  <2> HIDE DEF old, new, last
  <2>5. CASE last \in gone
    <3>1. new = old
      BY <2>2, <2>5 DEF old, new, last
    <3>2. QED
      BY <2>1, <2>3, <2>4, <2>5, <3>1 DEF KeptUpTo, old, new, last
  <2>6. CASE last \notin gone
    <3>1. new = Append(old, last) /\ old \in Seq(Msgs) /\ last \in Msgs
      BY <1>2, <2>1, <2>2, <2>6 DEF old, new, last, KeptUpTo
    <3>2. /\ new \in Seq(Msgs) /\ Len(new) = Len(old) + 1 /\ Len(old) \in Nat
          /\ \A j \in 1 .. Len(old) : new[j] = old[j]
          /\ new[Len(old) + 1] = last
      BY <3>1
    <3>3. \A j \in 1 .. Len(new) : j \in 1 .. Len(old) \/ j = Len(old) + 1
      BY <3>2
    <3>4. 1 .. Len(old) \subseteq 1 .. Len(new) /\ Len(old) + 1 \in 1 .. Len(new)
      BY <3>2
    <3>5. \A j \in 1 .. Len(old) : \E i \in 1 .. n : old[j] = list[i] /\ list[i] \notin gone
      BY <2>1 DEF KeptUpTo, old
    <3>6. \A j \in 1 .. Len(old) : old[j] # last
      <4>1. SUFFICES ASSUME NEW j \in 1 .. Len(old), old[j] = last PROVE FALSE
        OBVIOUS
      <4>2. PICK i \in 1 .. n : old[j] = list[i]
        BY <3>5
      <4>5. i \in 1 .. N
        BY <1>2, <2>1
      <4>3. i = n + 1
        BY <1>3, <2>1, <2>4, <4>1, <4>2, <4>5 DEF last
      <4>4. QED
        BY <2>1, <4>3
    <3>7. \A j \in 1 .. Len(new) : \E i \in 1 .. n + 1 : new[j] = list[i] /\ list[i] \notin gone
      <4>1. ASSUME NEW j \in 1 .. Len(old)
            PROVE  \E i \in 1 .. n + 1 : new[j] = list[i] /\ list[i] \notin gone
        BY <2>4, <3>2, <3>5
      <4>2. \E i \in 1 .. n + 1 : new[Len(old) + 1] = list[i] /\ list[i] \notin gone
        <5>1. n + 1 \in 1 .. n + 1
          BY <2>1
        <5>2. QED
          BY <2>6, <3>2, <5>1 DEF last
      <4>3. QED
        BY <3>3, <4>1, <4>2
    <3>8. \A i \in 1 .. n + 1 : list[i] \notin gone => \E j \in 1 .. Len(new) : new[j] = list[i]
      <4>1. \A i \in 1 .. n : list[i] \notin gone => \E j \in 1 .. Len(old) : old[j] = list[i]
        BY <2>1 DEF KeptUpTo, old
      <4>2. QED
        BY <2>3, <3>2, <3>4, <4>1 DEF last
    <3>9. \A i, j \in 1 .. Len(old) : old[i] = old[j] => i = j
      BY <2>1 DEF KeptUpTo, old
    <3>10. \A i, j \in 1 .. Len(new) : new[i] = new[j] => i = j
      BY <3>2, <3>3, <3>6, <3>9
    <3>11. QED
      BY <3>2, <3>7, <3>8, <3>10 DEF KeptUpTo, new
  <2>7. QED
    BY <2>5, <2>6
<1>6. P = Nat
  <2>1. P \in SUBSET Nat
    OBVIOUS
  <2> HIDE DEF P
  <2>2. QED
    BY <1>4, <1>5, <2>1, NatSets
<1>7. KeptUpTo(k[N], N, list, gone)
  BY <1>2, <1>6
<1>8. Without(list, gone) = k[N]
  BY DEF Without, k, N
<1> DEFINE w == k[N]
<1>9. w \in Seq(Msgs) /\ DOMAIN w = 1 .. Len(w)
  BY <1>7 DEF KeptUpTo
<1> HIDE DEF w
<1>10. IsInjective(w)
  BY <1>7, <1>9 DEF KeptUpTo, IsInjective, w
<1>11. ToSet(w) = ToSet(list) \ gone
  <2>1. ToSet(w) = {w[j] : j \in 1 .. Len(w)} /\ ToSet(list) = {list[i] : i \in 1 .. N}
    BY <1>2, <1>9 DEF ToSet
  <2>2. KeptUpTo(w, N, list, gone)
    BY <1>7 DEF w
  <2>3. \A j \in 1 .. Len(w) : w[j] \in ToSet(list) \ gone
    BY <2>1, <2>2 DEF KeptUpTo
  <2>4. \A i \in 1 .. N : list[i] \notin gone => list[i] \in ToSet(w)
    BY <2>1, <2>2 DEF KeptUpTo
  <2>5. QED
    BY <2>1, <2>3, <2>4
<1>12. QED
  BY <1>8, <1>9, <1>10, <1>11 DEF w

LEMMA RemoveAtIs ==
    ASSUME NEW list \in Seq(Msgs), NEW p \in 1 .. Len(list)
    PROVE  /\ RemoveAt(list, p) \in Seq(Msgs) /\ Len(RemoveAt(list, p)) = Len(list) - 1
           /\ \A j \in 1 .. Len(list) - 1 :
                 RemoveAt(list, p)[j] = IF j < p THEN list[j] ELSE list[j + 1]
<1> DEFINE N == Len(list)
           a == SubSeq(list, 1, p - 1)
           b == SubSeq(list, p + 1, N)
<1>1. N \in Nat /\ p \in 1 .. N
  OBVIOUS
<1>2. a \in Seq(Msgs) /\ Len(a) = p - 1 /\ \A j \in 1 .. p - 1 : a[j] = list[j]
  BY <1>1
<1>3. b \in Seq(Msgs) /\ Len(b) = N - p /\ \A j \in 1 .. N - p : b[j] = list[p + j]
  BY <1>1
<1>4. RemoveAt(list, p) = a \o b
  BY DEF RemoveAt
<1> HIDE DEF a, b
<1>5. /\ a \o b \in Seq(Msgs) /\ Len(a \o b) = N - 1
      /\ \A j \in 1 .. N - 1 : (a \o b)[j] = IF j <= p - 1 THEN a[j] ELSE b[j - (p - 1)]
  <2>1. Len(a) + Len(b) = N - 1
    BY <1>1, <1>2, <1>3
  <2>2. /\ a \o b \in Seq(Msgs) /\ Len(a \o b) = Len(a) + Len(b)
        /\ \A j \in 1 .. Len(a) + Len(b) :
              (a \o b)[j] = IF j <= Len(a) THEN a[j] ELSE b[j - Len(a)]
    BY <1>2, <1>3, ConcatProperties
  <2>3. QED
    BY <1>2, <2>1, <2>2
<1>6. ASSUME NEW j \in 1 .. N - 1 PROVE (a \o b)[j] = IF j < p THEN list[j] ELSE list[j + 1]
  <2>1. CASE j < p
    BY <1>1, <1>2, <1>5, <2>1
  <2>2. CASE ~(j < p)
    <3>1. j - (p - 1) \in 1 .. N - p /\ p + (j - (p - 1)) = j + 1
      BY <1>1, <2>2
    <3>2. (a \o b)[j] = b[j - (p - 1)]
      BY <1>1, <1>5, <2>2
    <3>3. QED
      BY <1>3, <2>2, <3>1, <3>2
  <2>3. QED
    BY <2>1, <2>2
<1>7. QED
  BY <1>4, <1>5, <1>6

(* One message taken out at its position p.                                *)
LEMMA WithoutOne ==
    ASSUME NEW list \in Seq(Msgs), IsInjective(list), NEW p \in 1 .. Len(list)
    PROVE  Without(list, {list[p]}) = RemoveAt(list, p)
<1> DEFINE N == Len(list)
           k == Kept(list, {list[p]})
           H(n) == /\ k[n] \in Seq(Msgs)
                   /\ Len(k[n]) = IF n < p THEN n ELSE n - 1
                   /\ \A j \in 1 .. Len(k[n]) : k[n][j] = IF j < p THEN list[j] ELSE list[j + 1]
           P == {n \in Nat : n <= N => H(n)}
<1>1. \A n \in 0 .. N :
         k[n] = IF n = 0 THEN <<>>
                ELSE IF list[n] \in {list[p]} THEN k[n - 1] ELSE Append(k[n - 1], list[n])
  <2>1. KeptEq(k, list, {list[p]})
    BY KeptIs
  <2> HIDE DEF k
  <2>2. QED
    BY <2>1 DEF KeptEq
<1>2. N \in Nat /\ p \in 1 .. N /\ \A i \in 1 .. N : list[i] \in Msgs
  OBVIOUS
<1>3. \A i \in 1 .. N : list[i] = list[p] <=> i = p
  BY <1>2 DEF IsInjective
<1> HIDE DEF k
<1>4. 0 \in P
  <2>1. k[0] = <<>> /\ <<>> \in Seq(Msgs) /\ Len(<<>>) = 0 /\ 1 .. 0 = {}
    BY <1>1, <1>2
  <2>2. H(0)
    BY <1>2, <2>1
  <2>3. QED
    BY <2>2
<1>5. ASSUME NEW n \in P PROVE n + 1 \in P
  <2> SUFFICES ASSUME n + 1 <= N PROVE H(n + 1)
    BY <1>5
  <2>1. n \in Nat /\ n + 1 \in 1 .. N /\ H(n)
    BY <1>2, <1>5
  <2>2. k[n + 1] = IF n + 1 = p THEN k[n] ELSE Append(k[n], list[n + 1])
    BY <1>1, <1>3, <2>1
  <2>3. list[n + 1] \in Msgs
    BY <1>2, <2>1
  <2>4. CASE n + 1 = p
    BY <2>1, <2>2, <2>4
  <2>5. CASE n + 1 # p
    <3>1. k[n + 1] = Append(k[n], list[n + 1])
      BY <2>2, <2>5
    <3>2. /\ k[n + 1] \in Seq(Msgs) /\ Len(k[n + 1]) = Len(k[n]) + 1
          /\ \A j \in 1 .. Len(k[n]) : k[n + 1][j] = k[n][j]
          /\ k[n + 1][Len(k[n]) + 1] = list[n + 1]
      BY <2>1, <2>3, <3>1
    <3>3. Len(k[n + 1]) = IF n + 1 < p THEN n + 1 ELSE n
      BY <1>2, <2>1, <2>5, <3>2
    <3>4. ASSUME NEW j \in 1 .. Len(k[n + 1])
          PROVE  k[n + 1][j] = IF j < p THEN list[j] ELSE list[j + 1]
      <4>1. CASE j \in 1 .. Len(k[n])
        BY <2>1, <3>2, <4>1
      <4>2. CASE j = Len(k[n]) + 1
        BY <1>2, <2>1, <2>5, <3>2, <4>2
      <4>3. QED
        BY <2>1, <3>2, <4>1, <4>2
    <3>5. QED
      BY <3>2, <3>3, <3>4
  <2>6. QED
    BY <2>4, <2>5
<1>6. P = Nat
  <2>1. P \in SUBSET Nat
    OBVIOUS
  <2> HIDE DEF P
  <2>2. QED
    BY <1>4, <1>5, <2>1, NatSets
<1>7. H(N)
  BY <1>2, <1>6
<1>8. Without(list, {list[p]}) = k[N]
  BY DEF Without, k
<1>9. /\ RemoveAt(list, p) \in Seq(Msgs) /\ Len(RemoveAt(list, p)) = N - 1
      /\ \A j \in 1 .. N - 1 : RemoveAt(list, p)[j] = IF j < p THEN list[j] ELSE list[j + 1]
  BY RemoveAtIs
<1>10. k[N] = RemoveAt(list, p)
  <2>1. Len(k[N]) = N - 1
    BY <1>2, <1>7
  <2>2. QED
    BY <1>7, <1>9, <2>1, SeqEqual
<1>11. QED
  BY <1>8, <1>10

LEMMA WithoutNone ==
    ASSUME NEW list \in Seq(Msgs)
    PROVE  Without(list, {}) = list
<1> DEFINE N == Len(list)
           k == Kept(list, {})
           P == {n \in Nat : n <= N => k[n] = SubSeq(list, 1, n)}
<1>1. \A n \in 0 .. N : k[n] = IF n = 0 THEN <<>> ELSE Append(k[n - 1], list[n])
  <2>1. KeptEq(k, list, {})
    BY KeptIs
  <2> HIDE DEF k
  <2>2. QED
    BY <2>1 DEF KeptEq
<1>2. N \in Nat /\ \A i \in 1 .. N : list[i] \in Msgs
  OBVIOUS
<1> HIDE DEF k
<1>3. 0 \in P
  <2>1. k[0] = <<>> /\ SubSeq(list, 1, 0) = <<>>
    BY <1>1, <1>2
  <2>2. QED
    BY <2>1
<1>4. ASSUME NEW n \in P PROVE n + 1 \in P
  <2> SUFFICES ASSUME n + 1 <= N PROVE k[n + 1] = SubSeq(list, 1, n + 1)
    BY <1>4
  <2>1. n \in Nat /\ n + 1 \in 0 .. N /\ k[n] = SubSeq(list, 1, n)
    BY <1>2, <1>4
  <2>3. k[n + 1] = Append(k[n], list[n + 1])
    <3>1. n + 1 # 0 /\ (n + 1) - 1 = n
      BY <2>1
    <3>2. QED
      BY <1>1, <2>1, <3>1
  <2>2. QED
    BY <1>2, <2>1, <2>3
<1>5. P = Nat
  <2>1. P \in SUBSET Nat
    OBVIOUS
  <2> HIDE DEF P
  <2>2. QED
    BY <1>3, <1>4, <2>1, NatSets
<1>6. k[N] = SubSeq(list, 1, N)
  BY <1>2, <1>5
<1>7. SubSeq(list, 1, N) = list
  OBVIOUS
<1>8. QED
  BY <1>6, <1>7 DEF Without, k

(* What EXPUNGE's responses leave the client with.                         *)
LEMMA ExpungesType ==
    ASSUME NEW list \in Seq(Msgs), NEW snap \in Seq(Msgs), NEW gone
    PROVE  Expunges(list, snap, gone) \in Seq(Msgs)
<1> DEFINE N == Len(snap)
           f == Told(list, snap, gone)
           P == {n \in Nat : n <= N => f[n] \in Seq(Msgs)}
<1>1. \A n \in 0 .. N :
         f[n] = IF n = 0 THEN list
                ELSE IF snap[n] \in gone /\ n \in DOMAIN f[n - 1]
                     THEN RemoveAt(f[n - 1], n) ELSE f[n - 1]
  <2>1. ToldEq(f, list, snap, gone)
    BY ToldIs
  <2> HIDE DEF f
  <2>2. QED
    BY <2>1 DEF ToldEq
<1> HIDE DEF f
<1>2. 0 \in P
  BY <1>1
<1>3. ASSUME NEW n \in P PROVE n + 1 \in P
  <2> SUFFICES ASSUME n + 1 <= N PROVE f[n + 1] \in Seq(Msgs)
    BY <1>3
  <2>1. n \in Nat /\ f[n] \in Seq(Msgs)
    BY <1>3
  <2>2. (n + 1 \in DOMAIN f[n] /\ f[n + 1] = RemoveAt(f[n], n + 1)) \/ f[n + 1] = f[n]
    BY <1>1, <2>1
  <2>3. QED
    <3>1. n + 1 \in DOMAIN f[n] => n + 1 \in 1 .. Len(f[n])
      BY <2>1
    <3>2. QED
      BY <2>1, <2>2, <3>1, RemoveAtIs
<1>4. P = Nat
  <2>1. P \in SUBSET Nat
    OBVIOUS
  <2> HIDE DEF P
  <2>2. QED
    BY <1>2, <1>3, <2>1, NatSets
<1>5. QED
  BY <1>4 DEF Expunges, f

LEMMA ExpungesNone ==
    ASSUME NEW list \in Seq(Msgs), NEW snap \in Seq(Msgs)
    PROVE  Expunges(list, snap, {}) = list
<1> DEFINE N == Len(snap)
           f == Told(list, snap, {})
           P == {n \in Nat : n <= N => f[n] = list}
<1>1. \A n \in 0 .. N : f[n] = IF n = 0 THEN list ELSE f[n - 1]
  <2>1. ToldEq(f, list, snap, {})
    BY ToldIs
  <2> HIDE DEF f
  <2>2. QED
    BY <2>1 DEF ToldEq
<1> HIDE DEF f
<1>2. 0 \in P
  BY <1>1
<1>3. ASSUME NEW n \in P PROVE n + 1 \in P
  BY <1>1, <1>3
<1>4. P = Nat
  <2>1. P \in SUBSET Nat
    OBVIOUS
  <2> HIDE DEF P
  <2>2. QED
    BY <1>2, <1>3, <2>1, NatSets
<1>5. QED
  BY <1>4 DEF Expunges, f

(* One response, for position p of the snapshot: the client takes out what *)
(* it has there, if it has that many.                                      *)
LEMMA ExpungesOne ==
    ASSUME NEW list \in Seq(Msgs), NEW snap \in Seq(Msgs), IsInjective(snap),
           NEW p \in 1 .. Len(snap)
    PROVE  Expunges(list, snap, {snap[p]}) = IF p <= Len(list) THEN RemoveAt(list, p) ELSE list
<1> DEFINE N == Len(snap)
           end == IF p <= Len(list) THEN RemoveAt(list, p) ELSE list
           f == Told(list, snap, {snap[p]})
           P == {n \in Nat : n <= N => f[n] = IF n < p THEN list ELSE end}
<1>1. \A n \in 0 .. N :
         f[n] = IF n = 0 THEN list
                ELSE IF snap[n] \in {snap[p]} /\ n \in DOMAIN f[n - 1]
                     THEN RemoveAt(f[n - 1], n) ELSE f[n - 1]
  <2>1. ToldEq(f, list, snap, {snap[p]})
    BY ToldIs
  <2> HIDE DEF f
  <2>2. QED
    BY <2>1 DEF ToldEq
<1>2. N \in Nat /\ p \in 1 .. N /\ DOMAIN snap = 1 .. N /\ DOMAIN list = 1 .. Len(list)
      /\ Len(list) \in Nat
  OBVIOUS
<1>3. \A i \in 1 .. N : snap[i] = snap[p] <=> i = p
  BY <1>2 DEF IsInjective
<1> HIDE DEF f
<1>4. 0 \in P
  BY <1>1, <1>2
<1>5. ASSUME NEW n \in P PROVE n + 1 \in P
  <2> SUFFICES ASSUME n + 1 <= N
               PROVE  f[n + 1] = IF n + 1 < p THEN list ELSE end
    BY <1>5
  <2>1. n \in Nat /\ n + 1 \in 1 .. N /\ f[n] = IF n < p THEN list ELSE end
    BY <1>2, <1>5
  <2>2. f[n + 1] = IF n + 1 = p /\ n + 1 \in DOMAIN f[n] THEN RemoveAt(f[n], n + 1) ELSE f[n]
    BY <1>1, <1>3, <2>1
  <2> HIDE DEF P
  <2>3. CASE n + 1 = p
    <3>1. f[n] = list /\ (n + 1 \in DOMAIN list <=> p <= Len(list))
      BY <1>2, <2>1, <2>3
    <3>2. QED
      BY <1>2, <2>2, <2>3, <3>1
  <2>4. CASE n + 1 # p
    <3> HIDE DEF end
    <3>1. QED
      BY <1>2, <2>1, <2>2, <2>4
  <2>5. QED
    BY <2>3, <2>4
<1>6. P = Nat
  <2>1. P \in SUBSET Nat
    OBVIOUS
  <2> HIDE DEF P
  <2>2. QED
    BY <1>4, <1>5, <2>1, NatSets
<1>7. f[N] = end
  BY <1>2, <1>6
<1>8. QED
  BY <1>7 DEF Expunges, f

LEMMA ListIsFinite ==
    ASSUME NEW list \in Seq(Msgs)
    PROVE  IsFiniteSet(ToSet(list))
<1>1. list \in Surjection(1 .. Len(list), ToSet(list)) /\ Len(list) \in Nat
  BY DEF Surjection, ToSet
<1>2. QED
  BY <1>1, FS_NatSurjection DEF ExistsSurjection

(* What a list begins with.                                                *)
Begins(list, long) ==
    Len(list) <= Len(long) /\ \A i \in 1 .. Len(list) : list[i] = long[i]

LEMMA BeginsIsPrefix ==
    ASSUME NEW list \in Seq(Msgs), NEW long \in Seq(Msgs)
    PROVE  Begins(list, long) <=> IsPrefix(list, long)
<1>1. Len(list) \in Nat /\ Len(long) \in Nat /\ SubSeq(list, 1, Len(list)) = list
  OBVIOUS
<1>2. ASSUME Len(list) <= Len(long)
      PROVE  /\ SubSeq(long, 1, Len(list)) \in Seq(Msgs)
             /\ Len(SubSeq(long, 1, Len(list))) = Len(list)
             /\ \A i \in 1 .. Len(list) : SubSeq(long, 1, Len(list))[i] = long[i]
  BY <1>1, <1>2
<1>3. ASSUME Begins(list, long) PROVE IsPrefix(list, long)
  <2>1. Len(list) <= Len(long) /\ \A i \in 1 .. Len(list) : list[i] = long[i]
    BY <1>3 DEF Begins
  <2>2. list = SubSeq(long, 1, Len(list))
    BY <1>1, <1>2, <2>1, SeqEqual
  <2>3. QED
    BY <1>1, <2>1, <2>2 DEF IsPrefix
<1>4. ASSUME IsPrefix(list, long) PROVE Begins(list, long)
  <2>1. Len(list) <= Len(long) /\ list = SubSeq(long, 1, Len(list))
    BY <1>1, <1>4 DEF IsPrefix
  <2>2. \A i \in 1 .. Len(list) : list[i] = long[i]
    BY <1>2, <2>1
  <2>3. QED
    BY <2>1, <2>2 DEF Begins
<1>5. QED
  BY <1>3, <1>4

(* One EXPUNGE response, or none, for a client that has the beginning of   *)
(* the snapshot leaves it with the beginning of what is left.              *)
LEMMA ExpungesAgree ==
    ASSUME NEW list \in Seq(Msgs), NEW snap \in Seq(Msgs), IsInjective(snap),
           Begins(list, snap), NEW gone \in SUBSET ToSet(snap), Cardinality(gone) <= 1
    PROVE  /\ Begins(Expunges(list, snap, gone), Without(snap, gone))
           /\ list = snap => Expunges(list, snap, gone) = Without(snap, gone)
<1>1. CASE gone = {}
  BY <1>1, ExpungesNone, WithoutNone
<1>2. CASE gone # {}
  <2>1. PICK m \in gone : TRUE
    BY <1>2
  <2>3. IsFiniteSet(gone)
    BY ListIsFinite, FS_Subset
  <2>4. gone = {m}
    <3> DEFINE rest == gone \ {m}
    <3>1. IsFiniteSet(rest) /\ Cardinality(rest) = Cardinality(gone) - 1
      BY <2>1, <2>3, FS_RemoveElement
    <3> HIDE DEF rest
    <3>2. Cardinality(rest) \in Nat /\ Cardinality(gone) \in Nat
      BY <2>3, <3>1, FS_CardinalityType
    <3>3. Cardinality(rest) = 0
      BY <3>1, <3>2
    <3>4. rest = {}
      BY <3>1, <3>3, FS_EmptySet
    <3>5. QED
      BY <2>1, <3>4 DEF rest
  <2>5. PICK p \in 1 .. Len(snap) : snap[p] = m
    BY <2>1 DEF ToSet
  <2>6. Expunges(list, snap, gone) = IF p <= Len(list) THEN RemoveAt(list, p) ELSE list
    BY <2>4, <2>5, ExpungesOne
  <2>7. Without(snap, gone) = RemoveAt(snap, p)
    BY <2>4, <2>5, WithoutOne
  <2>8. /\ Len(list) \in Nat /\ Len(snap) \in Nat /\ p \in 1 .. Len(snap)
        /\ Len(list) <= Len(snap) /\ \A i \in 1 .. Len(list) : list[i] = snap[i]
    BY <2>5 DEF Begins
  <2>9. /\ Len(RemoveAt(snap, p)) = Len(snap) - 1
        /\ \A j \in 1 .. Len(snap) - 1 :
              RemoveAt(snap, p)[j] = IF j < p THEN snap[j] ELSE snap[j + 1]
    BY <2>5, RemoveAtIs
  <2>10. CASE p <= Len(list)
    <3>1. /\ Len(RemoveAt(list, p)) = Len(list) - 1
          /\ \A j \in 1 .. Len(list) - 1 :
                RemoveAt(list, p)[j] = IF j < p THEN list[j] ELSE list[j + 1]
      BY <2>5, <2>8, <2>10, RemoveAtIs
    <3>2. Begins(RemoveAt(list, p), RemoveAt(snap, p))
      BY <2>8, <2>9, <2>10, <3>1 DEF Begins
    <3>3. QED
      BY <2>6, <2>7, <2>10, <3>2
  <2>11. CASE ~(p <= Len(list))
    <3>1. Begins(list, RemoveAt(snap, p))
      BY <2>8, <2>9, <2>11 DEF Begins
    <3>2. list # snap
      BY <2>8, <2>11
    <3>3. QED
      BY <2>6, <2>7, <2>11, <3>1, <3>2
  <2>12. QED
    BY <2>10, <2>11
<1>3. QED
  BY <1>1, <1>2

-----------------------------------------------------------------------------
(* The numbering.                                                          *)

(* The client's list begins as its session's snapshot, and until its own   *)
(* command has taken a message out, the snapshot is what the list of the   *)
(* folder begins with.                                                     *)
Aligned(s) ==
    s \in Open /\ ~disturbed[s] =>
        /\ Begins(view[s], sess[s].snap)
        /\ view[s] = sess[s].snap \/ swallowed[s]
        /\ sess[s].at \notin {"removed", "added"} => Begins(sess[s].snap, Items)

Good(s) ==
    /\ IsInjective(sess[s].snap)
    /\ sess[s].ids \subseteq ToSet(sess[s].snap)
    /\ sess[s].at \in {"moved", "removed", "added"} \/ sess[s].got = {}
    /\ Aligned(s)

StepInv == TypeOK /\ \A s \in Sessions : Good(s)

(* TypeOK, taken apart.                                                    *)
ListTypes ==
    /\ Items \in Seq(Msgs) /\ IsInjective(Items)
    /\ UIDs \in Seq(Msgs) /\ IsInjective(UIDs) /\ Listed \subseteq ToSet(UIDs)

OtherTypes ==
    /\ where \in [Msgs -> {"unborn", "here", "trash", "gone"}]
    /\ Trash \subseteq Msgs /\ unheard \subseteq Msgs /\ returned \subseteq Msgs

SessTypes ==
    /\ sess \in [Sessions -> SessionStates]
    /\ queue \in [Sessions -> 0 .. QueueSize]
    /\ \A s \in Sessions : sess[s].got \subseteq sess[s].ids

ViewTypes ==
    /\ view \in [Sessions -> Seq(Msgs)]
    /\ disturbed \in [Sessions -> BOOLEAN] /\ swallowed \in [Sessions -> BOOLEAN]

LEMMA TypesAre == TypeOK <=> ListTypes /\ OtherTypes /\ SessTypes /\ ViewTypes
  BY DEF TypeOK, ListTypes, OtherTypes, SessTypes, ViewTypes, Listed

LEMMA TypesWere == TypeOK' <=> ListTypes' /\ OtherTypes' /\ SessTypes' /\ ViewTypes'
  BY DEF TypeOK, ListTypes, OtherTypes, SessTypes, ViewTypes, Listed

-----------------------------------------------------------------------------
(* What the other sessions and the outside do to a session, and refreshes.  *)

(* What the client of a session is taken to know stays.                    *)
SameClient(t) ==
    disturbed'[t] = disturbed[t] /\ view'[t] = view[t] /\ swallowed'[t] = swallowed[t]

(* A session that takes no part: the list grows at its end or stays, or    *)
(* the session is closed or disturbed.                                     *)
LEMMA OthersGood ==
    ASSUME StepInv, NEW t \in Sessions, sess'[t] = sess[t],
           \/ disturbed'[t]
           \/ SameClient(t) /\ (Items' = Items \/ \E m \in Msgs : Items' = Append(Items, m))
           \/ t \notin Open
    PROVE  Good(t)'
<1>1. Good(t) /\ ListTypes /\ SessTypes /\ sess[t] \in SessionStates
  BY TypesAre DEF StepInv, SessTypes
<1>2. /\ IsInjective(sess'[t].snap) /\ sess'[t].ids \subseteq ToSet(sess'[t].snap)
      /\ sess'[t].at \in {"moved", "removed", "added"} \/ sess'[t].got = {}
  BY <1>1 DEF Good
<1>4. Aligned(t)'
  <2> SUFFICES ASSUME t \in Open, ~disturbed'[t]
               PROVE  /\ Begins(view'[t], sess[t].snap)
                      /\ view'[t] = sess[t].snap \/ swallowed'[t]
                      /\ sess[t].at \notin {"removed", "added"} => Begins(sess[t].snap, Items')
    BY DEF Aligned, Open
  <2>1. /\ SameClient(t)
        /\ Items' = Items \/ \E m \in Msgs : Items' = Append(Items, m)
    OBVIOUS
  <2>2. /\ Begins(view[t], sess[t].snap)
        /\ view[t] = sess[t].snap \/ swallowed[t]
        /\ sess[t].at \notin {"removed", "added"} => Begins(sess[t].snap, Items)
    BY <1>1, <2>1 DEF Good, Aligned, SameClient
  <2>3. sess[t].snap \in Seq(Msgs)
    BY <1>1 DEF SessionStates
  <2>4. ASSUME Begins(sess[t].snap, Items) PROVE Begins(sess[t].snap, Items')
    <3>1. CASE Items' = Items
      BY <2>4, <3>1 DEF Begins
    <3>2. ASSUME NEW m \in Msgs, Items' = Append(Items, m) PROVE Begins(sess[t].snap, Items')
      <4>1. Len(Items') = Len(Items) + 1 /\ \A i \in 1 .. Len(Items) : Items'[i] = Items[i]
        BY <1>1, <3>2 DEF ListTypes
      <4>2. Len(Items) \in Nat /\ Len(sess[t].snap) \in Nat
        BY <1>1, <2>3 DEF ListTypes
      <4>3. QED
        BY <2>4, <4>1, <4>2 DEF Begins
    <3>3. QED
      BY <2>1, <3>1, <3>2
  <2>5. QED
    BY <2>1, <2>2, <2>4 DEF SameClient
<1>5. QED
  BY <1>2, <1>4 DEF Good

(* Those who are disturbed, and those who are not.                         *)
LEMMA DisturbIs ==
    ASSUME ViewTypes, NEW some, Disturb(some)
    PROVE  /\ ViewTypes'
           /\ \A t \in Sessions : IF t \in some THEN disturbed'[t] ELSE SameClient(t)
           /\ \A t \in Sessions : disturbed[t] => disturbed'[t]
<1>1. /\ \A t \in Sessions : disturbed[t] \in BOOLEAN /\ swallowed[t] \in BOOLEAN
      /\ view \in [Sessions -> Seq(Msgs)] /\ <<>> \in Seq(Msgs)
  BY DEF ViewTypes
<1>2. disturbed' = [t \in Sessions |-> disturbed[t] \/ t \in some]
  BY DEF Disturb
<1>3. swallowed' = [t \in Sessions |-> swallowed[t] /\ t \notin some]
  BY DEF Disturb
<1>4. view' = [t \in Sessions |-> IF t \in some THEN <<>> ELSE view[t]]
  BY DEF Disturb
<1>5. view' \in [Sessions -> Seq(Msgs)]
  BY <1>1, <1>4
<1>6. disturbed' \in [Sessions -> BOOLEAN]
  BY <1>2, Zenon
<1>7. swallowed' \in [Sessions -> BOOLEAN]
  BY <1>3, Zenon
<1>8. ASSUME NEW t \in Sessions PROVE IF t \in some THEN disturbed'[t] ELSE SameClient(t)
  <2>1. disturbed'[t] = (disturbed[t] \/ t \in some)
    BY <1>2
  <2>2. swallowed'[t] = (swallowed[t] /\ t \notin some)
    BY <1>3
  <2>3. view'[t] = IF t \in some THEN <<>> ELSE view[t]
    BY <1>4
  <2>4. CASE t \in some
    BY <2>1, <2>4
  <2>5. CASE t \notin some
    <3>1. disturbed'[t] = disturbed[t]
      BY <1>1, <2>1, <2>5
    <3>2. swallowed'[t] = swallowed[t]
      BY <1>1, <2>2, <2>5
    <3>3. QED
      BY <2>3, <2>5, <3>1, <3>2 DEF SameClient
  <2>6. QED
    BY <2>4, <2>5
<1>9. \A t \in Sessions : disturbed[t] => disturbed'[t]
  BY <1>2
<1>10. QED
  BY <1>5, <1>6, <1>7, <1>8, <1>9 DEF ViewTypes

(* What a page makes of the list.                                          *)
LEMMA WithNewIs ==
    ASSUME ListTypes, NEW m \in Msgs, m \notin Listed
    PROVE  /\ WithNew(m) \in Seq(Msgs) /\ IsInjective(WithNew(m))
           /\ ToSet(WithNew(m)) = Listed \cup {m}
<1>1. CASE m \in ToSet(UIDs)
  <2> DEFINE gone == Msgs \ (Listed \cup {m})
  <2>1. WithNew(m) = Without(UIDs, gone)
    BY <1>1 DEF WithNew
  <2>2. UIDs \in Seq(Msgs) /\ IsInjective(UIDs) /\ Listed \subseteq ToSet(UIDs)
    BY DEF ListTypes
  <2>3. ToSet(UIDs) \subseteq Msgs
    BY <2>2 DEF ToSet
  <2>4. ToSet(UIDs) \ gone = Listed \cup {m}
    BY <1>1, <2>2, <2>3
  <2> HIDE DEF gone
  <2>5. QED
    BY <2>1, <2>2, <2>4, WithoutIs
<1>2. CASE m \notin ToSet(UIDs)
  <2>1. WithNew(m) = Append(Items, m)
    BY <1>2 DEF WithNew
  <2> DEFINE new == Append(Items, m)
  <2>2. Items \in Seq(Msgs) /\ IsInjective(Items) /\ DOMAIN Items = 1 .. Len(Items)
    BY DEF ListTypes
  <2>3. /\ new \in Seq(Msgs) /\ DOMAIN new = 1 .. Len(Items) + 1 /\ Len(Items) \in Nat
        /\ \A i \in 1 .. Len(Items) : new[i] = Items[i] /\ new[i] # m
        /\ new[Len(Items) + 1] = m
    BY <2>2 DEF Listed, ToSet
  <2> HIDE DEF new
  <2>4. \A i \in 1 .. Len(Items) + 1 : i \in 1 .. Len(Items) \/ i = Len(Items) + 1
    BY <2>3
  <2>5. IsInjective(new)
    BY <2>2, <2>3, <2>4 DEF IsInjective
  <2>6. ToSet(new) = ToSet(Items) \cup {m}
    <3>1. ToSet(new) = {new[i] : i \in 1 .. Len(Items) + 1} /\ ToSet(Items) = {Items[i] : i \in 1 .. Len(Items)}
      BY <2>2, <2>3 DEF ToSet
    <3>2. \A i \in 1 .. Len(Items) + 1 : new[i] \in ToSet(Items) \cup {m}
      BY <2>3, <2>4, <3>1
    <3>3. \A i \in 1 .. Len(Items) : Items[i] \in ToSet(new)
      <4>1. 1 .. Len(Items) \subseteq 1 .. Len(Items) + 1
        BY <2>3
      <4>2. QED
        BY <2>3, <3>1, <4>1
    <3>4. m \in ToSet(new)
      <4>1. Len(Items) + 1 \in 1 .. Len(Items) + 1
        BY <2>3
      <4>2. QED
        BY <2>3, <3>1, <4>1
    <3>5. QED
      BY <3>1, <3>2, <3>3, <3>4
  <2>7. QED
    BY <2>1, <2>3, <2>5, <2>6 DEF new, Listed
<1>3. QED
  BY <1>1, <1>2

(* Mail arrives, vanishes, is moved back, is synced or dropped, and the    *)
(* poller tells.                                                           *)
LEMMA OutsideGood ==
    ASSUME StepInv,
           \/ \E m \in Msgs : Arrive(m) \/ Vanish(m) \/ Returns(m) \/ SyncAdds(m) \/ SyncDrops(m)
           \/ SyncChanges \/ PollerTells
    PROVE  StepInv'
<1> USE DEF SameClient
<1>0. TypeOK /\ ListTypes /\ OtherTypes /\ SessTypes /\ ViewTypes
  BY TypesAre DEF StepInv
<1>1. ASSUME NEW m \in Msgs, Arrive(m) \/ Vanish(m) \/ Returns(m) PROVE StepInv'
  <2>1. UNCHANGED <<Items, UIDs, sess, queue, view, disturbed, swallowed>>
    BY <1>1 DEF Arrive, Vanish, Returns, history
  <2>2. OtherTypes'
    BY <1>0, <1>1 DEF Arrive, Vanish, Returns, OtherTypes, history
  <2>3. TypeOK'
    BY <1>0, <2>1, <2>2, TypesWere DEF ListTypes, SessTypes, ViewTypes, Listed
  <2>4. \A t \in Sessions : Good(t)'
    BY <2>1, OthersGood
  <2>5. QED
    BY <2>3, <2>4 DEF StepInv
<1>2. ASSUME NEW m \in Msgs, SyncAdds(m) PROVE StepInv'
  <2>1. /\ UNCHANGED <<where, Trash, sess, queue, unheard, returned>>
        /\ m \notin Listed /\ Items' = WithNew(m) /\ UIDs' = Items'
    BY <1>2 DEF SyncAdds
  <2>2. PICK some : /\ Disturb(some)
                    /\ Items' = Append(Items, m) \/ some = Open
    BY <1>2 DEF SyncAdds
  <2>3. ListTypes'
    BY <1>0, <2>1, WithNewIs DEF ListTypes, Listed
  <2>4. /\ ViewTypes'
        /\ \A t \in Sessions : IF t \in some THEN disturbed'[t] ELSE SameClient(t)
    BY <1>0, <2>2, DisturbIs
  <2>5. TypeOK'
    BY <1>0, <2>1, <2>3, <2>4, TypesWere DEF OtherTypes, SessTypes
  <2>6. ASSUME NEW t \in Sessions PROVE Good(t)'
    <3>1. CASE t \in some
      BY <2>1, <2>4, <3>1, OthersGood
    <3>2. CASE t \notin some
      <4>1. SameClient(t) /\ (Items' = Append(Items, m) \/ t \notin Open)
        BY <2>2, <2>4, <3>2
      <4>2. QED
        BY <2>1, <4>1, OthersGood
    <3>3. QED
      BY <3>1, <3>2
  <2>7. QED
    BY <2>5, <2>6 DEF StepInv
<1>3. ASSUME NEW m \in Msgs, SyncDrops(m) PROVE StepInv'
  <2>1. /\ UNCHANGED <<where, Trash, sess, queue, unheard, returned>>
        /\ Items' = Without(Items, {m}) /\ UIDs' = Items' /\ Disturb(Open)
    BY <1>3 DEF SyncDrops
  <2>2. ListTypes'
    BY <1>0, <2>1, WithoutIs DEF ListTypes, Listed
  <2>3. /\ ViewTypes'
        /\ \A t \in Sessions : IF t \in Open THEN disturbed'[t] ELSE SameClient(t)
    BY <1>0, <2>1, DisturbIs
  <2>4. TypeOK'
    BY <1>0, <2>1, <2>2, <2>3, TypesWere DEF OtherTypes, SessTypes
  <2>5. \A t \in Sessions : Good(t)'
    BY <2>1, <2>3, OthersGood
  <2>6. QED
    BY <2>4, <2>5 DEF StepInv
<1>4. CASE SyncChanges
  <2>1. /\ UNCHANGED <<where, Items, Trash, sess, queue, view, disturbed, swallowed, unheard, returned>>
        /\ UIDs' = Items
    BY <1>4 DEF SyncChanges, history
  <2>2. TypeOK'
    BY <1>0, <2>1, TypesWere DEF ListTypes, OtherTypes, SessTypes, ViewTypes, Listed
  <2>3. \A t \in Sessions : Good(t)'
    BY <2>1, OthersGood
  <2>4. QED
    BY <2>2, <2>3 DEF StepInv
<1>5. CASE PollerTells
  <2>1. /\ UNCHANGED <<where, Items, UIDs, Trash, sess, view, disturbed, swallowed, unheard, returned>>
        /\ Broadcast
    BY <1>5 DEF PollerTells, store, history
  <2>2. queue' \in [Sessions -> 0 .. QueueSize]
    BY <1>0, <2>1, QueueAssumption DEF Broadcast, SessTypes
  <2>3. TypeOK'
    BY <1>0, <2>1, <2>2, TypesWere DEF ListTypes, OtherTypes, SessTypes, ViewTypes, Listed
  <2>4. \A t \in Sessions : Good(t)'
    BY <2>1, OthersGood
  <2>5. QED
    BY <2>3, <2>4 DEF StepInv
<1>6. QED
  BY <1>1, <1>2, <1>3, <1>4, <1>5

-----------------------------------------------------------------------------
(* The session s looks at the list again; unless its client is disturbed,  *)
(* it knows how the list begins, and all of it but for what is swallowed.  *)
LEMMA RefreshGood ==
    ASSUME StepInv, NEW s \in Sessions, NEW at \in {"ready", "poll", "idle"},
           UNCHANGED <<store, unheard, returned>>,
           sess' = [sess EXCEPT ![s] = Refreshed(s, at)],
           queue' \in [Sessions -> 0 .. QueueSize], ViewTypes',
           \A t \in Sessions \ {s} : SameClient(t),
           disturbed'[s] \/ (Begins(view'[s], Items) /\ (view'[s] = Items \/ swallowed'[s]))
    PROVE  StepInv'
<1>1. /\ UNCHANGED <<where, Items, UIDs, Trash>> /\ ListTypes /\ OtherTypes /\ SessTypes
      /\ sess[s] \in SessionStates
  BY TypesAre DEF store, StepInv, SessTypes
<1>2. /\ Refreshed(s, at) \in SessionStates /\ Refreshed(s, at).at = at
      /\ Refreshed(s, at).snap = Items /\ Refreshed(s, at).ids = {} /\ Refreshed(s, at).got = {}
  BY <1>1 DEF Refreshed, SessionStates, Phases, Commands, ListTypes
<1>3. sess'[s] = Refreshed(s, at) /\ \A t \in Sessions \ {s} : sess'[t] = sess[t]
  BY <1>1 DEF SessTypes
<1>4. TypeOK'
  <2>1. sess' \in [Sessions -> SessionStates]
    BY <1>1, <1>2 DEF SessTypes
  <2>2. \A t \in Sessions : sess'[t].got \subseteq sess'[t].ids
    BY <1>1, <1>2, <1>3 DEF SessTypes
  <2>3. SessTypes'
    BY <2>1, <2>2 DEF SessTypes
  <2>4. ListTypes' /\ OtherTypes'
    BY <1>1 DEF ListTypes, OtherTypes, Listed
  <2>5. QED
    BY <2>3, <2>4, TypesWere
<1>5. Good(s)'
  <2>1. Begins(Items, Items)
    BY <1>1 DEF Begins, ListTypes
  <2>2. IsInjective(Items)
    BY <1>1 DEF ListTypes
  <2>3. Aligned(s)'
    BY <1>1, <1>2, <1>3, <2>1 DEF Aligned
  <2>4. QED
    BY <1>1, <1>2, <1>3, <2>2, <2>3 DEF Good
<1>6. \A t \in Sessions \ {s} : Good(t)'
  BY <1>1, <1>3, OthersGood
<1>7. QED
  BY <1>4, <1>5, <1>6 DEF StepInv

(* * n EXISTS brings a client whose list begins as the session's up to     *)
(* date if the snapshot has grown.                                         *)
LEMMA ExistsGood ==
    ASSUME StepInv, NEW s \in Sessions, s \in Open, sess[s].at \notin {"removed", "added"}
    PROVE  /\ Exists(s, Items) \in Seq(Msgs)
           /\ ~disturbed[s] =>
                 /\ Begins(Exists(s, Items), Items)
                 /\ \/ Exists(s, Items) = Items
                    \/ swallowed[s] /\ Len(Items) <= Len(sess[s].snap) /\ sess[s].snap = Items
<1> DEFINE snap == sess[s].snap
           v == view[s]
<1>1. /\ snap \in Seq(Msgs) /\ v \in Seq(Msgs) /\ Items \in Seq(Msgs) /\ Aligned(s)
      /\ Len(snap) \in Nat /\ Len(v) \in Nat /\ Len(Items) \in Nat
  BY TypesAre DEF StepInv, SessTypes, ViewTypes, ListTypes, SessionStates, Good
<1>2. ~disturbed[s] => Begins(v, snap) /\ (v = snap \/ swallowed[s]) /\ Begins(snap, Items)
  BY <1>1 DEF Aligned
<1> HIDE DEF snap, v
<1>3. ~disturbed[s] => Begins(v, Items)
  BY <1>1, <1>2 DEF Begins
<1>4. CASE ~disturbed[s] /\ Len(Items) > Len(snap) /\ Len(Items) > Len(v)
  <2> DEFINE rest == SubSeq(Items, Len(v) + 1, Len(Items))
  <2>1. Exists(s, Items) = v \o rest
    BY <1>4 DEF Exists, snap, v
  <2>2. /\ rest \in Seq(Msgs) /\ Len(rest) = Len(Items) - Len(v)
        /\ \A i \in 1 .. Len(rest) : rest[i] = Items[Len(v) + i]
    BY <1>1, <1>4
  <2> HIDE DEF rest
  <2>3. /\ v \o rest \in Seq(Msgs) /\ Len(v \o rest) = Len(v) + Len(rest)
        /\ \A i \in 1 .. Len(v) + Len(rest) : (v \o rest)[i] = IF i <= Len(v) THEN v[i] ELSE rest[i - Len(v)]
    BY <1>1, <2>2, ConcatProperties
  <2>4. Len(v) + Len(rest) = Len(Items)
    BY <1>1, <2>2
  <2>5. ASSUME NEW i \in 1 .. Len(Items) PROVE (v \o rest)[i] = Items[i]
    <3>1. CASE i <= Len(v)
      BY <1>1, <1>3, <1>4, <2>3, <2>4, <3>1 DEF Begins
    <3>2. CASE ~(i <= Len(v))
      <4>1. i - Len(v) \in 1 .. Len(rest) /\ Len(v) + (i - Len(v)) = i
        BY <1>1, <2>4, <3>2
      <4>2. (v \o rest)[i] = rest[i - Len(v)]
        BY <2>3, <2>4, <3>2
      <4>3. QED
        BY <2>2, <4>1, <4>2
    <3>3. QED
      BY <3>1, <3>2
  <2>6. v \o rest = Items
    BY <1>1, <2>3, <2>4, <2>5, SeqEqual
  <2>7. Begins(Items, Items)
    BY <1>1 DEF Begins
  <2>8. QED
    BY <1>1, <2>1, <2>6, <2>7
<1>5. CASE ~(~disturbed[s] /\ Len(Items) > Len(snap) /\ Len(Items) > Len(v))
  <2>1. Exists(s, Items) = v
    BY <1>5 DEF Exists, snap, v
  <2>2. ASSUME ~disturbed[s] PROVE snap = Items /\ Len(Items) <= Len(snap)
    <3>1. Begins(v, snap) /\ Begins(snap, Items) /\ ~(Len(Items) > Len(snap) /\ Len(Items) > Len(v))
      BY <1>2, <1>5, <2>2
    <3>2. Len(snap) = Len(Items) /\ \A i \in 1 .. Len(snap) : snap[i] = Items[i]
      BY <1>1, <3>1 DEF Begins
    <3>3. QED
      BY <1>1, <3>2, SeqEqual
  <2>3. QED
    BY <1>1, <1>2, <1>3, <2>1, <2>2 DEF snap
<1>6. QED
  BY <1>4, <1>5

-----------------------------------------------------------------------------
(* The session's own steps.                                                *)

(* Select, Poll and a notification read in IDLE.                           *)
LEMMA LooksGood ==
    ASSUME StepInv, NEW s \in Sessions, Select(s) \/ Poll(s) \/ IdleReads(s)
    PROVE  StepInv'
<1>1. /\ Items \in Seq(Msgs) /\ Begins(Items, Items) /\ queue \in [Sessions -> 0 .. QueueSize]
      /\ disturbed \in [Sessions -> BOOLEAN] /\ swallowed \in [Sessions -> BOOLEAN]
      /\ view \in [Sessions -> Seq(Msgs)]
  BY TypesAre DEF StepInv, ListTypes, SessTypes, ViewTypes, Begins
<1>2. CASE Select(s)
  <2>1. /\ UNCHANGED <<store, unheard, returned>> /\ queue' = queue
        /\ sess' = [sess EXCEPT ![s] = Refreshed(s, "poll")]
        /\ view' = [view EXCEPT ![s] = Items]
        /\ disturbed' = [disturbed EXCEPT ![s] = FALSE]
        /\ swallowed' = [swallowed EXCEPT ![s] = FALSE]
    BY <1>2 DEF Select, Owes
  <2>2. ViewTypes' /\ \A t \in Sessions \ {s} : SameClient(t)
    BY <1>1, <2>1 DEF ViewTypes, SameClient
  <2>3. view'[s] = Items
    BY <1>1, <2>1
  <2>4. QED
    BY <1>1, <2>1, <2>2, <2>3, RefreshGood
<1>3. ASSUME NEW at \in {"ready", "idle"},
             UNCHANGED <<store, unheard, returned>>, disturbed' = disturbed,
             s \in Open, sess[s].at \notin {"removed", "added"},
             queue' \in [Sessions -> 0 .. QueueSize],
             sess' = [sess EXCEPT ![s] = Refreshed(s, at)],
             view' = [view EXCEPT ![s] = Exists(s, Items)], Owes(s, StillOwes(s))
      PROVE  StepInv'
  <2>1. /\ Exists(s, Items) \in Seq(Msgs)
        /\ ~disturbed[s] =>
              /\ Begins(Exists(s, Items), Items)
              /\ \/ Exists(s, Items) = Items
                 \/ swallowed[s] /\ Len(Items) <= Len(sess[s].snap)
    BY <1>3, ExistsGood
  <2>2. swallowed' = [swallowed EXCEPT ![s] = StillOwes(s)] /\ StillOwes(s) \in BOOLEAN
    BY <1>3 DEF Owes, StillOwes
  <2>3. ViewTypes'
    BY <1>1, <1>3, <2>1, <2>2 DEF ViewTypes
  <2>4. \A t \in Sessions \ {s} : SameClient(t)
    BY <1>1, <1>3, <2>2 DEF SameClient
  <2>5. view'[s] = Exists(s, Items) /\ swallowed'[s] = StillOwes(s)
    BY <1>1, <1>3, <2>2
  <2>6. disturbed'[s] \/ (Begins(view'[s], Items) /\ (view'[s] = Items \/ swallowed'[s]))
    BY <1>3, <2>1, <2>5 DEF StillOwes
  <2>7. QED
    BY <1>3, <2>3, <2>4, <2>6, RefreshGood
<1>4. CASE Poll(s)
  <2>1. /\ UNCHANGED <<store, unheard, returned>> /\ disturbed' = disturbed /\ sess[s].at = "poll"
        /\ sess' = [sess EXCEPT ![s] = Refreshed(s, "ready")] /\ queue' = queue
        /\ view' = [view EXCEPT ![s] = Exists(s, Items)] /\ Owes(s, StillOwes(s))
    BY <1>4 DEF Poll
  <2>2. QED
    BY <1>1, <1>3, <2>1 DEF Open
<1>5. CASE IdleReads(s)
  <2>1. /\ UNCHANGED <<store, unheard, returned>> /\ disturbed' = disturbed /\ sess[s].at = "idle"
        /\ queue[s] > 0 /\ queue' = [queue EXCEPT ![s] = @ - 1]
        /\ sess' = [sess EXCEPT ![s] = Refreshed(s, "idle")]
        /\ view' = [view EXCEPT ![s] = Exists(s, Items)] /\ Owes(s, StillOwes(s))
    BY <1>5 DEF IdleReads
  <2>2. queue' \in [Sessions -> 0 .. QueueSize]
    BY <1>1, <2>1, QueueAssumption
  <2>3. QED
    BY <1>3, <2>1, <2>2 DEF Open
<1>6. QED
  BY <1>2, <1>4, <1>5

-----------------------------------------------------------------------------
(* The session s goes on with its command, to the state r; the list and    *)
(* the snapshot stay, and the other clients know what they knew.           *)
LEMMA GoesOnGood ==
    ASSUME StepInv, NEW s \in Sessions, NEW r \in SessionStates, sess' = [sess EXCEPT ![s] = r],
           r.snap = sess[s].snap, r.got \subseteq r.ids, r.ids \subseteq ToSet(r.snap),
           r.at \in {"moved", "removed", "added"} \/ r.got = {},
           s \in Open, UNCHANGED <<Items, UIDs>>, OtherTypes', ViewTypes',
           queue' \in [Sessions -> 0 .. QueueSize],
           \A t \in Sessions \ {s} : SameClient(t),
           disturbed'[s] \/ SameClient(s),
           sess[s].at \in {"removed", "added"} => r.at \in {"removed", "added"} \/ disturbed'[s]
    PROVE  StepInv'
<1>1. ListTypes /\ SessTypes /\ Good(s)
  BY TypesAre DEF StepInv
<1>2. sess'[s] = r /\ \A t \in Sessions \ {s} : sess'[t] = sess[t]
  BY <1>1 DEF SessTypes
<1>3. TypeOK'
  <2>1. sess' \in [Sessions -> SessionStates]
    BY <1>1 DEF SessTypes
  <2>2. \A t \in Sessions : sess'[t].got \subseteq sess'[t].ids
    BY <1>1, <1>2 DEF SessTypes
  <2>3. SessTypes' /\ ListTypes'
    BY <1>1, <2>1, <2>2 DEF SessTypes, ListTypes, Listed
  <2>4. QED
    BY <2>3, TypesWere
<1>4. Good(s)'
  <2>1. Aligned(s)'
    <3>1. CASE disturbed'[s]
      BY <3>1 DEF Aligned
    <3>2. CASE ~disturbed'[s]
      <4>1. /\ SameClient(s) /\ ~disturbed[s]
            /\ sess[s].at \in {"removed", "added"} => r.at \in {"removed", "added"}
        BY <3>2 DEF SameClient
      <4>2. /\ Begins(view[s], sess[s].snap)
            /\ view[s] = sess[s].snap \/ swallowed[s]
            /\ sess[s].at \notin {"removed", "added"} => Begins(sess[s].snap, Items)
        BY <1>1, <4>1 DEF Good, Aligned
      <4>3. QED
        BY <1>2, <4>1, <4>2 DEF Aligned, SameClient
    <3>3. QED
      BY <3>1, <3>2
  <2>2. QED
    BY <1>1, <1>2, <2>1 DEF Good
<1>5. \A t \in Sessions \ {s} : Good(t)'
  BY <1>2, OthersGood
<1>6. QED
  BY <1>3, <1>4, <1>5 DEF StepInv

(* Unselect.                                                               *)
LEMMA UnselectGood ==
    ASSUME StepInv, NEW s \in Sessions, Unselect(s)
    PROVE  StepInv'
<1>1. /\ UNCHANGED <<where, Items, UIDs, Trash, queue, unheard, returned>>
      /\ ListTypes /\ OtherTypes /\ SessTypes /\ ViewTypes
      /\ sess' = [sess EXCEPT ![s] = Closed]
      /\ view' = [view EXCEPT ![s] = <<>>]
      /\ disturbed' = [disturbed EXCEPT ![s] = FALSE]
      /\ swallowed' = [swallowed EXCEPT ![s] = FALSE]
  BY TypesAre DEF Unselect, Owes, store, StepInv
<1>2. Closed \in SessionStates
  BY DEF Closed, SessionStates, Phases, Commands
<1>3. sess'[s] = Closed /\ \A t \in Sessions \ {s} : sess'[t] = sess[t] /\ SameClient(t)
  BY <1>1 DEF SessTypes, ViewTypes, SameClient
<1>4. TypeOK'
  <2>1. sess' \in [Sessions -> SessionStates]
    BY <1>1, <1>2 DEF SessTypes
  <2>2. \A t \in Sessions : sess'[t].got \subseteq sess'[t].ids
    BY <1>1, <1>3 DEF SessTypes, Closed
  <2>3. SessTypes'
    BY <1>1, <2>1, <2>2 DEF SessTypes
  <2>4. ViewTypes'
    <3>1. <<>> \in Seq(Msgs)
      OBVIOUS
    <3>2. QED
      BY <1>1, <3>1 DEF ViewTypes
  <2>5. ListTypes' /\ OtherTypes'
    BY <1>1 DEF ListTypes, OtherTypes, Listed
  <2>6. QED
    BY <2>3, <2>4, <2>5, TypesWere
<1>5. Good(s)'
  BY <1>3 DEF Good, Aligned, Open, Closed, IsInjective
<1>6. \A t \in Sessions \ {s} : Good(t)'
  BY <1>1, <1>3, OthersGood
<1>7. QED
  BY <1>4, <1>5, <1>6 DEF StepInv

(* NOOP, IDLE and its end.                                                 *)
LEMMA OwnGood ==
    ASSUME StepInv, NEW s \in Sessions, Noop(s) \/ Idle(s) \/ IdleStops(s)
    PROVE  StepInv'
<1>1. /\ ListTypes /\ OtherTypes /\ SessTypes /\ ViewTypes /\ Good(s)
      /\ sess[s] \in SessionStates /\ sess[s].got \subseteq sess[s].ids
  BY TypesAre DEF StepInv, SessTypes
<1>2. PICK at \in {"poll", "idle"} : sess' = [sess EXCEPT ![s].at = at]
  BY DEF Noop, Idle, IdleStops
<1>3. /\ sess[s].at \in {"ready", "idle"}
      /\ UNCHANGED <<where, Items, UIDs, Trash, view, disturbed, swallowed, unheard, returned>>
  BY DEF Noop, Idle, IdleStops, store, history
<1>4. queue' \in [Sessions -> 0 .. QueueSize]
  BY <1>1, QueueAssumption DEF Noop, Idle, IdleStops, SessTypes
<1> DEFINE r == [sess[s] EXCEPT !.at = at]
<1>5. sess' = [sess EXCEPT ![s] = r]
  BY <1>1, <1>2 DEF SessTypes
<1>6. /\ r \in SessionStates /\ r.at = at
      /\ r.snap = sess[s].snap /\ r.ids = sess[s].ids /\ r.got = sess[s].got
  BY <1>1 DEF SessionStates, Phases
<1> HIDE DEF r
<1>7. OtherTypes' /\ ViewTypes' /\ \A t \in Sessions : SameClient(t)
  BY <1>1, <1>3 DEF OtherTypes, ViewTypes, SameClient
<1>8. r.got = {}
  BY <1>1, <1>3, <1>6 DEF Good
<1>9. QED
  BY <1>1, <1>3, <1>4, <1>5, <1>6, <1>7, <1>8, GoesOnGood DEF Open, Good

(* EXPUNGE and COPY up to their request.                                   *)
LEMMA StartMoveGood ==
    ASSUME StepInv, NEW s \in Sessions, NEW cmd \in Commands, NEW ids \in SUBSET ToSet(sess[s].snap),
           StartMove(s, cmd, ids)
    PROVE  StepInv'
<1>1. /\ ListTypes /\ OtherTypes /\ SessTypes /\ ViewTypes /\ Good(s) /\ sess[s] \in SessionStates
  BY TypesAre DEF StepInv, SessTypes
<1>2. /\ sess[s].at = "ready"
      /\ sess' = [sess EXCEPT ![s].at = "moving", ![s].cmd = cmd, ![s].ids = ids]
      /\ UNCHANGED <<where, Items, UIDs, Trash, queue, view, disturbed, swallowed, unheard, returned>>
  BY DEF StartMove, store, history
<1> DEFINE r == [sess[s] EXCEPT !.at = "moving", !.cmd = cmd, !.ids = ids]
<1>3. sess' = [sess EXCEPT ![s] = r]
  BY <1>1, <1>2 DEF SessTypes
<1>4. ids \subseteq Msgs
  BY <1>1 DEF SessionStates, ToSet
<1>5. /\ r \in SessionStates /\ r.at = "moving"
      /\ r.snap = sess[s].snap /\ r.ids = ids /\ r.got = sess[s].got
  BY <1>1, <1>4 DEF SessionStates, Phases
<1> HIDE DEF r
<1>6. OtherTypes' /\ ViewTypes' /\ \A t \in Sessions : SameClient(t)
  BY <1>1, <1>2 DEF OtherTypes, ViewTypes, SameClient
<1>7. r.got = {}
  BY <1>1, <1>2, <1>5 DEF Good
<1>8. queue' \in [Sessions -> 0 .. QueueSize]
  BY <1>1, <1>2 DEF SessTypes
<1>9. QED
  BY <1>1, <1>2, <1>3, <1>5, <1>6, <1>7, <1>8, GoesOnGood DEF Open

(* A command that ends with NO.                                            *)
LEMMA FailsGood ==
    ASSUME StepInv, NEW s \in Sessions, Fails(s), s \in Open,
           UNCHANGED <<Items, UIDs, queue>>, OtherTypes', ViewTypes',
           \A t \in Sessions \ {s} : SameClient(t), disturbed'[s] \/ SameClient(s),
           sess[s].at \in {"removed", "added"} => disturbed'[s]
    PROVE  StepInv'
<1>1. SessTypes /\ sess[s] \in SessionStates
  BY TypesAre DEF StepInv, SessTypes
<1> DEFINE r == [sess[s] EXCEPT !.at = "ready", !.cmd = "none", !.ids = {}, !.got = {}]
<1>2. sess' = [sess EXCEPT ![s] = r]
  BY <1>1 DEF Fails, SessTypes
<1>3. /\ r \in SessionStates /\ r.at = "ready"
      /\ r.snap = sess[s].snap /\ r.ids = {} /\ r.got = {}
  BY <1>1 DEF SessionStates, Phases, Commands
<1> HIDE DEF r
<1>4. queue' \in [Sessions -> 0 .. QueueSize]
  BY <1>1 DEF SessTypes
<1>5. QED
  BY <1>2, <1>3, <1>4, GoesOnGood

(* MoveItems answers, or fails.                                            *)
LEMMA MoveAnswerGood ==
    ASSUME StepInv, NEW s \in Sessions, MoveAnswer(s)
    PROVE  StepInv'
<1>1. /\ ListTypes /\ OtherTypes /\ SessTypes /\ ViewTypes /\ Good(s) /\ sess[s] \in SessionStates
  BY TypesAre DEF StepInv, SessTypes
<1>2. /\ UNCHANGED <<Items, UIDs, Trash, queue, view, disturbed, swallowed, returned>>
      /\ sess[s].at = "moving"
  BY DEF MoveAnswer
<1>3. PICK got \in SUBSET sess[s].ids : \E heard \in BOOLEAN :
         /\ where' = [m \in Msgs |-> IF m \in got THEN "trash" ELSE where[m]]
         /\ IF got = {} \/ ~heard THEN Fails(s)
            ELSE sess' = [sess EXCEPT ![s].at = "moved", ![s].got = got]
         /\ unheard' = IF heard THEN unheard ELSE unheard \cup got
  BY DEF MoveAnswer, Saves
<1>4. PICK heard \in BOOLEAN :
         /\ where' = [m \in Msgs |-> IF m \in got THEN "trash" ELSE where[m]]
         /\ IF got = {} \/ ~heard THEN Fails(s)
            ELSE sess' = [sess EXCEPT ![s].at = "moved", ![s].got = got]
         /\ unheard' = IF heard THEN unheard ELSE unheard \cup got
  BY <1>3
<1>5. got \subseteq Msgs
  BY <1>1, <1>3 DEF SessionStates
<1>6. OtherTypes'
  <2>1. where' \in [Msgs -> {"unborn", "here", "trash", "gone"}]
    BY <1>1, <1>4 DEF OtherTypes
  <2>2. unheard' \subseteq Msgs
    BY <1>1, <1>4, <1>5 DEF OtherTypes
  <2>3. QED
    BY <1>1, <1>2, <2>1, <2>2 DEF OtherTypes
<1>7. ViewTypes' /\ \A t \in Sessions : SameClient(t)
  BY <1>1, <1>2 DEF ViewTypes, SameClient
<1>8. CASE got = {} \/ ~heard
  <2>1. Fails(s)
    BY <1>4, <1>8
  <2>2. QED
    BY <1>2, <1>6, <1>7, <2>1, FailsGood DEF Open
<1>9. CASE got # {} /\ heard
  <2> DEFINE r == [sess[s] EXCEPT !.at = "moved", !.got = got]
  <2>1. sess' = [sess EXCEPT ![s] = r]
    BY <1>1, <1>4, <1>9 DEF SessTypes
  <2>2. /\ r \in SessionStates /\ r.at = "moved"
        /\ r.snap = sess[s].snap /\ r.ids = sess[s].ids /\ r.got = got
    BY <1>1, <1>5 DEF SessionStates, Phases
  <2> HIDE DEF r
  <2>3. queue' \in [Sessions -> 0 .. QueueSize] /\ sess[s].ids \subseteq ToSet(sess[s].snap)
    BY <1>1, <1>2 DEF SessTypes, Good
  <2>4. QED
    BY <1>2, <1>3, <1>6, <1>7, <2>1, <2>2, <2>3, GoesOnGood DEF Open
<1>10. QED
  BY <1>8, <1>9

(* addMovedItems.                                                          *)
LEMMA AddMovedGood ==
    ASSUME StepInv, NEW s \in Sessions, AddMoved(s)
    PROVE  StepInv'
<1>1. /\ ListTypes /\ OtherTypes /\ SessTypes /\ ViewTypes /\ Good(s)
      /\ sess[s] \in SessionStates /\ sess[s].got \subseteq sess[s].ids
  BY TypesAre DEF StepInv, SessTypes
<1>2. /\ sess[s].at = "removed" /\ UNCHANGED <<where, Items, UIDs, queue, unheard, returned>>
      /\ Trash' = Trash \cup sess[s].got
  BY DEF AddMoved
<1>3. PICK saved \in BOOLEAN :
         /\ IF saved THEN sess' = [sess EXCEPT ![s].at = "added"] ELSE Fails(s)
         /\ Disturb(IF saved THEN {} ELSE {s})
  BY DEF AddMoved, Saves
<1>4. OtherTypes'
  BY <1>1, <1>2 DEF OtherTypes, SessionStates
<1> DEFINE some == IF saved THEN {} ELSE {s}
<1>5. /\ ViewTypes'
      /\ \A t \in Sessions : IF t \in some THEN disturbed'[t] ELSE SameClient(t)
  <2> HIDE DEF some
  <2>1. Disturb(some)
    BY <1>3 DEF some
  <2>2. QED
    BY <1>1, <2>1, DisturbIs
<1>6. CASE ~saved
  <2>1. disturbed'[s] /\ \A t \in Sessions \ {s} : SameClient(t)
    BY <1>5, <1>6
  <2>2. QED
    BY <1>2, <1>3, <1>4, <1>5, <1>6, <2>1, FailsGood DEF Open
<1>7. CASE saved
  <2> DEFINE r == [sess[s] EXCEPT !.at = "added"]
  <2>1. sess' = [sess EXCEPT ![s] = r]
    BY <1>1, <1>3, <1>7 DEF SessTypes
  <2>2. /\ r \in SessionStates /\ r.at = "added"
        /\ r.snap = sess[s].snap /\ r.ids = sess[s].ids /\ r.got = sess[s].got
    BY <1>1 DEF SessionStates, Phases
  <2> HIDE DEF r
  <2>3. \A t \in Sessions : SameClient(t)
    BY <1>5, <1>7
  <2>4. queue' \in [Sessions -> 0 .. QueueSize] /\ sess[s].ids \subseteq ToSet(sess[s].snap)
    BY <1>1, <1>2 DEF SessTypes, Good
  <2>5. QED
    BY <1>1, <1>2, <1>4, <1>5, <2>1, <2>2, <2>3, <2>4, GoesOnGood DEF Open
<1>8. QED
  BY <1>6, <1>7

(* removeItems: it takes out what has been moved, under all the others.    *)
LEMMA RemoveMovedGood ==
    ASSUME StepInv, NEW s \in Sessions, RemoveMoved(s)
    PROVE  StepInv'
<1>1. /\ ListTypes /\ OtherTypes /\ SessTypes /\ ViewTypes /\ Good(s)
      /\ sess[s] \in SessionStates /\ sess[s].got \subseteq sess[s].ids
  BY TypesAre DEF StepInv, SessTypes
<1>2. /\ sess[s].at = "moved" /\ UNCHANGED <<where, UIDs, Trash, queue, returned>>
      /\ Items' = Without(Items, sess[s].got)
  BY DEF RemoveMoved
<1>3. PICK saved \in BOOLEAN :
         /\ IF saved THEN sess' = [sess EXCEPT ![s].at = "removed"] ELSE Fails(s)
         /\ Disturb(IF saved THEN Open \ {s} ELSE Open)
         /\ unheard' = IF saved THEN unheard ELSE unheard \cup sess[s].got
  BY DEF RemoveMoved, Saves
<1>4. ListTypes'
  <2>1. Items \in Seq(Msgs) /\ IsInjective(Items)
    BY <1>1 DEF ListTypes
  <2>2. Items' \in Seq(Msgs) /\ IsInjective(Items') /\ ToSet(Items') \subseteq ToSet(Items)
    BY <1>2, <2>1, WithoutIs
  <2>3. QED
    BY <1>1, <1>2, <2>2 DEF ListTypes, Listed
<1>5. OtherTypes'
  BY <1>1, <1>2, <1>3 DEF OtherTypes, SessionStates
<1> DEFINE some == IF saved THEN Open \ {s} ELSE Open
<1>6. /\ ViewTypes'
      /\ \A t \in Sessions : IF t \in some THEN disturbed'[t] ELSE SameClient(t)
  <2> HIDE DEF some
  <2>1. Disturb(some)
    BY <1>3 DEF some
  <2>2. QED
    BY <1>1, <2>1, DisturbIs
<1>7. s \in Open
  BY <1>2 DEF Open
<1> DEFINE r == IF saved THEN [sess[s] EXCEPT !.at = "removed"]
                ELSE [sess[s] EXCEPT !.at = "ready", !.cmd = "none", !.ids = {}, !.got = {}]
<1>8. sess' = [sess EXCEPT ![s] = r]
  BY <1>1, <1>3 DEF SessTypes, Fails
<1>9. /\ r \in SessionStates /\ r.at = (IF saved THEN "removed" ELSE "ready")
      /\ r.snap = sess[s].snap /\ r.ids = (IF saved THEN sess[s].ids ELSE {})
      /\ r.got = (IF saved THEN sess[s].got ELSE {})
  BY <1>1 DEF SessionStates, Phases, Commands
<1> HIDE DEF r
<1>10. sess'[s] = r /\ \A t \in Sessions \ {s} : sess'[t] = sess[t]
  BY <1>1, <1>8 DEF SessTypes
<1>11. TypeOK'
  <2>1. sess' \in [Sessions -> SessionStates]
    BY <1>1, <1>8, <1>9 DEF SessTypes
  <2>2. \A t \in Sessions : sess'[t].got \subseteq sess'[t].ids
    BY <1>1, <1>9, <1>10 DEF SessTypes
  <2>3. SessTypes'
    BY <1>1, <1>2, <2>1, <2>2 DEF SessTypes
  <2>4. QED
    BY <1>4, <1>5, <1>6, <2>3, TypesWere
<1>12. Good(s)'
  <2>1. Aligned(s)'
    <3>1. CASE ~saved
      <4>1. disturbed'[s]
        BY <1>6, <1>7, <3>1
      <4>2. QED
        BY <4>1 DEF Aligned
    <3>2. CASE saved
      <4>1. SameClient(s)
        BY <1>6, <3>2
      <4>2. ~disturbed[s] => Begins(view[s], sess[s].snap) /\ (view[s] = sess[s].snap \/ swallowed[s])
        BY <1>1, <1>7 DEF Good, Aligned
      <4>3. QED
        BY <1>9, <1>10, <3>2, <4>1, <4>2 DEF Aligned, SameClient
    <3>3. QED
      BY <3>1, <3>2
  <2>2. QED
    BY <1>1, <1>9, <1>10, <2>1 DEF Good
<1>13. ASSUME NEW t \in Sessions \ {s} PROVE Good(t)'
  <2>1. disturbed'[t] \/ t \notin Open
    BY <1>6
  <2>2. QED
    BY <1>10, <2>1, OthersGood
<1>14. QED
  BY <1>11, <1>12, <1>13 DEF StepInv

(* The end of EXPUNGE and COPY: unless the client is disturbed, what the   *)
(* responses leave it with is how the list begins.                         *)
LEMMA FinishGood ==
    ASSUME StepInv, NEW s \in Sessions, Finish(s)
    PROVE  StepInv'
<1> DEFINE snap == sess[s].snap
           got == sess[s].got
           rest == Without(snap, got)
           told == Expunges(view[s], snap, got)
<1>1. /\ ListTypes /\ SessTypes /\ ViewTypes /\ Good(s)
      /\ sess[s] \in SessionStates /\ got \subseteq sess[s].ids
      /\ view[s] \in Seq(Msgs) /\ queue \in [Sessions -> 0 .. QueueSize]
  BY TypesAre DEF StepInv, SessTypes, ViewTypes
<1>2. PICK at \in {"poll", "ready"} : sess' = [sess EXCEPT ![s] = Refreshed(s, at)]
  BY DEF Finish
<1>3. sess[s].at = "added" /\ UNCHANGED <<store, unheard, returned>> /\ Broadcast
  BY DEF Finish
<1>4. IF disturbed[s] \/ sess[s].cmd # "expunge" \/ Cardinality(got) > 1 \/ ~IsPrefix(rest, Items)
      THEN Disturb({s})
      ELSE /\ view' = [view EXCEPT ![s] = told]
           /\ swallowed' = [swallowed EXCEPT ![s] = swallowed[s] \/ rest # Items]
           /\ disturbed' = disturbed
  BY DEF Finish, Owes
<1>5. queue' \in [Sessions -> 0 .. QueueSize]
  BY <1>1, <1>3, QueueAssumption DEF Broadcast
<1>6. snap \in Seq(Msgs) /\ IsInjective(snap) /\ got \subseteq ToSet(snap)
  BY <1>1 DEF SessionStates, Good
<1>7. told \in Seq(Msgs) /\ rest \in Seq(Msgs) /\ Items \in Seq(Msgs)
  BY <1>1, <1>6, ExpungesType, WithoutIs DEF ListTypes
<1>8. ASSUME disturbed[s] \/ sess[s].cmd # "expunge" \/ Cardinality(got) > 1 \/ ~IsPrefix(rest, Items)
      PROVE  StepInv'
  <2>1. Disturb({s})
    BY <1>4, <1>8
  <2>2. /\ ViewTypes' /\ disturbed'[s]
        /\ \A t \in Sessions \ {s} : SameClient(t)
    BY <1>1, <2>1, DisturbIs
  <2>3. QED
    BY <1>2, <1>3, <1>5, <2>2, RefreshGood
<1>9. ASSUME ~disturbed[s], ~(Cardinality(got) > 1), IsPrefix(rest, Items),
             view' = [view EXCEPT ![s] = told],
             swallowed' = [swallowed EXCEPT ![s] = swallowed[s] \/ rest # Items],
             disturbed' = disturbed
      PROVE  StepInv'
  <2>1. Begins(view[s], snap) /\ (view[s] = snap \/ swallowed[s])
    BY <1>1, <1>3, <1>9 DEF Good, Aligned, Open
  <2>2. Cardinality(got) <= 1
    <3>1. IsFiniteSet(got)
      BY <1>6, ListIsFinite, FS_Subset
    <3>2. Cardinality(got) \in Nat
      BY <3>1, FS_CardinalityType
    <3>3. QED
      BY <1>9, <3>2
  <2>3. Begins(told, rest) /\ (view[s] = snap => told = rest)
    <3> HIDE DEF snap, got
    <3>1. Begins(Expunges(view[s], snap, got), Without(snap, got))
          /\ (view[s] = snap => Expunges(view[s], snap, got) = Without(snap, got))
      BY <1>1, <1>6, <2>1, <2>2, ExpungesAgree
    <3>2. QED
      BY <3>1
  <2>4. Begins(rest, Items)
    <3> HIDE DEF rest
    <3>1. QED
      BY <1>7, <1>9, BeginsIsPrefix
  <2> HIDE DEF told, rest, snap, got
  <2>5. Begins(told, Items)
    <3>1. Len(told) \in Nat /\ Len(rest) \in Nat /\ Len(Items) \in Nat
      BY <1>7
    <3>2. QED
      BY <2>3, <2>4, <3>1 DEF Begins
  <2>6. view'[s] = told
    BY <1>1, <1>9 DEF ViewTypes
  <2>7. swallowed'[s] = (swallowed[s] \/ rest # Items)
    BY <1>1, <1>9 DEF ViewTypes
  <2>8. told = Items \/ swallowed'[s]
    BY <2>1, <2>3, <2>7
  <2>9. swallowed' \in [Sessions -> BOOLEAN]
    <3>1. (swallowed[s] \/ rest # Items) \in BOOLEAN
      OBVIOUS
    <3>2. QED
      BY <1>1, <1>9, <3>1 DEF ViewTypes
  <2>10. ViewTypes'
    BY <1>1, <1>7, <1>9, <2>9 DEF ViewTypes
  <2>11. \A t \in Sessions \ {s} : SameClient(t)
    BY <1>1, <1>9 DEF ViewTypes, SameClient
  <2>12. QED
    BY <1>2, <1>3, <1>5, <2>5, <2>6, <2>8, <2>10, <2>11, RefreshGood
<1>10. QED
  <2> HIDE DEF told, rest, got, snap
  <2>1. QED
    BY <1>4, <1>8, <1>9

-----------------------------------------------------------------------------
(* The theorems on the numbering.                                          *)

LEMMA StepInvHolds ==
    Spec => []StepInv
<1>1. Init => StepInv
  <2> SUFFICES ASSUME Init PROVE StepInv
    OBVIOUS
  <2>1. /\ <<>> \in Seq(Msgs) /\ IsInjective(<<>>) /\ ToSet(<<>>) = {} /\ 0 \in 0 .. QueueSize
    BY QueueAssumption DEF IsInjective, ToSet
  <2>2. Closed \in SessionStates /\ Closed.at = "closed" /\ Closed.snap = <<>>
        /\ Closed.ids = {} /\ Closed.got = {}
    BY <2>1 DEF Closed, SessionStates, Phases, Commands
  <2>3. ListTypes /\ OtherTypes
    BY <2>1 DEF Init, ListTypes, OtherTypes, Listed
  <2>4. SessTypes
    BY <2>1, <2>2 DEF Init, SessTypes
  <2>5. ViewTypes
    BY <2>1 DEF Init, ViewTypes
  <2>6. ASSUME NEW s \in Sessions PROVE Good(s)
    <3>1. sess[s] = Closed
      BY DEF Init
    <3>2. QED
      BY <2>1, <2>2, <3>1 DEF Good, Aligned, Open
  <2>7. QED
    BY <2>3, <2>4, <2>5, <2>6, TypesAre DEF StepInv
<1>2. StepInv /\ [Next]_vars => StepInv'
  <2> SUFFICES ASSUME StepInv, [Next]_vars PROVE StepInv'
    OBVIOUS
  <2>1. CASE UNCHANGED vars
    <3>1. UNCHANGED <<where, Items, UIDs, Trash, sess, queue, view, disturbed, swallowed, unheard, returned>>
      BY <2>1 DEF vars, store, history
    <3>2. TypeOK'
      BY <3>1, TypesAre, TypesWere DEF StepInv, ListTypes, OtherTypes, SessTypes, ViewTypes, Listed
    <3>3. \A t \in Sessions : Good(t)'
      BY <3>1, OthersGood DEF SameClient
    <3>4. QED
      BY <3>2, <3>3 DEF StepInv
  <2>2. ASSUME NEW s \in Sessions, Server(s) PROVE StepInv'
    BY <2>2, LooksGood, MoveAnswerGood, RemoveMovedGood, AddMovedGood, FinishGood DEF Server
  <2>3. ASSUME NEW s \in Sessions, NEW ids \in SUBSET Msgs, Expunge(s, ids) \/ Copy(s, ids)
        PROVE  StepInv'
    BY <2>3, StartMoveGood DEF Expunge, Copy, Commands
  <2>4. ASSUME NEW s \in Sessions, Select(s) \/ Unselect(s) PROVE StepInv'
    BY <2>4, LooksGood, UnselectGood
  <2>5. QED
    BY <2>1, <2>2, <2>3, <2>4, OutsideGood, OwnGood DEF Next
<1>3. QED
  BY <1>1, <1>2, PTL DEF Spec

(* state.go 590-600, imapd.go 380-420: lists, snapshots and what the       *)
(* client has are lists of messages, each message in the folder once, and  *)
(* what a command has moved was asked for.                                 *)
THEOREM SessionTypes == Spec => []TypeOK
<1>1. StepInv => TypeOK
  BY DEF StepInv
<1>2. QED
  BY <1>1, StepInvHolds, PTL

(* imapd.go 810-824, 851-867: as long as the list changes only in ways the *)
(* client is told of, or at its end, the numbers it derives from EXISTS    *)
(* and EXPUNGE are those of its session, whatever other sessions, syncs,   *)
(* mail that comes back, the poller, refusals and failing writes come      *)
(* between; and it knows of all its session has but for what an EXPUNGE    *)
(* has swallowed.                                                          *)
THEOREM NumberingStaysInStep == Spec => []InStep
<1>1. StepInv => InStep
  <2> SUFFICES ASSUME StepInv, NEW s \in Sessions, s \in Open, ~disturbed[s]
               PROVE  IsPrefix(view[s], sess[s].snap) /\ (view[s] = sess[s].snap \/ swallowed[s])
    BY DEF InStep
  <2>1. Begins(view[s], sess[s].snap) /\ (view[s] = sess[s].snap \/ swallowed[s])
    BY DEF StepInv, Good, Aligned
  <2>2. view[s] \in Seq(Msgs) /\ sess[s].snap \in Seq(Msgs)
    BY TypesAre DEF StepInv, ViewTypes, SessTypes, SessionStates
  <2>3. QED
    BY <2>1, <2>2, BeginsIsPrefix
<1>2. QED
  BY <1>1, StepInvHolds, PTL

(* imapd.go 666-692, 761-788: a message leaves the list only after it has  *)
(* left the folder on the server, or as MoveItems said that it has; what   *)
(* it refused stays.                                                       *)
THEOREM RefusedMailStays == Spec => LeavesOnlyWhenGone
<1> DEFINE Leaves == \A m \in Msgs : m \in Listed /\ m \notin ToSet(Items') =>
               where[m] # "here" \/ \E s \in Sessions : sess[s].at = "moved" /\ m \in sess[s].got
<1>1. StepInv /\ [Next]_vars => Leaves \/ UNCHANGED vars
  <2> SUFFICES ASSUME StepInv, [Next]_vars, NEW m \in Msgs,
                      m \in Listed, m \notin ToSet(Items')
               PROVE  where[m] # "here" \/ \E s \in Sessions : sess[s].at = "moved" /\ m \in sess[s].got
    OBVIOUS
  <2>1. ListTypes /\ Items \in Seq(Msgs) /\ IsInjective(Items)
    BY TypesAre DEF StepInv, ListTypes
  <2>2. Items' # Items
    BY DEF Listed
  <2>3. ASSUME NEW n \in Msgs, SyncAdds(n) PROVE FALSE
    BY <2>1, <2>3, WithNewIs DEF SyncAdds
  <2>4. ASSUME NEW n \in Msgs, SyncDrops(n) PROVE where[m] # "here"
    <3>1. where[n] = "gone" /\ ToSet(Items') = ToSet(Items) \ {n}
      BY <2>1, <2>4, WithoutIs DEF SyncDrops
    <3>2. m = n
      BY <3>1 DEF Listed
    <3>3. QED
      BY <3>1, <3>2
  <2>5. ASSUME NEW s \in Sessions, RemoveMoved(s) PROVE sess[s].at = "moved" /\ m \in sess[s].got
    <3>1. sess[s].at = "moved" /\ ToSet(Items') = ToSet(Items) \ sess[s].got
      BY <2>1, <2>5, WithoutIs DEF RemoveMoved
    <3>2. m \in sess[s].got
      BY <3>1 DEF Listed
    <3>3. QED
      BY <3>1, <3>2
  <2>6. ASSUME NEW s \in Sessions,
               \/ Poll(s) \/ MoveAnswer(s) \/ AddMoved(s) \/ Finish(s) \/ IdleReads(s)
               \/ Select(s) \/ Unselect(s) \/ Noop(s) \/ Idle(s) \/ IdleStops(s)
               \/ \E ids \in SUBSET Msgs : Expunge(s, ids) \/ Copy(s, ids)
        PROVE  Items' = Items
    BY <2>6 DEF Poll, MoveAnswer, AddMoved, Finish, IdleReads, Select, Unselect, Noop, Idle,
                IdleStops, Expunge, Copy, StartMove, store
  <2>7. ASSUME NEW n \in Msgs, Arrive(n) \/ Vanish(n) \/ Returns(n) PROVE Items' = Items
    BY <2>7 DEF Arrive, Vanish, Returns
  <2>8. SyncChanges \/ PollerTells \/ UNCHANGED vars => Items' = Items
    BY DEF SyncChanges, PollerTells, vars, store
  <2>9. QED
    BY <2>2, <2>3, <2>4, <2>5, <2>6, <2>7, <2>8 DEF Next, Server
<1>2. [Leaves]_vars <=> Leaves \/ UNCHANGED vars
  OBVIOUS
<1> HIDE DEF Leaves
<1>3. Spec => [][Leaves]_vars
  BY <1>1, <1>2, StepInvHolds, PTL DEF Spec
<1>4. QED
  BY <1>3 DEF LeavesOnlyWhenGone, Leaves

-----------------------------------------------------------------------------
(* imapd.go 109, 851-868: a notification that is read tells the client all *)
(* there is in the list, whatever became of the ones before, but for what  *)
(* an EXPUNGE has swallowed as long as no more comes; none is taken out of *)
(* a channel otherwise, but with the IDLE it was for.                      *)
THEOREM NotificationsTellAll == Spec => OneNotificationIsEnough
<1> DEFINE Told1(s) == \/ sess'[s].at # "idle" \/ disturbed[s] \/ view'[s] = Items'
                       \/ swallowed[s] /\ sess[s].snap = Items'
           Tells == \A s \in Sessions : queue'[s] < queue[s] => Told1(s)
<1>1. StepInv /\ [Next]_vars => Tells \/ UNCHANGED vars
  <2> SUFFICES ASSUME StepInv, Next, NEW s \in Sessions, queue'[s] < queue[s]
               PROVE  Told1(s)
    OBVIOUS
  <2>1. /\ queue \in [Sessions -> 0 .. QueueSize] /\ view \in [Sessions -> Seq(Msgs)]
        /\ sess \in [Sessions -> SessionStates] /\ queue[s] \in Int
    BY TypesAre DEF StepInv, SessTypes, ViewTypes
  <2>2. ~Broadcast
    <3> SUFFICES ASSUME Broadcast PROVE FALSE
      OBVIOUS
    <3>1. queue'[s] = queue[s] \/ queue'[s] = queue[s] + 1
      BY DEF Broadcast
    <3>2. QED
      BY <2>1, <3>1
  <2>3. queue' # queue
    BY <2>1
  <2>4. ASSUME NEW t \in Sessions, IdleReads(t) PROVE Told1(s)
    <3>1. t = s
      BY <2>1, <2>4 DEF IdleReads
    <3>2. ~disturbed[s] => Exists(s, Items) = Items \/ (swallowed[s] /\ sess[s].snap = Items)
      BY <2>4, <3>1, ExistsGood DEF IdleReads, Open
    <3>3. view'[s] = Exists(s, Items) /\ Items' = Items
      BY <2>1, <2>4, <3>1 DEF IdleReads, store
    <3>4. QED
      BY <3>2, <3>3
  <2>5. ASSUME NEW t \in Sessions, IdleStops(t) PROVE Told1(s)
    <3>1. t = s
      BY <2>1, <2>5 DEF IdleStops
    <3>2. sess'[s].at = "poll"
      BY <2>1, <2>5, <3>1 DEF IdleStops, SessionStates
    <3>3. QED
      BY <3>2
  <2>6. ASSUME NEW t \in Sessions,
               \/ Poll(t) \/ MoveAnswer(t) \/ RemoveMoved(t) \/ AddMoved(t)
               \/ Select(t) \/ Unselect(t) \/ Noop(t) \/ Idle(t)
               \/ \E ids \in SUBSET Msgs : Expunge(t, ids) \/ Copy(t, ids)
        PROVE  queue' = queue
    BY <2>6 DEF Poll, MoveAnswer, RemoveMoved, AddMoved, Select, Unselect, Noop, Idle,
                Expunge, Copy, StartMove
  <2>7. ASSUME NEW n \in Msgs, Arrive(n) \/ Vanish(n) \/ Returns(n) \/ SyncAdds(n) \/ SyncDrops(n)
        PROVE  queue' = queue
    BY <2>7 DEF Arrive, Vanish, Returns, SyncAdds, SyncDrops
  <2>8. ~PollerTells /\ ~SyncChanges /\ \A t \in Sessions : ~Finish(t)
    BY <2>2, <2>3 DEF PollerTells, SyncChanges, Finish
  <2> HIDE DEF Told1
  <2>9. QED
    BY <2>3, <2>4, <2>5, <2>6, <2>7, <2>8 DEF Next, Server
<1>2. [Tells]_vars <=> Tells \/ UNCHANGED vars
  OBVIOUS
<1> HIDE DEF Tells
<1>3. Spec => [][Tells]_vars
  BY <1>1, <1>2, StepInvHolds, PTL DEF Spec
<1>4. QED
  BY <1>3 DEF OneNotificationIsEnough, Tells
=============================================================================
