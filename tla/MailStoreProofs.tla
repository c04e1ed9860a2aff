--------------------------- MODULE MailStoreProofs ---------------------------
(***************************************************************************)
(* Proofs about MailStore for every choice of folders, messages and        *)
(* bounds: the UID ledger survives every crash as long as writing the main *)
(* file does not fail, and no delivered mail is lost as long as the        *)
(* process neither dies nor loses a shard, and no reply to a flag push     *)
(* carries changes or is overtaken by a reset of the key.                  *)
(***************************************************************************)
EXTENDS MailStore, FiniteSetTheorems, WellFoundedInduction, TLAPS

-----------------------------------------------------------------------------
(* Induction on a set of numbers, and what it gives: maxima.               *)
LEMMA NatSets ==
    ASSUME NEW S \in SUBSET Nat, 0 \in S, \A n \in S : n + 1 \in S
    PROVE  S = Nat
<1> SUFFICES ASSUME Nat \ S # {} PROVE FALSE
  OBVIOUS
<1>1. PICK x \in Nat \ S : \A y \in Nat \ S : ~(<<y, x>> \in OpToRel(<, Nat))
  BY NatLessThanWellFounded, WFMin
<1>2. x # 0 /\ x - 1 \in Nat
  OBVIOUS
<1>3. x - 1 \notin S
  BY <1>2
<1>4. <<x - 1, x>> \in OpToRel(<, Nat)
  BY <1>2 DEF OpToRel
<1>5. QED
  BY <1>1, <1>2, <1>3, <1>4

(* A finite set of numbers that is not empty has a largest.                *)
LEMMA LargestNumber ==
    ASSUME NEW S \in SUBSET Nat, IsFiniteSet(S), S # {}
    PROVE  Max(S) \in S /\ \A y \in S : Max(S) >= y
<1> DEFINE Sized(n) == {T \in SUBSET Nat : IsFiniteSet(T) /\ Cardinality(T) = n + 1}
           P == {n \in Nat : \A T \in Sized(n) : \E x \in T : \A y \in T : x >= y}
<1>1. ASSUME NEW n \in Nat, NEW T \in Sized(n), NEW z \in T
      PROVE  T \ {z} \in SUBSET Nat /\ IsFiniteSet(T \ {z}) /\ Cardinality(T \ {z}) = n
  <2>1. IsFiniteSet(T) /\ Cardinality(T) = n + 1
    OBVIOUS
  <2>2. IsFiniteSet(T \ {z}) /\ Cardinality(T \ {z}) = Cardinality(T) - 1
    BY <2>1, FS_RemoveElement
  <2>3. QED
    BY <2>1, <2>2
<1>2. 0 \in P
  <2> SUFFICES ASSUME NEW T \in Sized(0) PROVE \E x \in T : \A y \in T : x >= y
    OBVIOUS
  <2>1. T # {}
    BY FS_EmptySet
  <2>2. PICK z \in T : TRUE
    BY <2>1
  <2>3. T \ {z} = {}
    <3>1. IsFiniteSet(T \ {z}) /\ Cardinality(T \ {z}) = 0
      BY <1>1, <2>2
    <3>2. QED
      BY <3>1, FS_EmptySet
  <2>4. QED
    BY <2>2, <2>3
<1>3. ASSUME NEW n \in P PROVE n + 1 \in P
  <2> SUFFICES ASSUME NEW T \in Sized(n + 1) PROVE \E x \in T : \A y \in T : x >= y
    OBVIOUS
  <2>1. T # {}
    BY FS_EmptySet
  <2>2. PICK z \in T : TRUE
    BY <2>1
  <2>3. T \ {z} \in Sized(n)
    BY <1>1, <2>2
  <2>4. PICK x \in T \ {z} : \A y \in T \ {z} : x >= y
    BY <2>3
  <2>5. x \in Nat /\ z \in Nat /\ x \in T
    BY <2>2, <2>4
  <2>6. CASE x >= z
    BY <2>4, <2>5, <2>6
  <2>7. CASE z > x
    BY <2>2, <2>4, <2>5, <2>7
  <2>8. QED
    BY <2>5, <2>6, <2>7
<1>4. P = Nat
  <2> HIDE DEF P
  <2>1. P \in SUBSET Nat
    BY DEF P
  <2>2. QED
    BY <1>2, <1>3, <2>1, NatSets
<1>5. Cardinality(S) \in Nat /\ Cardinality(S) # 0
  BY FS_CardinalityType, FS_EmptySet
<1>6. PICK n \in Nat : Cardinality(S) = n + 1
  BY <1>5
<1>7. \E x \in S : \A y \in S : x >= y
  BY <1>4, <1>6
<1>8. QED
  BY <1>7 DEF Max

-----------------------------------------------------------------------------
(* assignUIDs.                                                             *)

(* NextUID lies above the whole UID map in memory; this is what makes      *)
(* UIDFloor a no-op in a process whose main file is never behind.          *)
MapBelowNext ==
    \A f \in Folders : NextUID[f] >= 1 /\ \A m \in Msgs : UIDs[f][m] < NextUID[f]

LEMMA FloorIsNext ==
    ASSUME TypeOK, MapBelowNext, NEW f \in Folders
    PROVE  UIDFloor(f) = NextUID[f]
<1> DEFINE S == {NextUID[f]} \cup {UIDs[f][m] + 1 : m \in Msgs}
<1>1. NextUID[f] \in Nat /\ \A m \in Msgs : UIDs[f][m] \in Nat
  BY DEF TypeOK
<1>2. \A y \in S : y \in Nat /\ NextUID[f] >= y
  BY <1>1 DEF MapBelowNext
<1>3. NextUID[f] \in S
  OBVIOUS
<1> HIDE DEF S
<1>4. \A x \in S : (\A y \in S : x >= y) => x = NextUID[f]
  BY <1>1, <1>2, <1>3
<1>5. Max(S) = NextUID[f]
  BY <1>2, <1>3, <1>4 DEF Max
<1>6. QED
  BY <1>5 DEF UIDFloor, S

(* What assignUIDs leaves behind: a list with a UID for every message on   *)
(* it, old messages with their old UIDs, new ones with distinct UIDs from  *)
(* NextUID on, and NextUID moved past them.                                *)
Assigned(f, cnt, n, u) ==
    /\ Items' = [Items EXCEPT ![f] = cnt]
    /\ UIDs' = [UIDs EXCEPT ![f] = u]
    /\ NextUID' = [NextUID EXCEPT ![f] = n]
    /\ announced' = [announced EXCEPT ![f] = @ \cup Entries(cnt, u)]
    /\ n \in Nat /\ n >= NextUID[f]
    /\ u \in [Msgs -> Nat]
    /\ \A m \in Msgs : u[m] < n
    /\ \A m \in Msgs : cnt[m] = 0 => u[m] = 0
    /\ \A m \in Msgs : cnt[m] > 0 =>
          \/ u[m] = UIDs[f][m] /\ u[m] > 0
          \/ UIDs[f][m] = 0 /\ u[m] >= NextUID[f]
    /\ \A m, k \in Msgs :
          (cnt[m] > 0 /\ cnt[k] > 0 /\ UIDs[f][m] = 0 /\ UIDs[f][k] = 0
             /\ u[m] = u[k]) => m = k

LEMMA AssignUIDsResult ==
    ASSUME TypeOK, MapBelowNext, NEW f \in Folders, NEW cnt \in [Msgs -> Nat],
           AssignUIDs(f, cnt)
    PROVE  \E n, u : Assigned(f, cnt, n, u)
<1> DEFINE new == Newcomers(f, cnt)
           n == NextAfter(f, cnt)
<1>1. NextUID[f] \in Nat /\ \A m \in Msgs : UIDs[f][m] \in Nat /\ UIDs[f][m] < NextUID[f]
  BY DEF TypeOK, MapBelowNext
<1>2. UIDFloor(f) = NextUID[f]
  BY FloorIsNext
<1>3. IsFiniteSet(new) /\ Cardinality(new) \in Nat
  BY MsgsAssumption, FS_Subset, FS_CardinalityType DEF Newcomers
<1>4. n \in Nat /\ n >= NextUID[f]
  BY <1>1, <1>2, <1>3 DEF NextAfter
<1>5. PICK arrival \in Arrivals(f, cnt) :
        /\ Items' = [Items EXCEPT ![f] = cnt]
        /\ UIDs' = [UIDs EXCEPT ![f] = AssignedUIDs(f, cnt, arrival)]
        /\ NextUID' = [NextUID EXCEPT ![f] = n]
        /\ announced' = [announced EXCEPT ![f] =
                            @ \cup Entries(cnt, AssignedUIDs(f, cnt, arrival))]
  BY DEF AssignUIDs
<1> DEFINE u == AssignedUIDs(f, cnt, arrival)
<1>6. /\ arrival \in [new -> NextUID[f] .. n - 1]
      /\ \A a, b \in new : arrival[a] = arrival[b] => a = b
  BY <1>2 DEF Arrivals, Bijection, Injection, IsInjective
<1>7. \A m \in Msgs : u[m] = IF cnt[m] = 0 THEN 0
                             ELSE IF UIDs[f][m] # 0 THEN UIDs[f][m] ELSE arrival[m]
  BY DEF AssignedUIDs
<1>8. \A m \in Msgs : cnt[m] > 0 /\ UIDs[f][m] = 0 <=> m \in new
  BY DEF Newcomers
<1>9. \A m \in new : arrival[m] \in Nat /\ arrival[m] >= NextUID[f] /\ arrival[m] < n
  BY <1>1, <1>4, <1>6
<1> HIDE DEF n, new
<1>10. \A m \in Msgs : u[m] \in Nat /\ u[m] < n
  BY <1>1, <1>4, <1>7, <1>8, <1>9 DEF MapBelowNext
<1>11. u \in [Msgs -> Nat]
  BY <1>10 DEF AssignedUIDs
<1> HIDE DEF u
<1>12. Assigned(f, cnt, n, u)
  <2>1. \A m \in Msgs : cnt[m] = 0 => u[m] = 0
    BY <1>7
  <2>2. \A m \in Msgs : cnt[m] > 0 =>
          \/ u[m] = UIDs[f][m] /\ u[m] > 0
          \/ UIDs[f][m] = 0 /\ u[m] >= NextUID[f]
    BY <1>1, <1>7, <1>8, <1>9
  <2>3. \A m, k \in Msgs :
          (cnt[m] > 0 /\ cnt[k] > 0 /\ UIDs[f][m] = 0 /\ UIDs[f][k] = 0
             /\ u[m] = u[k]) => m = k
    BY <1>6, <1>7, <1>8
  <2>4. QED
    BY <1>4, <1>5, <1>10, <1>11, <2>1, <2>2, <2>3 DEF Assigned, u
<1>13. QED
  BY <1>12
-----------------------------------------------------------------------------
(* Types.                                                                  *)

LEMMA InitType == Init => TypeOK
<1> SUFFICES ASSUME Init PROVE TypeOK
  OBVIOUS
<1>1. /\ main \in Mains /\ NextUID \in [Folders -> Nat]
      /\ SyncKeys \in [Folders -> SyncKeyStates]
  BY DEF Init, Mains, SyncKeyStates
<1>2. Items \in [Folders -> [Msgs -> Nat]] /\ UIDs \in [Folders -> [Msgs -> Nat]]
  BY DEF Init
<1>3. shard \in [Folders -> Shards]
  BY <1>2 DEF Init, Shards
<1>4. flight \in [Folders -> Flights]
  BY DEF Init, Idle, NoBatch, Flights, Batches
<1>5. pushed \in [Folders -> SyncKeyStates]
  BY DEF Init, SyncKeyStates
<1>6. QED
  BY <1>1, <1>2, <1>3, <1>4, <1>5 DEF Init, TypeOK

LEMMA MergedType ==
    ASSUME TypeOK, NEW f \in Folders, NEW got
    PROVE  Merged(f, got) \in [Msgs -> Nat]
BY DEF TypeOK, Merged

(* The floor is a number, also where NextUID has fallen behind the map.    *)
LEMMA FloorType ==
    ASSUME TypeOK, NEW f \in Folders
    PROVE  UIDFloor(f) \in Nat
<1> DEFINE Above == {UIDs[f][m] + 1 : m \in Msgs}
<1>1. NextUID[f] \in Nat /\ Above \in SUBSET Nat
  BY DEF TypeOK
<1>2. IsFiniteSet(Above)
  <2> DEFINE g == [m \in Msgs |-> UIDs[f][m] + 1]
  <2>1. g \in Surjection(Msgs, Above)
    BY DEF Surjection
  <2>2. QED
    BY <2>1, MsgsAssumption, FS_Surjection
<1>3. IsFiniteSet({NextUID[f]} \cup Above)
  BY <1>2, FS_Singleton, FS_Union
<1>4. Max({NextUID[f]} \cup Above) \in Nat
  BY <1>1, <1>3, LargestNumber
<1>5. QED
  BY <1>4 DEF UIDFloor

LEMMA AssignType ==
    ASSUME TypeOK, NEW f \in Folders, NEW cnt \in [Msgs -> Nat],
           AssignUIDs(f, cnt)
    PROVE  /\ Items' \in [Folders -> [Msgs -> Nat]]
           /\ UIDs' \in [Folders -> [Msgs -> Nat]]
           /\ NextUID' \in [Folders -> Nat]
           /\ announced' \in [Folders -> SUBSET (Nat \X Msgs)]
<1> DEFINE new == Newcomers(f, cnt)
           n == NextAfter(f, cnt)
<1>1. \A m \in Msgs : UIDs[f][m] \in Nat
  BY DEF TypeOK
<1>2. IsFiniteSet(new) /\ Cardinality(new) \in Nat
  BY MsgsAssumption, FS_Subset, FS_CardinalityType DEF Newcomers
<1>3. n \in Nat /\ UIDFloor(f) \in Nat
  BY <1>2, FloorType DEF NextAfter
<1>4. PICK arrival \in Arrivals(f, cnt) :
        /\ Items' = [Items EXCEPT ![f] = cnt]
        /\ UIDs' = [UIDs EXCEPT ![f] = AssignedUIDs(f, cnt, arrival)]
        /\ NextUID' = [NextUID EXCEPT ![f] = n]
        /\ announced' = [announced EXCEPT ![f] =
                            @ \cup Entries(cnt, AssignedUIDs(f, cnt, arrival))]
  BY DEF AssignUIDs
<1>5. arrival \in [new -> UIDFloor(f) .. n - 1]
  BY DEF Arrivals, Bijection, Injection
<1>6. \A m \in new : arrival[m] \in Nat
  BY <1>3, <1>5
<1> DEFINE u == AssignedUIDs(f, cnt, arrival)
<1>7. u \in [Msgs -> Nat]
  BY <1>1, <1>6 DEF AssignedUIDs, Newcomers
<1> HIDE DEF n, new, u
<1>8. Entries(cnt, u) \in SUBSET (Nat \X Msgs)
  BY <1>7 DEF Entries
<1>9. QED
  BY <1>3, <1>4, <1>7, <1>8 DEF TypeOK, u

LEMMA SaveMainType ==
    ASSUME NextUID' \in [Folders -> Nat], SyncKeys' \in [Folders -> SyncKeyStates],
           SaveMain
    PROVE  main' \in Mains
BY DEF SaveMain, Mains

LEMMA SaveShardType ==
    ASSUME TypeOK, NEW f \in Folders, SaveShard(f),
           Items' \in [Folders -> [Msgs -> Nat]],
           UIDs' \in [Folders -> [Msgs -> Nat]]
    PROVE  shard' \in [Folders -> Shards]
BY DEF SaveShard, Shards, TypeOK

LEMMA SaveShardEntry ==
    ASSUME TypeOK, NEW f \in Folders, SaveShard(f), NEW g \in Folders
    PROVE  /\ g = f => /\ shard'[g].items = Items'[g]
                       /\ shard'[g].uids = UIDs'[g]
           /\ g # f => shard'[g] = shard[g]
BY DEF SaveShard, TypeOK

LEMMA KeyType ==
    ASSUME TypeOK, NEW f \in Folders, NEW now \in SUBSET Msgs, KeyAdvances(f, now)
    PROVE  /\ told' \in [Folders -> SUBSET Msgs]
           /\ SyncKeys' \in [Folders -> SyncKeyStates]
           /\ pushed' \in [Folders -> SyncKeyStates]
BY DEF KeyAdvances, TypeOK, SyncKeyStates, Superseded

LEMMA KeyOnFileType ==
    ASSUME TypeOK, NEW f \in Folders, KeyOnFileDies(f)
    PROVE  main' \in Mains /\ main'.next = main.next
BY DEF KeyOnFileDies, TypeOK, Mains, SyncKeyStates, Superseded

LEMMA PageType ==
    ASSUME TypeOK, NEW f \in Folders, NEW p \in Pages(f)
    PROVE  /\ p.added \subseteq mailbox[f] /\ p.changed \subseteq mailbox[f]
           /\ p.deleted \cap mailbox[f] = {}
           /\ p.added \subseteq Msgs /\ p.changed \subseteq Msgs
           /\ p.deleted \subseteq Known(f)
           /\ Known(f) \subseteq Msgs
           /\ After(f, p) \in SUBSET Msgs
BY DEF TypeOK, Pages, Known, After

LEMMA StepType ==
    ASSUME TypeOK, [Next]_vars
    PROVE  TypeOK'
<1> USE DEF server, memory, disk, tasks
<1>1. ASSUME NEW f \in Folders, NEW m \in Msgs, Arrive(f, m) \/ Vanish(f, m)
      PROVE  TypeOK'
  <2>1. mailbox' \in [Folders -> SUBSET Msgs] /\ born' \subseteq Msgs
    <3>1. mailbox[f] \cup {m} \in SUBSET Msgs /\ mailbox[f] \ {m} \in SUBSET Msgs
      BY DEF TypeOK
    <3>2. born' \subseteq Msgs
      BY <1>1 DEF TypeOK, Arrive, Vanish
    <3>3. \E b \in SUBSET Msgs : mailbox' = [mailbox EXCEPT ![f] = b]
      BY <1>1, <3>1 DEF Arrive, Vanish
    <3>4. QED
      BY <3>2, <3>3 DEF TypeOK
  <2>2. UNCHANGED <<told, Items, UIDs, NextUID, SyncKeys, main, shard, flight,
                    writing, pushed, moves, announced>>
    BY <1>1 DEF Arrive, Vanish
  <2>3. QED
    BY <2>1, <2>2 DEF TypeOK
<1>2. ASSUME NEW f \in Folders, StartSync(f) PROVE TypeOK'
  BY <1>2 DEF TypeOK, StartSync, Idle, NoBatch, Flights, Batches
<1>3. ASSUME NEW f \in Folders, PullPage(f) PROVE TypeOK'
  <2>1. PICK p \in Pages(f) :
          /\ KeyAdvances(f, After(f, p))
          /\ flight' = [flight EXCEPT ![f] =
               [flight[f] EXCEPT
                   !.got = Extend(@, p),
                   !.moved = TRUE,
                   !.phase = IF MoreAvailable(f, p) THEN "pull" ELSE "apply"]]
    BY <1>3 DEF PullPage
  <2>2. flight[f] \in Flights /\ flight[f].got \in Batches
    BY DEF TypeOK, Flights
  <2>3. Extend(flight[f].got, p) \in Batches
    BY <2>2, PageType DEF Extend, Batches
  <2>4. flight' \in [Folders -> Flights]
    BY <2>1, <2>2, <2>3 DEF TypeOK, Flights
  <2>5. /\ told' \in [Folders -> SUBSET Msgs] /\ SyncKeys' \in [Folders -> SyncKeyStates]
        /\ pushed' \in [Folders -> SyncKeyStates]
    BY <2>1, PageType, KeyType
  <2>6. main' \in Mains
    BY <1>3, KeyOnFileType DEF PullPage
  <2>7. QED
    BY <1>3, <2>4, <2>5, <2>6 DEF PullPage, TypeOK
<1>4. ASSUME NEW f \in Folders,
             PullNothing(f) \/ PullStatus3(f) \/ PullError(f)
      PROVE  TypeOK'
  <2>1. /\ flight' \in [Folders -> Flights]
        /\ SyncKeys' \in [Folders -> SyncKeyStates]
    <3>1. flight[f] \in Flights
      BY DEF TypeOK
    <3>2. \/ flight' = [flight EXCEPT ![f].phase = "apply"]
          \/ flight' = [flight EXCEPT ![f].moved = TRUE]
      BY <1>4 DEF PullNothing, PullStatus3, PullError
    <3>3. /\ [flight[f] EXCEPT !.phase = "apply"] \in Flights
          /\ [flight[f] EXCEPT !.moved = TRUE] \in Flights
      BY <3>1 DEF Flights
    <3>4. \/ flight' = [flight EXCEPT ![f] = [flight[f] EXCEPT !.phase = "apply"]]
          \/ flight' = [flight EXCEPT ![f] = [flight[f] EXCEPT !.moved = TRUE]]
      BY <3>2
    <3>5. flight' \in [Folders -> Flights]
      BY <3>3, <3>4 DEF TypeOK
    <3>6. QED
      BY <1>4, <3>5 DEF TypeOK, PullNothing, PullStatus3, PullError, SyncKeyStates
  <2>2. UNCHANGED <<mailbox, born, told, Items, UIDs, NextUID, main, shard,
                    writing, pushed, moves, announced>>
    BY <1>4 DEF PullNothing, PullStatus3, PullError
  <2>3. QED
    BY <2>1, <2>2 DEF TypeOK
<1>5. ASSUME NEW f \in Folders, PullStatus5(f) PROVE TypeOK'
  <2>1. flight' \in [Folders -> Flights]
    <3>1. flight[f] \in Flights
      BY DEF TypeOK
    <3>2. flight' = [flight EXCEPT ![f] =
             [flight[f] EXCEPT !.retried = TRUE, !.got = NoBatch,
                               !.moved = @ \/ SyncKeys[f] # "none"]]
      BY <1>5 DEF PullStatus5
    <3>3. (flight[f].moved \/ SyncKeys[f] # "none") \in BOOLEAN
      OBVIOUS
    <3>4. NoBatch \in Batches
      BY DEF NoBatch, Batches
    <3>5. QED
      BY <3>1, <3>2, <3>3, <3>4 DEF TypeOK, Flights
  <2>2. SyncKeys' \in [Folders -> SyncKeyStates] /\ NextUID' \in [Folders -> Nat]
    BY <1>5 DEF PullStatus5, TypeOK, SyncKeyStates
  <2>3. main' \in Mains
    BY <1>5, <2>2, SaveMainType DEF PullStatus5, TypeOK
  <2>4. QED
    BY <1>5, <2>1, <2>2, <2>3 DEF PullStatus5, TypeOK
<1>6. ASSUME NEW f \in Folders, ApplyNothing(f) PROVE TypeOK'
  <2>1. flight' \in [Folders -> Flights]
    BY <1>6 DEF ApplyNothing, TypeOK, Idle, NoBatch, Flights, Batches
  <2>2. main' \in Mains
    BY <1>6, SaveMainType DEF ApplyNothing, TypeOK
  <2>3. QED
    BY <1>6, <2>1, <2>2 DEF ApplyNothing, TypeOK
<1>7. ASSUME NEW f \in Folders, Apply(f) PROVE TypeOK'
  <2>1. flight' \in [Folders -> Flights]
    BY <1>7 DEF Apply, TypeOK, Idle, NoBatch, Flights, Batches
  <2>2. /\ Items' \in [Folders -> [Msgs -> Nat]]
        /\ UIDs' \in [Folders -> [Msgs -> Nat]]
        /\ NextUID' \in [Folders -> Nat]
        /\ announced' \in [Folders -> SUBSET (Nat \X Msgs)]
    BY <1>7, MergedType, AssignType DEF Apply
  <2>3. main' \in Mains
    BY <1>7, <2>2, SaveMainType DEF Apply, SaveMainThenShard, TypeOK
  <2>4. QED
    BY <1>7, <2>1, <2>2, <2>3 DEF Apply, SaveMainThenShard, TypeOK
<1>8. CASE WriteShard
  <2>1. writing \in Folders
    BY <1>8 DEF WriteShard, TypeOK
  <2>2. shard' \in [Folders -> Shards]
    BY <1>8, <2>1, SaveShardType DEF WriteShard, TypeOK
  <2>3. QED
    BY <1>8, <2>2 DEF WriteShard, TypeOK
<1>9. ASSUME NEW f \in Folders,
             \/ PullReplyLost(f) \/ PushEmailChanges(f) \/ PushReply(f)
             \/ PushReplyLost(f) \/ PushStatus3(f)
      PROVE  TypeOK'
  <2>1. UNCHANGED <<mailbox, born, Items, UIDs, NextUID, shard, writing, moves,
                    announced>>
    BY <1>9 DEF PullReplyLost, PushEmailChanges, PushReply, PushReplyLost,
                PushStatus3
  <2>2. told' \in [Folders -> SUBSET Msgs]
    <3>1. Known(f) \in SUBSET Msgs /\ \A p \in Pages(f) : After(f, p) \in SUBSET Msgs
      BY PageType DEF Known, TypeOK
    <3>2. \/ told' = told
          \/ \E now \in SUBSET Msgs : told' = [told EXCEPT ![f] = now]
      BY <1>9, <3>1 DEF PullReplyLost, PushEmailChanges, PushReply,
                        PushReplyLost, PushStatus3, KeyAdvances
    <3>3. QED
      BY <3>2 DEF TypeOK
  <2>3. /\ SyncKeys' \in [Folders -> SyncKeyStates]
        /\ pushed' \in [Folders -> SyncKeyStates]
    BY <1>9 DEF PullReplyLost, PushEmailChanges, PushReply, PushReplyLost,
                PushStatus3, KeyAdvances, Superseded, TypeOK, SyncKeyStates
  <2>4. NextUID' \in [Folders -> Nat]
    BY <2>1 DEF TypeOK
  <2>5. main' \in Mains
    <3>1. SaveMain \/ KeyOnFileDies(f) \/ main' = main
      BY <1>9 DEF PullReplyLost, PushEmailChanges, PushReply, PushReplyLost,
                  PushStatus3
    <3>2. QED
      BY <2>3, <2>4, <3>1, SaveMainType, KeyOnFileType DEF TypeOK
  <2>6. flight' \in [Folders -> Flights]
    <3>1. flight[f] \in Flights
      BY DEF TypeOK
    <3>2. \/ flight' = flight
          \/ flight' = [flight EXCEPT ![f].phase = "apply"]
          \/ \E b \in BOOLEAN : flight' = [flight EXCEPT ![f].moved = b]
      BY <1>9, <3>1 DEF PullReplyLost, PushEmailChanges, PushReply,
                        PushReplyLost, PushStatus3, Flights
    <3>3. /\ [flight[f] EXCEPT !.phase = "apply"] \in Flights
          /\ \A b \in BOOLEAN : [flight[f] EXCEPT !.moved = b] \in Flights
      BY <3>1 DEF Flights
    <3>4. \/ flight' = flight
          \/ \E r \in Flights : flight' = [flight EXCEPT ![f] = r]
      BY <3>2, <3>3
    <3>5. QED
      BY <3>4 DEF TypeOK
  <2>7. QED
    BY <2>1, <2>2, <2>3, <2>5, <2>6 DEF TypeOK
<1>10. ASSUME NEW src \in Folders, NEW dst \in Folders,
              NEW m \in Msgs, NEW n \in Msgs, MoveItems(src, dst, m, n)
       PROVE  TypeOK'
  <2>1. /\ mailbox' \in [Folders -> SUBSET Msgs] /\ born' \subseteq Msgs
        /\ told' \in [Folders -> SUBSET Msgs]
    BY <1>10 DEF MoveItems, TypeOK
  <2>2. moves' \subseteq Moves
    BY <1>10 DEF MoveItems, TypeOK, Moves
  <2>3. UNCHANGED <<Items, UIDs, NextUID, SyncKeys, main, shard, flight, writing,
                    pushed, announced>>
    BY <1>10 DEF MoveItems
  <2>4. QED
    BY <2>1, <2>2, <2>3 DEF TypeOK
<1>11. ASSUME NEW v \in moves, RemoveItems(v) PROVE TypeOK'
  <2>1. v \in Moves
    BY DEF TypeOK
  <2>2. Items' \in [Folders -> [Msgs -> Nat]] /\ UIDs' \in [Folders -> [Msgs -> Nat]]
    BY <1>11, <2>1 DEF RemoveItems, TypeOK, Moves
  <2>3. shard' \in [Folders -> Shards]
    BY <1>11, <2>1, <2>2, SaveShardType DEF RemoveItems, TypeOK, Moves
  <2>4. moves' \subseteq Moves
    <3>1. [v EXCEPT !.stage = "add"] \in Moves
      BY <2>1 DEF Moves
    <3>2. QED
      BY <1>11, <3>1 DEF RemoveItems, TypeOK
  <2>5. QED
    BY <1>11, <2>2, <2>3, <2>4 DEF RemoveItems, TypeOK
<1>12. ASSUME NEW v \in moves, AddMovedItems(v) PROVE TypeOK'
  <2>1. v \in Moves /\ v.dst \in Folders
    BY DEF TypeOK, Moves
  <2>2. [Items[v.dst] EXCEPT ![v.to] = @ + 1] \in [Msgs -> Nat]
    BY <2>1 DEF TypeOK, Moves
  <2>3. /\ Items' \in [Folders -> [Msgs -> Nat]]
        /\ UIDs' \in [Folders -> [Msgs -> Nat]]
        /\ NextUID' \in [Folders -> Nat]
        /\ announced' \in [Folders -> SUBSET (Nat \X Msgs)]
    BY <1>12, <2>1, <2>2, AssignType DEF AddMovedItems
  <2>4. main' \in Mains
    BY <1>12, <2>3, SaveMainType DEF AddMovedItems, SaveMainThenShard, TypeOK
  <2>5. QED
    BY <1>12, <2>1, <2>3, <2>4 DEF AddMovedItems, SaveMainThenShard, TypeOK
<1>13. ASSUME NEW bad, Load(bad) PROVE TypeOK'
  <2>1. /\ Items' \in [Folders -> [Msgs -> Nat]]
        /\ UIDs' \in [Folders -> [Msgs -> Nat]]
    BY <1>13 DEF Load, TypeOK, Shards
  <2>2. NextUID' \in [Folders -> Nat] /\ SyncKeys' \in [Folders -> SyncKeyStates]
    BY <1>13 DEF Load, TypeOK, Mains
  <2>3. flight' \in [Folders -> Flights] /\ pushed' \in [Folders -> SyncKeyStates]
    BY <1>13 DEF Load, Idle, NoBatch, Flights, Batches, SyncKeyStates
  <2>4. QED
    BY <1>13, <2>1, <2>2, <2>3 DEF Load, TypeOK
<1>14. CASE UNCHANGED vars
  BY <1>14 DEF vars, TypeOK
<1>15. QED
  BY <1>1, <1>2, <1>3, <1>4, <1>5, <1>6, <1>7, <1>8, <1>9, <1>10, <1>11,
     <1>12, <1>13, <1>14
     DEF Next, Crash, RestartBadShard

-----------------------------------------------------------------------------
(* The UID ledger, where no new process reads a main file that an earlier  *)
(* one could not write.                                                    *)
RestartsFindMain == "mainFails" \in Faults => Faults \cap {"crash", "badShard"} = {}

(* A listed message has a UID, and every UID kept was announced.           *)
Backed(f, m, cnt, uid) ==
    /\ cnt > 0 => uid > 0
    /\ uid > 0 => <<uid, m>> \in announced[f]

(* The inductive invariant: memory and disk agree on NextUID, unless it    *)
(* could not be written; it lies above all that was announced, and both    *)
(* copies of the UID map, dangling entries included, repeat announced      *)
(* pairs.                                                                  *)
MainIsCurrent == "mainFails" \notin Faults => main.next = NextUID

UIDInv ==
    /\ TypeOK
    /\ MainIsCurrent
    /\ \A f \in Folders :
        /\ NextUID[f] >= 1
        /\ \A p \in announced[f] : p[1] < NextUID[f]
        /\ \A m \in Msgs : /\ Backed(f, m, Items[f][m], UIDs[f][m])
                          /\ Backed(f, m, shard[f].items[m], shard[f].uids[m])

LEMMA UIDInvMap == UIDInv => MapBelowNext
<1> SUFFICES ASSUME UIDInv, NEW f \in Folders
             PROVE  NextUID[f] >= 1 /\ \A m \in Msgs : UIDs[f][m] < NextUID[f]
  BY DEF MapBelowNext
<1>1. NextUID[f] >= 1 /\ NextUID[f] \in Nat
  BY DEF UIDInv, TypeOK
<1>2. ASSUME NEW m \in Msgs PROVE UIDs[f][m] < NextUID[f]
  <2>1. UIDs[f][m] \in Nat
    BY DEF UIDInv, TypeOK
  <2>2. CASE UIDs[f][m] = 0
    BY <1>1, <2>2
  <2>3. CASE UIDs[f][m] > 0
    <3>1. <<UIDs[f][m], m>> \in announced[f]
      BY <2>3 DEF UIDInv, Backed
    <3>2. <<UIDs[f][m], m>>[1] < NextUID[f]
      BY <3>1 DEF UIDInv
    <3>3. QED
      BY <3>2
  <2>4. QED
    BY <2>1, <2>2, <2>3
<1>3. QED
  BY <1>1, <1>2

LEMMA UIDInvInit == Init => UIDInv
<1> SUFFICES ASSUME Init PROVE UIDInv
  OBVIOUS
<1>1. TypeOK
  BY InitType
<1>2. QED
  BY <1>1 DEF Init, UIDInv, MainIsCurrent, Backed

(* A step that announces nothing keeps the invariant if what it leaves in  *)
(* memory and on disk was already backed.                                  *)
LEMMA UIDInvQuiet ==
    ASSUME UIDInv, TypeOK', NextUID' = NextUID, MainIsCurrent',
           announced' = announced,
           \A f \in Folders, m \in Msgs :
              /\ Backed(f, m, Items'[f][m], UIDs'[f][m])
              /\ Backed(f, m, shard'[f].items[m], shard'[f].uids[m])
    PROVE  UIDInv'
BY DEF UIDInv, Backed

(* A step in which assignUIDs runs keeps it, and is a step of the ledger.  *)
LEMMA UIDInvAssign ==
    ASSUME UIDInv, TypeOK', NEW f \in Folders, NEW cnt \in [Msgs -> Nat],
           AssignUIDs(f, cnt), "mainFails" \notin Faults => SaveMain, shard' = shard
    PROVE  UIDInv' /\ Ledger!Grant(f)
<1>1. PICK n, u : Assigned(f, cnt, n, u)
  BY AssignUIDsResult, UIDInvMap DEF UIDInv
<1>2. /\ NextUID \in [Folders -> Nat] /\ NextUID[f] \in Nat /\ NextUID[f] >= 1
      /\ n \in Nat /\ n >= NextUID[f]
      /\ announced \in [Folders -> SUBSET (Nat \X Msgs)]
  BY <1>1 DEF UIDInv, TypeOK, Assigned
<1> DEFINE E == Entries(cnt, u)
<1>3. /\ announced'[f] = announced[f] \cup E
      /\ NextUID'[f] = n
      /\ \A g \in Folders \ {f} : announced'[g] = announced[g] /\ NextUID'[g] = NextUID[g]
  BY <1>1, <1>2 DEF Assigned
<1>4. ASSUME NEW m \in Msgs, cnt[m] > 0
      PROVE  /\ <<u[m], m>> \in E /\ u[m] > 0
             /\ u[m] \in Nat /\ u[m] < n
             /\ UIDs[f][m] # 0 => <<u[m], m>> \in announced[f]
             /\ UIDs[f][m] = 0 => u[m] >= NextUID[f]
  <2>1. UIDs[f][m] \in Nat /\ u[m] \in Nat /\ u[m] < n
    BY <1>1 DEF UIDInv, TypeOK, Assigned
  <2>2. \/ u[m] = UIDs[f][m] /\ u[m] > 0
        \/ UIDs[f][m] = 0 /\ u[m] >= NextUID[f]
    BY <1>1, <1>4 DEF Assigned
  <2>3. <<u[m], m>> \in E
    BY <1>4 DEF Entries
  <2>4. UIDs[f][m] > 0 => <<UIDs[f][m], m>> \in announced[f]
    BY DEF UIDInv, Backed
  <2>5. QED
    BY <1>2, <2>1, <2>2, <2>3, <2>4
<1>5. ASSUME NEW p \in E
      PROVE  \E m \in Msgs : cnt[m] > 0 /\ p = <<u[m], m>>
  BY <1>5 DEF Entries
<1> HIDE DEF E
<1>6. \A p \in E : p \in Nat \X Msgs /\ p[1] < n
  BY <1>4, <1>5
<1>7. \A p \in E \ announced[f] : p[1] >= NextUID[f]
  BY <1>4, <1>5
<1>8. ASSUME NEW p \in E \ announced[f], NEW q \in E \ announced[f], p[1] = q[1]
      PROVE  p = q
  <2>1. PICK m \in Msgs : cnt[m] > 0 /\ p = <<u[m], m>>
    BY <1>5
  <2>2. PICK k \in Msgs : cnt[k] > 0 /\ q = <<u[k], k>>
    BY <1>5
  <2>3. UIDs[f][m] = 0 /\ UIDs[f][k] = 0 /\ u[m] = u[k]
    BY <1>4, <1>8, <2>1, <2>2
  <2>4. QED
    BY <1>1, <2>1, <2>2, <2>3 DEF Assigned
<1>9. Ledger!Grant(f)
  <2>1. announced'[f] \ announced[f] = E \ announced[f]
    BY <1>3
  <2>2. NextUID' = [NextUID EXCEPT ![f] = NextUID'[f]]
    BY <1>1, <1>3 DEF Assigned
  <2>3. announced' = [announced EXCEPT ![f] = announced[f] \cup (E \ announced[f])]
    BY <1>1 DEF Assigned, E
  <2>4. QED
    BY <1>2, <1>3, <1>6, <1>7, <1>8, <2>1, <2>2, <2>3 DEF Ledger!Grant
<1>10. MainIsCurrent'
  BY DEF SaveMain, MainIsCurrent
<1>11. \A g \in Folders : NextUID'[g] >= 1 /\ \A p \in announced'[g] : p[1] < NextUID'[g]
  <2>1. \A p \in announced[f] : p[1] \in Nat /\ p[1] < n
    BY <1>2 DEF UIDInv
  <2>2. QED
    BY <1>2, <1>3, <1>6, <2>1 DEF UIDInv
<1>12. ASSUME NEW g \in Folders, NEW m \in Msgs
       PROVE  /\ Backed(g, m, Items[g][m], UIDs[g][m])
              /\ Backed(g, m, shard[g].items[m], shard[g].uids[m])
              /\ announced[g] \subseteq announced'[g]
  BY <1>3 DEF UIDInv
<1>13. ASSUME NEW g \in Folders, NEW m \in Msgs
       PROVE  Backed(g, m, Items[g][m], UIDs[g][m])'
  <2>1. CASE g # f
    <3>1. Items'[g][m] = Items[g][m] /\ UIDs'[g][m] = UIDs[g][m]
      BY <1>1, <2>1 DEF Assigned, UIDInv, TypeOK
    <3>2. QED
      BY <1>12, <3>1 DEF Backed
  <2>2. CASE g = f
    <3>1. Items'[g][m] = cnt[m] /\ UIDs'[g][m] = u[m] /\ u[m] \in Nat
      BY <1>1, <2>2 DEF Assigned, UIDInv, TypeOK
    <3>2. CASE cnt[m] > 0
      BY <1>3, <1>4, <2>2, <3>1, <3>2 DEF Backed
    <3>3. CASE cnt[m] = 0
      BY <1>1, <3>1, <3>3 DEF Assigned, Backed
    <3>4. QED
      BY <3>2, <3>3
  <2>3. QED
    BY <2>1, <2>2
<1>14. ASSUME NEW g \in Folders, NEW m \in Msgs
       PROVE  Backed(g, m, shard[g].items[m], shard[g].uids[m])'
  BY <1>12 DEF Backed
<1>15. QED
  BY <1>9, <1>10, <1>11, <1>13, <1>14 DEF UIDInv

(* Every step of the program keeps the invariant and is, seen through      *)
(* NextUID and announced, a step of the ledger or none.                    *)
LEMMA UIDInvStep ==
    ASSUME UIDInv, [Next]_vars, RestartsFindMain
    PROVE  UIDInv' /\ [Ledger!Next]_(Ledger!vars)
<1> USE DEF server, memory, disk, tasks
<1>0. TypeOK /\ TypeOK' /\ MainIsCurrent
  BY StepType DEF UIDInv
<1>1. \A f \in Folders, m \in Msgs :
          /\ Backed(f, m, Items[f][m], UIDs[f][m])
          /\ Backed(f, m, shard[f].items[m], shard[f].uids[m])
  BY DEF UIDInv
<1> DEFINE Quiet == UNCHANGED <<NextUID, announced>>
<1>2. Quiet => [Ledger!Next]_(Ledger!vars)
  BY DEF Ledger!vars
<1>3. ASSUME Quiet, UNCHANGED <<Items, UIDs, shard>>, MainIsCurrent'
      PROVE  UIDInv' /\ [Ledger!Next]_(Ledger!vars)
  BY <1>0, <1>1, <1>2, <1>3, UIDInvQuiet
<1>4. ASSUME NEW f \in Folders, NEW m \in Msgs, Arrive(f, m) \/ Vanish(f, m)
      PROVE  UIDInv' /\ [Ledger!Next]_(Ledger!vars)
  BY <1>0, <1>3, <1>4 DEF Arrive, Vanish, MainIsCurrent
<1>5. ASSUME NEW f \in Folders,
             StartSync(f) \/ PullNothing(f) \/ PullStatus3(f) \/ PullError(f)
      PROVE  UIDInv' /\ [Ledger!Next]_(Ledger!vars)
  BY <1>0, <1>3, <1>5 DEF StartSync, PullNothing, PullStatus3, PullError, MainIsCurrent
<1>6. ASSUME NEW f \in Folders, PullPage(f)
      PROVE  UIDInv' /\ [Ledger!Next]_(Ledger!vars)
  BY <1>0, <1>3, <1>6, KeyOnFileType DEF PullPage, KeyAdvances, MainIsCurrent
<1>7. ASSUME NEW f \in Folders, PullStatus5(f) \/ ApplyNothing(f)
      PROVE  UIDInv' /\ [Ledger!Next]_(Ledger!vars)
  BY <1>0, <1>3, <1>7 DEF PullStatus5, ApplyNothing, SaveMain, MainIsCurrent
<1>8. ASSUME NEW f \in Folders,
             \/ PullReplyLost(f) \/ PushEmailChanges(f) \/ PushReply(f)
             \/ PushReplyLost(f) \/ PushStatus3(f)
      PROVE  UIDInv' /\ [Ledger!Next]_(Ledger!vars)
  <2>1. Quiet /\ UNCHANGED <<Items, UIDs, shard>>
    BY <1>8 DEF PullReplyLost, PushEmailChanges, PushReply, PushReplyLost,
                PushStatus3
  <2>2. SaveMain \/ KeyOnFileDies(f) \/ main' = main
    BY <1>8 DEF PullReplyLost, PushEmailChanges, PushReply, PushReplyLost,
                PushStatus3
  <2>3. MainIsCurrent'
    BY <1>0, <2>1, <2>2, KeyOnFileType DEF SaveMain, MainIsCurrent
  <2>4. QED
    BY <1>3, <2>1, <2>3
<1>9. ASSUME NEW src \in Folders, NEW dst \in Folders,
             NEW m \in Msgs, NEW n \in Msgs, MoveItems(src, dst, m, n)
      PROVE  UIDInv' /\ [Ledger!Next]_(Ledger!vars)
  BY <1>0, <1>3, <1>9 DEF MoveItems, MainIsCurrent
<1>10. ASSUME NEW f \in Folders, Apply(f)
       PROVE  UIDInv' /\ [Ledger!Next]_(Ledger!vars)
  <2>1. Merged(f, flight[f].got) \in [Msgs -> Nat]
    BY <1>0, MergedType
  <2>2. UIDInv' /\ Ledger!Grant(f)
    BY <1>0, <1>10, <2>1, UIDInvAssign DEF Apply, SaveMainThenShard
  <2>3. QED
    BY <2>2 DEF Ledger!Next
<1>11. ASSUME NEW v \in moves, AddMovedItems(v)
       PROVE  UIDInv' /\ [Ledger!Next]_(Ledger!vars)
  <2>1. v.dst \in Folders /\ v.to \in Msgs
    BY <1>0 DEF TypeOK, Moves
  <2>2. [Items[v.dst] EXCEPT ![v.to] = @ + 1] \in [Msgs -> Nat]
    BY <1>0, <2>1 DEF TypeOK
  <2>3. UIDInv' /\ Ledger!Grant(v.dst)
    BY <1>0, <1>11, <2>1, <2>2, UIDInvAssign DEF AddMovedItems, SaveMainThenShard
  <2>4. QED
    BY <2>1, <2>3 DEF Ledger!Next
<1>12. CASE WriteShard
  <2>1. ASSUME NEW f \in Folders, NEW m \in Msgs
        PROVE  Backed(f, m, shard'[f].items[m], shard'[f].uids[m])
    <3>1. Items' = Items /\ UIDs' = UIDs /\ writing \in Folders
      BY <1>0, <1>12 DEF WriteShard, TypeOK
    <3>2. CASE shard' = shard
      BY <1>1, <3>2
    <3>3. CASE SaveShard(writing)
      BY <1>0, <1>1, <3>1, <3>3, SaveShardEntry
    <3>4. QED
      BY <1>12, <3>2, <3>3 DEF WriteShard
  <2>2. Quiet /\ UNCHANGED <<Items, UIDs, main>>
    BY <1>12 DEF WriteShard
  <2>3. QED
    BY <1>0, <1>1, <1>2, <2>1, <2>2, UIDInvQuiet DEF MainIsCurrent
<1>13. ASSUME NEW v \in moves, RemoveItems(v)
       PROVE  UIDInv' /\ [Ledger!Next]_(Ledger!vars)
  <2>1. v.src \in Folders /\ v.from \in Msgs
    BY <1>0 DEF TypeOK, Moves
  <2>2. Quiet /\ UNCHANGED <<UIDs, main>>
    BY <1>13 DEF RemoveItems
  <2>3. ASSUME NEW f \in Folders, NEW m \in Msgs
        PROVE  Backed(f, m, Items'[f][m], UIDs'[f][m])
    <3>1. Items'[f][m] = Items[f][m] \/ Items'[f][m] = 0
      BY <1>0, <1>13, <2>1 DEF RemoveItems, TypeOK
    <3>2. Backed(f, m, Items[f][m], UIDs[f][m]) /\ UIDs'[f][m] = UIDs[f][m]
      BY <1>1, <2>2
    <3>3. QED
      BY <3>1, <3>2 DEF Backed
  <2>4. shard' = shard \/ SaveShard(v.src)
    BY <1>13 DEF RemoveItems
  <2>5. ASSUME NEW f \in Folders, NEW m \in Msgs
        PROVE  Backed(f, m, shard'[f].items[m], shard'[f].uids[m])
    <3>1. CASE shard' = shard
      BY <1>1, <3>1
    <3>2. CASE SaveShard(v.src)
      BY <1>0, <1>1, <2>1, <2>3, <3>2, SaveShardEntry
    <3>3. QED
      BY <2>4, <3>1, <3>2
  <2>6. QED
    BY <1>0, <1>2, <2>2, <2>3, <2>5, UIDInvQuiet DEF MainIsCurrent
<1>14. ASSUME NEW bad, Load(bad), "mainFails" \notin Faults
       PROVE  UIDInv' /\ [Ledger!Next]_(Ledger!vars)
  <2>1. Quiet /\ UNCHANGED <<main, shard>>
    BY <1>0, <1>14 DEF Load, MainIsCurrent
  <2>2. ASSUME NEW f \in Folders, NEW m \in Msgs
        PROVE  Backed(f, m, Items'[f][m], UIDs'[f][m])
    <3>1. CASE f \in bad
      BY <1>14, <3>1 DEF Load, Backed
    <3>2. CASE f \notin bad
      BY <1>1, <1>14, <3>2 DEF Load
    <3>3. QED
      BY <3>1, <3>2
  <2>3. QED
    BY <1>0, <1>1, <1>2, <2>1, <2>2, UIDInvQuiet DEF MainIsCurrent
<1>15. CASE UNCHANGED vars
  BY <1>0, <1>3, <1>15 DEF vars, MainIsCurrent
<1>16. QED
  BY <1>4, <1>5, <1>6, <1>7, <1>8, <1>9, <1>10, <1>11, <1>12, <1>13, <1>14,
     <1>15
     DEF Next, Crash, RestartBadShard, RestartsFindMain

(* A ledger that follows the rules of UIDLedger is lawful for ever.        *)
THEOREM LedgerIsLawful == Ledger!Spec => [](Ledger!TypeOK /\ Ledger!Lawful)
<1>1. Ledger!Init => Ledger!TypeOK /\ Ledger!Lawful
  BY DEF Ledger!Init, Ledger!TypeOK, Ledger!Lawful
<1>2. Ledger!TypeOK /\ Ledger!Lawful /\ [Ledger!Next]_(Ledger!vars)
        => Ledger!TypeOK' /\ Ledger!Lawful'
  <2> SUFFICES ASSUME Ledger!TypeOK, Ledger!Lawful, [Ledger!Next]_(Ledger!vars)
               PROVE  Ledger!TypeOK' /\ Ledger!Lawful'
    OBVIOUS
  <2>1. ASSUME NEW f \in Folders, Ledger!Grant(f) PROVE Ledger!TypeOK' /\ Ledger!Lawful'
    <3> DEFINE new == announced'[f] \ announced[f]
    <3>1. /\ NextUID'[f] \in Nat /\ NextUID'[f] >= NextUID[f]
          /\ \A p \in new : p \in Nat \X Msgs /\ NextUID[f] <= p[1] /\ p[1] < NextUID'[f]
          /\ \A p, q \in new : p[1] = q[1] => p = q
      BY <2>1 DEF Ledger!Grant
    <3>2. \A g \in Folders \ {f} : NextUID'[g] = NextUID[g] /\ announced'[g] = announced[g]
      BY <2>1 DEF Ledger!Grant, Ledger!TypeOK
    <3>3. Ledger!TypeOK'
      BY <2>1, <3>1 DEF Ledger!Grant, Ledger!TypeOK
    <3>4. \A p \in announced'[f] : p \in announced[f] \/ p \in new
      OBVIOUS
    <3>5. \A p \in announced[f] : p \in Nat \X Msgs /\ p[1] \in Nat /\ p[1] < NextUID[f]
      BY DEF Ledger!TypeOK, Ledger!Lawful
    <3>6. \A p \in new : p[1] \in Nat
      BY <3>1
    <3> HIDE DEF new
    <3>7. \A p \in announced'[f] : p[1] < NextUID'[f]
      BY <3>1, <3>4, <3>5, <3>6 DEF Ledger!TypeOK
    <3>8. ASSUME NEW p \in announced'[f], NEW q \in announced'[f], p[1] = q[1]
          PROVE  p = q
      <4>1. CASE p \in announced[f] /\ q \in announced[f]
        BY <3>8, <4>1 DEF Ledger!Lawful
      <4>2. CASE p \in new /\ q \in new
        BY <3>1, <3>8, <4>2
      <4>3. NextUID[f] \in Nat
        BY DEF Ledger!TypeOK
      <4>4. CASE p \in announced[f] /\ q \in new
        BY <3>1, <3>5, <3>6, <3>8, <4>3, <4>4
      <4>5. CASE p \in new /\ q \in announced[f]
        BY <3>1, <3>5, <3>6, <3>8, <4>3, <4>5
      <4>6. QED
        BY <3>4, <4>1, <4>2, <4>4, <4>5
    <3>9. Ledger!Lawful'
      BY <3>2, <3>7, <3>8 DEF Ledger!Lawful
    <3>10. QED
      BY <3>3, <3>9
  <2>2. CASE UNCHANGED Ledger!vars
    BY <2>2 DEF Ledger!vars, Ledger!TypeOK, Ledger!Lawful
  <2>3. QED
    BY <2>1, <2>2 DEF Ledger!Next
<1>3. QED
  BY <1>1, <1>2, PTL DEF Ledger!Spec

LEMMA LedgerInit == Init => Ledger!Init
BY DEF Init, Ledger!Init

LEMMA UIDInvConsequences ==
    UIDInv => /\ "mainFails" \notin Faults => DurableUIDFloor
              /\ Ledger!Lawful => OneMessagePerUID /\ ListedMessagesHaveUIDs
<1> SUFFICES ASSUME UIDInv
             PROVE  /\ "mainFails" \notin Faults => DurableUIDFloor
                    /\ Ledger!Lawful => OneMessagePerUID /\ ListedMessagesHaveUIDs
  OBVIOUS
<1>1. ASSUME "mainFails" \notin Faults PROVE DurableUIDFloor
  <2>0. main.next = NextUID
    BY <1>1 DEF UIDInv, MainIsCurrent
  <2> SUFFICES ASSUME NEW f \in Folders, NEW m \in Msgs
               PROVE  shard[f].uids[m] < main.next[f]
    BY <2>0 DEF DurableUIDFloor, UIDInv
  <2>1. shard[f].uids[m] \in Nat /\ NextUID[f] \in Nat /\ NextUID[f] >= 1
    BY DEF UIDInv, TypeOK, Shards
  <2>2. CASE shard[f].uids[m] > 0
    <3>1. <<shard[f].uids[m], m>> \in announced[f]
      BY <2>2 DEF UIDInv, Backed
    <3>2. <<shard[f].uids[m], m>>[1] < NextUID[f]
      BY <3>1 DEF UIDInv
    <3>3. QED
      BY <2>0, <3>2 DEF UIDInv
  <2>3. CASE shard[f].uids[m] = 0
    BY <2>0, <2>1, <2>3 DEF UIDInv
  <2>4. QED
    BY <2>1, <2>2, <2>3
<1>2. ASSUME Ledger!Lawful PROVE OneMessagePerUID
  BY <1>2 DEF Ledger!Lawful, OneMessagePerUID
<1>3. ASSUME Ledger!Lawful PROVE ListedMessagesHaveUIDs
  <2> SUFFICES ASSUME NEW f \in Folders, NEW m \in Visible(f)
               PROVE  /\ UIDs[f][m] \in 1 .. NextUID[f] - 1
                      /\ \A n \in Visible(f) : UIDs[f][n] = UIDs[f][m] => n = m
    BY DEF ListedMessagesHaveUIDs
  <2>1. \A n \in Visible(f) : <<UIDs[f][n], n>> \in announced[f] /\ UIDs[f][n] > 0
    BY DEF Visible, UIDInv, Backed
  <2>2. UIDs[f][m] \in Nat /\ NextUID[f] \in Nat
    BY DEF Visible, UIDInv, TypeOK
  <2>3. UIDs[f][m] \in 1 .. NextUID[f] - 1
    <3>1. <<UIDs[f][m], m>>[1] < NextUID[f]
      BY <2>1 DEF UIDInv
    <3>2. UIDs[f][m] < NextUID[f] /\ UIDs[f][m] > 0
      BY <2>1, <3>1
    <3>3. QED
      BY <2>2, <3>2
  <2>4. ASSUME NEW n \in Visible(f), UIDs[f][n] = UIDs[f][m] PROVE n = m
    <3>1. <<UIDs[f][n], n>> = <<UIDs[f][m], m>>
      BY <1>2, <1>3, <2>1, <2>4 DEF OneMessagePerUID
    <3>2. QED
      BY <3>1
  <2>5. QED
    BY <2>3, <2>4
<1>4. QED
  BY <1>1, <1>2, <1>3

(* As long as no restart finds a main file that could not be written, the  *)
(* UIDs clients see obey the ledger of UIDLedger: in one process whatever  *)
(* writes fail, over crashes, failed shard writes and shards lost at a     *)
(* restart if the main file's writes do not fail (assignUIDs,              *)
(* mutateFolder, addMovedItems, loadState).                                *)
THEOREM StoreKeepsLedger ==
    ASSUME RestartsFindMain
    PROVE  Spec => KeepsLedger
<1>1. UIDInv /\ [Next]_vars => UIDInv' /\ [Ledger!Next]_(Ledger!vars)
  BY UIDInvStep
<1>2. QED
  BY <1>1, UIDInvInit, LedgerInit, PTL DEF Spec, KeepsLedger, Ledger!Spec

(* Under the same assumption no UID ever names two messages, and every     *)
(* listed message has its own UID below UIDNEXT.                           *)
THEOREM UIDsAreSound ==
    ASSUME RestartsFindMain
    PROVE  Spec => [](OneMessagePerUID /\ ListedMessagesHaveUIDs)
<1>1. UIDInv /\ [Next]_vars => UIDInv'
  BY UIDInvStep
<1>2. Ledger!Spec => [](Ledger!TypeOK /\ Ledger!Lawful)
  BY LedgerIsLawful
<1>3. UIDInv /\ Ledger!Lawful => OneMessagePerUID /\ ListedMessagesHaveUIDs
  BY UIDInvConsequences
<1>4. Spec => Ledger!Spec
  BY StoreKeepsLedger DEF KeepsLedger
<1>5. QED
  BY <1>1, <1>2, <1>3, <1>4, UIDInvInit, PTL DEF Spec

(* Where writing the main file does not fail it is never behind a shard or *)
(* a client: mutateFolder and addMovedItems write it first.                *)
THEOREM FloorIsDurable ==
    ASSUME "mainFails" \notin Faults
    PROVE  Spec => []DurableUIDFloor
<1>1. UIDInv /\ [Next]_vars => UIDInv'
  BY UIDInvStep DEF RestartsFindMain
<1>2. UIDInv => DurableUIDFloor
  BY UIDInvConsequences
<1>3. QED
  BY <1>1, <1>2, UIDInvInit, PTL DEF Spec

(* Under every fault each variable has its type: loadState, assignUIDs     *)
(* and what is saved, the passes and pushes, and the two moving commands.  *)
THEOREM MailTypes == Spec => []TypeOK
<1>1. TypeOK /\ [Next]_vars => TypeOK'
  BY StepType
<1>2. QED
  BY <1>1, InitType, PTL DEF Spec

-----------------------------------------------------------------------------
(* Delivery, in a process that neither dies nor loses a shard write and    *)
(* whose flag pushes bring nothing back and cross no reset of the key.     *)

(* What the server has, reckons delivered, or reports deleted was given    *)
(* out before, and what is reported deleted, or moved away, is not stored  *)
(* any more: ServerIDs do not come back.                                   *)
NothingReturns ==
    /\ \A f \in Folders :
        /\ mailbox[f] \subseteq born
        /\ told[f] \subseteq born
        /\ flight[f].got.deleted \subseteq born \ mailbox[f]
    /\ \A v \in moves : v.from \in born \ mailbox[v.src]

(* Only a running pass has collected anything.                             *)
IdleIsEmpty == \A f \in Folders : flight[f].phase = "idle" => flight[f].got = NoBatch

(* The client holds the server's last key, or a reply to a flag push is    *)
(* about to bring it.                                                      *)
Keyed(f) == SyncKeys[f] = "live" \/ pushed[f] = "live"

KeysCovered ==
    \A f \in Folders : Keyed(f) => told[f] \cap mailbox[f] \subseteq Held(f)

DeliveryInv ==
    TypeOK /\ MapBelowNext /\ NothingReturns /\ IdleIsEmpty /\ KeysCovered

LEMMA DeliveryInit == Init => DeliveryInv
<1> SUFFICES ASSUME Init PROVE DeliveryInv
  OBVIOUS
<1>1. TypeOK
  BY InitType
<1>2. MapBelowNext /\ NothingReturns
  BY DEF Init, MapBelowNext, NothingReturns, Idle, NoBatch
<1>3. IdleIsEmpty /\ KeysCovered
  BY DEF Init, IdleIsEmpty, KeysCovered, Keyed, Idle, NoBatch
<1>4. QED
  BY <1>1, <1>2, <1>3 DEF DeliveryInv

LEMMA MapBelowNextAssign ==
    ASSUME TypeOK, MapBelowNext, NEW f \in Folders, NEW cnt \in [Msgs -> Nat],
           AssignUIDs(f, cnt)
    PROVE  MapBelowNext' /\ Items' = [Items EXCEPT ![f] = cnt]
<1>1. PICK n, u : Assigned(f, cnt, n, u)
  BY AssignUIDsResult
<1>2. NextUID[f] \in Nat /\ NextUID[f] >= 1 /\ n \in Nat /\ n >= NextUID[f]
  BY <1>1 DEF Assigned, MapBelowNext, TypeOK
<1>3. NextUID'[f] = n /\ UIDs'[f] = u /\ \A m \in Msgs : u[m] < n
  BY <1>1 DEF Assigned, TypeOK
<1>4. \A g \in Folders \ {f} : NextUID'[g] = NextUID[g] /\ UIDs'[g] = UIDs[g]
  BY <1>1 DEF Assigned, TypeOK
<1>5. QED
  BY <1>1, <1>2, <1>3, <1>4 DEF Assigned, MapBelowNext

(* Steps of the server and the sync pass that leave the list alone.        *)
LEMMA DeliveryPull ==
    ASSUME DeliveryInv, TypeOK', "crossed" \notin Faults, NEW f \in Folders,
           \/ \E m \in Msgs : Arrive(f, m) \/ Vanish(f, m)
           \/ StartSync(f) \/ PullPage(f) \/ PullNothing(f)
           \/ PullStatus3(f) \/ PullStatus5(f) \/ PullError(f)
           \/ ApplyNothing(f)
    PROVE  DeliveryInv'
<1> USE DEF server, memory, disk, tasks
<1>0. TypeOK /\ MapBelowNext /\ NothingReturns /\ IdleIsEmpty /\ KeysCovered
  BY DEF DeliveryInv
<1>1. UNCHANGED <<Items, UIDs, NextUID, moves>>
  BY DEF Arrive, Vanish, StartSync, PullPage, PullNothing, PullStatus3,
         PullStatus5, PullError, ApplyNothing
<1>2. MapBelowNext' /\ \A g \in Folders : Visible(g)' = Visible(g)
  BY <1>0, <1>1 DEF MapBelowNext, Visible
<1> SUFFICES NothingReturns' /\ IdleIsEmpty' /\ KeysCovered'
  BY <1>2 DEF DeliveryInv
<1>3. ASSUME NEW m \in Msgs, Arrive(f, m)
      PROVE  NothingReturns' /\ IdleIsEmpty' /\ KeysCovered'
  <2>1. m \notin born /\ born' = born \cup {m} /\ UNCHANGED <<told, SyncKeys, pushed, flight>>
    BY <1>3 DEF Arrive
  <2>2. \A g \in Folders : mailbox'[g] = mailbox[g] \/ mailbox'[g] = mailbox[g] \cup {m}
    BY <1>0, <1>3 DEF Arrive, TypeOK
  <2>3. NothingReturns' /\ IdleIsEmpty'
    <3>1. \A v \in moves : v.src \in Folders
      BY <1>0 DEF TypeOK, Moves
    <3>2. \A v \in moves' : v.from \in born' \ mailbox'[v.src]
      BY <1>0, <1>1, <2>1, <2>2, <3>1 DEF NothingReturns
    <3>3. ASSUME NEW g \in Folders
          PROVE  /\ mailbox'[g] \subseteq born' /\ told'[g] \subseteq born'
                 /\ flight'[g].got.deleted \subseteq born' \ mailbox'[g]
      BY <1>0, <2>1, <2>2 DEF NothingReturns
    <3>4. QED
      BY <1>0, <2>1, <3>2, <3>3 DEF NothingReturns, IdleIsEmpty
  <2>4. KeysCovered'
    BY <1>0, <1>1, <1>2, <2>1, <2>2 DEF KeysCovered, Keyed, Held, NothingReturns
  <2>5. QED
    BY <2>3, <2>4
<1>4. ASSUME NEW m \in Msgs, Vanish(f, m)
      PROVE  NothingReturns' /\ IdleIsEmpty' /\ KeysCovered'
  <2>1. UNCHANGED <<born, told, SyncKeys, pushed, flight>>
    BY <1>4 DEF Vanish
  <2>2. \A g \in Folders : mailbox'[g] \subseteq mailbox[g]
    BY <1>0, <1>4 DEF Vanish, TypeOK
  <2>3. NothingReturns' /\ IdleIsEmpty'
    BY <1>0, <1>1, <2>1, <2>2 DEF NothingReturns, IdleIsEmpty, TypeOK, Moves
  <2>4. KeysCovered'
    BY <1>0, <1>1, <1>2, <2>1, <2>2 DEF KeysCovered, Keyed, Held
  <2>5. QED
    BY <2>3, <2>4
<1>5. CASE PullPage(f)
  <2>1. PICK p \in Pages(f) :
          /\ KeyAdvances(f, After(f, p))
          /\ flight' = [flight EXCEPT ![f] =
               [flight[f] EXCEPT
                   !.got = Extend(@, p),
                   !.moved = TRUE,
                   !.phase = IF MoreAvailable(f, p) THEN "pull" ELSE "apply"]]
    BY <1>5 DEF PullPage
  <2>2. UNCHANGED <<mailbox, born>> /\ Accepted(f)
    BY <1>5 DEF PullPage
  <2>3. /\ flight'[f].got.upserts = flight[f].got.upserts \cup p.added \cup p.changed
        /\ flight'[f].got.deleted = flight[f].got.deleted \cup p.deleted
        /\ flight'[f].phase # "idle"
    <3>1. flight[f] \in Flights /\ flight \in [Folders -> Flights]
      BY <1>0 DEF TypeOK
    <3>2. QED
      BY <2>1, <3>1 DEF Extend, Flights, Batches
  <2>4. \A g \in Folders \ {f} : /\ flight'[g] = flight[g] /\ told'[g] = told[g]
                                /\ SyncKeys'[g] = SyncKeys[g]
                                /\ pushed'[g] = pushed[g]
    BY <1>0, <2>1 DEF KeyAdvances, TypeOK
  <2>5. told'[f] = (Known(f) \cup p.added) \ p.deleted
    BY <1>0, <2>1 DEF KeyAdvances, After, TypeOK
  <2>6. /\ Known(f) \subseteq told[f] /\ p.added \subseteq mailbox[f]
        /\ p.deleted \subseteq Known(f) /\ p.deleted \cap mailbox[f] = {}
    BY <1>0, PageType DEF Known
  <2>7. NothingReturns'
    BY <1>0, <1>1, <2>2, <2>3, <2>4, <2>5, <2>6 DEF NothingReturns
  <2>8. IdleIsEmpty'
    BY <1>0, <2>3, <2>4 DEF IdleIsEmpty
  <2>9. ASSUME NEW g \in Folders, Keyed(g)'
        PROVE  told'[g] \cap mailbox'[g] \subseteq Held(g)'
    <3>1. CASE g = f
      <4>1. Known(f) \cap mailbox[f] \subseteq Held(f)
        BY <1>0, <2>2 DEF Known, Accepted, KeysCovered, Keyed, TypeOK, SyncKeyStates
      <4>2. Held(f) \cup p.added \subseteq Held(f)'
        BY <1>1, <1>2, <2>3 DEF Held
      <4>3. QED
        BY <2>2, <2>5, <3>1, <4>1, <4>2
    <3>2. CASE g # f
      BY <1>0, <1>1, <1>2, <2>2, <2>4, <2>9, <3>2 DEF KeysCovered, Keyed, Held
    <3>3. QED
      BY <3>1, <3>2
  <2>10. QED
    BY <2>7, <2>8, <2>9 DEF KeysCovered, Keyed
<1>6. CASE StartSync(f) \/ PullNothing(f) \/ PullStatus3(f) \/ PullError(f)
           \/ PullStatus5(f) \/ ApplyNothing(f)
  <2>1. UNCHANGED <<mailbox, born, told>>
    BY <1>6 DEF StartSync, PullNothing, PullStatus3, PullError, PullStatus5,
                ApplyNothing
  <2>2. /\ pushed' = pushed
        /\ \A g \in Folders \ {f} : flight'[g] = flight[g] /\ SyncKeys'[g] = SyncKeys[g]
    BY <1>0, <1>6 DEF StartSync, PullNothing, PullStatus3, PullError,
                      PullStatus5, ApplyNothing, TypeOK
  <2>3. CASE StartSync(f) \/ ApplyNothing(f)
    <3>1. flight'[f].got = NoBatch /\ flight[f].got = NoBatch /\ SyncKeys' = SyncKeys
      BY <1>0, <2>3 DEF StartSync, ApplyNothing, Idle, IdleIsEmpty, TypeOK
    <3>2. NothingReturns' /\ IdleIsEmpty'
      BY <1>0, <1>1, <2>1, <2>2, <3>1 DEF NothingReturns, IdleIsEmpty, NoBatch
    <3>3. KeysCovered'
      BY <1>0, <1>1, <1>2, <2>1, <2>2, <3>1 DEF KeysCovered, Keyed, Held
    <3>4. QED
      BY <3>2, <3>3
  <2>4. CASE PullNothing(f) \/ PullError(f) \/ PullStatus3(f)
    <3>1. /\ flight'[f].got = flight[f].got /\ flight'[f].phase # "idle"
          /\ SyncKeys'[f] = SyncKeys[f] \/ SyncKeys'[f] = "none"
      <4>1. flight \in [Folders -> Flights] /\ flight[f] \in Flights
        BY <1>0 DEF TypeOK
      <4>2. flight[f].phase = "pull"
        BY <2>4 DEF PullNothing, PullError, PullStatus3
      <4>3. \/ flight' = [flight EXCEPT ![f].phase = "apply"]
            \/ flight' = [flight EXCEPT ![f].moved = TRUE]
        BY <2>4 DEF PullNothing, PullError, PullStatus3
      <4>4. flight'[f].got = flight[f].got /\ flight'[f].phase # "idle"
        BY <4>1, <4>2, <4>3 DEF Flights
      <4>5. SyncKeys'[f] = SyncKeys[f] \/ SyncKeys'[f] = "none"
        BY <1>0, <2>4 DEF PullNothing, PullError, PullStatus3, TypeOK
      <4>6. QED
        BY <4>4, <4>5
    <3>2. NothingReturns' /\ IdleIsEmpty'
      BY <1>0, <1>1, <2>1, <2>2, <3>1 DEF NothingReturns, IdleIsEmpty
    <3>3. KeysCovered'
      BY <1>0, <1>1, <1>2, <2>1, <2>2, <3>1 DEF KeysCovered, Keyed, Held
    <3>4. QED
      BY <3>2, <3>3
  <2>5. CASE PullStatus5(f)
    <3>1. /\ flight'[f].got = NoBatch /\ flight'[f].phase # "idle"
          /\ SyncKeys'[f] = "none" /\ pushed[f] = "none"
      BY <1>0, <2>5 DEF PullStatus5, TypeOK, Flights
    <3>2. NothingReturns' /\ IdleIsEmpty'
      BY <1>0, <1>1, <2>1, <2>2, <3>1 DEF NothingReturns, IdleIsEmpty, NoBatch
    <3>3. KeysCovered'
      BY <1>0, <1>1, <1>2, <2>1, <2>2, <3>1 DEF KeysCovered, Keyed, Held
    <3>4. QED
      BY <3>2, <3>3
  <2>6. QED
    BY <1>6, <2>3, <2>4, <2>5
<1>7. QED
  BY <1>3, <1>4, <1>5, <1>6

(* Steps that change the list, and flag pushes.                            *)
LEMMA DeliveryApply ==
    ASSUME DeliveryInv, TypeOK', NEW f \in Folders, Apply(f)
    PROVE  DeliveryInv'
<1>0. TypeOK /\ MapBelowNext /\ NothingReturns /\ IdleIsEmpty /\ KeysCovered
  BY DEF DeliveryInv
<1> DEFINE got == flight[f].got
           cnt == Merged(f, got)
<1>1. cnt \in [Msgs -> Nat] /\ AssignUIDs(f, cnt)
  BY <1>0, MergedType DEF Apply
<1>2. MapBelowNext' /\ Items' = [Items EXCEPT ![f] = cnt]
  BY <1>0, <1>1, MapBelowNextAssign
<1>3. /\ UNCHANGED <<mailbox, born, told, SyncKeys, pushed, moves>>
      /\ flight'[f].got = NoBatch
      /\ \A g \in Folders \ {f} : flight'[g] = flight[g]
  BY <1>0 DEF Apply, server, Idle, TypeOK
<1>4. Visible(f)' = (Visible(f) \cup got.upserts) \ got.deleted
  <2>1. Items'[f] = cnt /\ Items[f] \in [Msgs -> Nat]
    BY <1>0, <1>2 DEF TypeOK
  <2>2. got.upserts \subseteq Msgs
    BY <1>0 DEF TypeOK, Flights, Batches
  <2>3. \A m \in Msgs : cnt[m] = IF m \in got.deleted THEN 0
                                ELSE IF Items[f][m] = 0 /\ m \in got.upserts THEN 1
                                ELSE Items[f][m]
    BY DEF Merged
  <2>4. ASSUME NEW m \in Msgs
        PROVE  cnt[m] > 0 <=> (Items[f][m] > 0 \/ m \in got.upserts) /\ m \notin got.deleted
    BY <2>1, <2>3
  <2>5. QED
    BY <2>1, <2>2, <2>4 DEF Visible
<1>5. \A g \in Folders \ {f} : Visible(g)' = Visible(g)
  BY <1>0, <1>2 DEF Visible, TypeOK
<1>6. NothingReturns' /\ IdleIsEmpty'
  BY <1>0, <1>3 DEF NothingReturns, IdleIsEmpty, NoBatch
<1>7. ASSUME NEW g \in Folders, Keyed(g)'
      PROVE  told'[g] \cap mailbox'[g] \subseteq Held(g)'
  <2>1. told[g] \cap mailbox[g] \subseteq Held(g)
    BY <1>0, <1>3, <1>7 DEF KeysCovered, Keyed
  <2>2. CASE g = f
    BY <1>0, <1>3, <1>4, <2>1, <2>2 DEF Held, NothingReturns
  <2>3. CASE g # f
    BY <1>3, <1>5, <2>1, <2>3 DEF Held
  <2>4. QED
    BY <2>2, <2>3
<1>8. QED
  BY <1>2, <1>6, <1>7 DEF DeliveryInv, KeysCovered, Keyed

LEMMA DeliveryPush ==
    ASSUME DeliveryInv, TypeOK', "pushback" \notin Faults, NEW f \in Folders,
           \/ PullReplyLost(f) \/ PushEmailChanges(f) \/ PushReply(f)
           \/ PushReplyLost(f) \/ PushStatus3(f)
    PROVE  DeliveryInv'
<1>0. TypeOK /\ MapBelowNext /\ NothingReturns /\ IdleIsEmpty /\ KeysCovered
  BY DEF DeliveryInv
<1>1. UNCHANGED <<mailbox, born, Items, UIDs, NextUID, moves>>
  BY DEF PullReplyLost, PushEmailChanges, PushReply, PushReplyLost, PushStatus3,
         server, memory
<1>2. /\ \A g \in Folders : flight'[g].got = flight[g].got
      /\ \A g \in Folders : flight'[g].phase = "idle" => flight[g].phase = "idle"
  <2>1. flight \in [Folders -> Flights] /\ flight[f] \in Flights
    BY <1>0 DEF TypeOK
  <2>2. \/ flight' = flight
        \/ flight' = [flight EXCEPT ![f].phase = "apply"]
        \/ \E b \in BOOLEAN : flight' = [flight EXCEPT ![f].moved = b]
    BY <2>1 DEF PullReplyLost, PushEmailChanges, PushReply, PushReplyLost,
                PushStatus3, Flights
  <2>3. QED
    BY <2>1, <2>2 DEF Flights
<1>3. \A g \in Folders \ {f} : /\ told'[g] = told[g] /\ SyncKeys'[g] = SyncKeys[g]
                              /\ pushed'[g] = pushed[g]
  BY <1>0 DEF PullReplyLost, PushEmailChanges, PushReply, PushReplyLost,
              PushStatus3, KeyAdvances, server, memory, TypeOK
<1>4. /\ told'[f] \subseteq told[f]
      /\ Keyed(f)' => \/ told'[f] = {}
                      \/ told'[f] = Known(f) /\ Accepted(f)
                      \/ told'[f] = told[f] /\ Keyed(f)
  <2>0. Known(f) \subseteq told[f]
    BY DEF Known
  <2>1. CASE PullReplyLost(f)
    BY <1>0, <2>1 DEF PullReplyLost, server, Superseded, Keyed, TypeOK
  <2>2. CASE PushEmailChanges(f)
    <3>1. told' = [told EXCEPT ![f] = Known(f)] /\ Accepted(f)
      BY <2>2 DEF PushEmailChanges
    <3>2. QED
      BY <1>0, <2>0, <3>1 DEF TypeOK
  <2>3. CASE PushReply(f)
    BY <1>0, <2>3 DEF PushReply, server, Keyed, TypeOK
  <2>4. CASE PushReplyLost(f)
    BY <1>0, <2>4 DEF PushReplyLost, server, memory, Keyed, TypeOK
  <2>5. CASE PushStatus3(f)
    BY <1>0, <2>5 DEF PushStatus3, KeyAdvances, TypeOK
  <2>6. QED
    BY <2>1, <2>2, <2>3, <2>4, <2>5
<1>5. MapBelowNext' /\ NothingReturns' /\ IdleIsEmpty'
  <2>1. \A g \in Folders : told'[g] \subseteq told[g]
    BY <1>3, <1>4
  <2>2. QED
    <3>1. MapBelowNext'
      BY <1>0, <1>1 DEF MapBelowNext
    <3>2. NothingReturns'
      BY <1>0, <1>1, <1>2, <2>1 DEF NothingReturns
    <3>3. IdleIsEmpty'
      BY <1>0, <1>2 DEF IdleIsEmpty
    <3>4. QED
      BY <3>1, <3>2, <3>3
<1>6. ASSUME NEW g \in Folders, Keyed(g)'
      PROVE  told'[g] \cap mailbox'[g] \subseteq Held(g)'
  <2>1. Held(g)' = Held(g)
    <3>1. flight'[g].got.upserts = flight[g].got.upserts
      BY <1>2
    <3>2. Visible(g)' = Visible(g)
      BY <1>1 DEF Visible
    <3>3. QED
      BY <1>1, <3>1, <3>2 DEF Held
  <2>2. CASE g = f
    <3>1. Known(f) \cap mailbox[f] \subseteq Held(f) \/ ~Accepted(f)
      BY <1>0 DEF Known, Accepted, KeysCovered, Keyed, TypeOK, SyncKeyStates
    <3>2. Keyed(f) => told[f] \cap mailbox[f] \subseteq Held(f)
      BY <1>0 DEF KeysCovered
    <3>3. QED
      BY <1>1, <1>4, <1>6, <2>1, <2>2, <3>1, <3>2
  <2>3. CASE g # f
    BY <1>0, <1>1, <1>3, <1>6, <2>1, <2>3 DEF KeysCovered, Keyed
  <2>4. QED
    BY <2>2, <2>3
<1>7. QED
  BY <1>5, <1>6 DEF DeliveryInv, KeysCovered

LEMMA DeliveryMove ==
    ASSUME DeliveryInv, TypeOK', "moveLost" \notin Faults, NEW src \in Folders,
           NEW dst \in Folders, NEW m \in Msgs, NEW n \in Msgs,
           MoveItems(src, dst, m, n)
    PROVE  DeliveryInv'
<1>0. TypeOK /\ MapBelowNext /\ NothingReturns /\ IdleIsEmpty /\ KeysCovered
  BY DEF DeliveryInv
<1> DEFINE v == [src |-> src, dst |-> dst, from |-> m, to |-> n, stage |-> "remove"]
<1>1. /\ src # dst /\ m \in mailbox[src] /\ n \notin born
      /\ born' = born \cup {n} /\ moves' = moves \cup {v}
      /\ UNCHANGED <<Items, UIDs, NextUID, SyncKeys, pushed, flight>>
  BY DEF MoveItems, memory
<1>2. /\ mailbox'[src] = mailbox[src] \ {m} /\ told'[src] = told[src] \ {m}
      /\ mailbox'[dst] = mailbox[dst] \cup {n} /\ told'[dst] = told[dst] \cup {n}
      /\ \A g \in Folders \ {src, dst} : mailbox'[g] = mailbox[g] /\ told'[g] = told[g]
  BY <1>0, <1>1 DEF MoveItems, TypeOK
<1>3. MapBelowNext' /\ IdleIsEmpty'
  BY <1>0, <1>1 DEF MapBelowNext, IdleIsEmpty
<1>4. NothingReturns'
  <2>1. \A g \in Folders : mailbox'[g] \subseteq mailbox[g] \cup {n}
    BY <1>2
  <2>2. ASSUME NEW g \in Folders
        PROVE  /\ mailbox'[g] \subseteq born' /\ told'[g] \subseteq born'
               /\ flight'[g].got.deleted \subseteq born' \ mailbox'[g]
    <3>1. /\ mailbox[g] \subseteq born /\ told[g] \subseteq born
          /\ flight[g].got.deleted \subseteq born \ mailbox[g]
      BY <1>0 DEF NothingReturns
    <3>2. told'[g] \subseteq told[g] \cup {n}
      BY <1>2
    <3>3. QED
      BY <1>1, <2>1, <3>1, <3>2
  <2>3. m \in born' \ mailbox'[src]
    BY <1>0, <1>1, <1>2 DEF NothingReturns
  <2>4. \A w \in moves : w.from \in born' \ mailbox'[w.src]
    <3>1. \A w \in moves : w.src \in Folders
      BY <1>0 DEF TypeOK, Moves
    <3>2. QED
      BY <1>0, <1>1, <2>1, <3>1 DEF NothingReturns
  <2>5. v.from = m /\ v.src = src
    OBVIOUS
  <2>6. QED
    BY <1>1, <2>2, <2>3, <2>4, <2>5 DEF NothingReturns
<1>5. ASSUME NEW g \in Folders, Keyed(g)'
      PROVE  told'[g] \cap mailbox'[g] \subseteq Held(g)'
  <2>1. told[g] \cap mailbox[g] \subseteq Held(g)
    BY <1>0, <1>1, <1>5 DEF KeysCovered, Keyed
  <2>2. v.dst = dst /\ v.to = n
    OBVIOUS
  <2> HIDE DEF v
  <2>3. Held(g) \subseteq Held(g)' /\ (g = dst => n \in Held(g)')
    BY <1>1, <2>2 DEF Held, Visible
  <2>4. CASE g = dst
    BY <1>0, <1>1, <1>2, <2>1, <2>3, <2>4 DEF NothingReturns
  <2>5. CASE g # dst
    BY <1>2, <2>1, <2>3, <2>5
  <2>6. QED
    BY <2>4, <2>5
<1>6. QED
  BY <1>3, <1>4, <1>5 DEF DeliveryInv, KeysCovered, Keyed

LEMMA DeliveryRemove ==
    ASSUME DeliveryInv, TypeOK', "shardFails" \notin Faults, NEW v \in moves,
           RemoveItems(v)
    PROVE  DeliveryInv'
<1>0. TypeOK /\ MapBelowNext /\ NothingReturns /\ IdleIsEmpty /\ KeysCovered
  BY DEF DeliveryInv
<1> DEFINE w == [v EXCEPT !.stage = "add"]
<1>1. /\ UNCHANGED <<mailbox, born, told, UIDs, NextUID, SyncKeys, pushed, flight>>
      /\ moves' = (moves \ {v}) \cup {w}
      /\ Items' = [Items EXCEPT ![v.src][v.from] = 0]
  BY DEF RemoveItems, server
<1>2. v.src \in Folders /\ v.from \in Msgs /\ v \in Moves
  BY <1>0 DEF TypeOK, Moves
<1>3. w.src = v.src /\ w.dst = v.dst /\ w.from = v.from /\ w.to = v.to
  BY <1>2 DEF Moves
<1> HIDE DEF w
<1>4. MapBelowNext' /\ NothingReturns' /\ IdleIsEmpty'
  BY <1>0, <1>1, <1>3 DEF MapBelowNext, NothingReturns, IdleIsEmpty
<1>5. ASSUME NEW g \in Folders, Keyed(g)'
      PROVE  told'[g] \cap mailbox'[g] \subseteq Held(g)'
  <2>1. told[g] \cap mailbox[g] \subseteq Held(g)
    BY <1>0, <1>1, <1>5 DEF KeysCovered, Keyed
  <2>2. \A x \in Visible(g) \ Visible(g)' : g = v.src /\ x = v.from
    BY <1>0, <1>1, <1>2 DEF Visible, TypeOK
  <2>3. \A x \in Visible(g) : x \in Visible(g)' \/ x \notin mailbox[g]
    BY <1>0, <2>2 DEF NothingReturns
  <2>4. \A u \in moves : \E z \in moves' : z.dst = u.dst /\ z.to = u.to
    BY <1>1, <1>3
  <2>5. QED
    BY <1>1, <2>1, <2>3, <2>4 DEF Held
<1>6. QED
  BY <1>4, <1>5 DEF DeliveryInv, KeysCovered, Keyed

LEMMA DeliveryAdd ==
    ASSUME DeliveryInv, TypeOK', NEW v \in moves, AddMovedItems(v)
    PROVE  DeliveryInv'
<1>0. TypeOK /\ MapBelowNext /\ NothingReturns /\ IdleIsEmpty /\ KeysCovered
  BY DEF DeliveryInv
<1>1. v.dst \in Folders /\ v.to \in Msgs
  BY <1>0 DEF TypeOK, Moves
<1> DEFINE cnt == [Items[v.dst] EXCEPT ![v.to] = @ + 1]
<1>2. Items[v.dst] \in [Msgs -> Nat] /\ cnt \in [Msgs -> Nat] /\ AssignUIDs(v.dst, cnt)
  BY <1>0, <1>1 DEF TypeOK, AddMovedItems
<1>3. MapBelowNext' /\ Items' = [Items EXCEPT ![v.dst] = cnt]
  BY <1>0, <1>1, <1>2, MapBelowNextAssign
<1>4. UNCHANGED <<mailbox, born, told, SyncKeys, pushed, flight>> /\ moves' = moves \ {v}
  BY DEF AddMovedItems, server
<1>5. NothingReturns' /\ IdleIsEmpty'
  BY <1>0, <1>4 DEF NothingReturns, IdleIsEmpty
<1>6. ASSUME NEW g \in Folders, Keyed(g)'
      PROVE  told'[g] \cap mailbox'[g] \subseteq Held(g)'
  <2>1. told[g] \cap mailbox[g] \subseteq Held(g)
    BY <1>0, <1>4, <1>6 DEF KeysCovered, Keyed
  <2>2. Visible(g) \subseteq Visible(g)' /\ (g = v.dst => v.to \in Visible(g)')
    <3>1. \A x \in Msgs : cnt[x] \in Nat /\ cnt[x] >= Items[v.dst][x]
      BY <1>1, <1>2
    <3>2. cnt[v.to] > 0
      BY <1>1, <1>2
    <3>3. CASE g = v.dst
      <4>1. Items'[g] = cnt
        BY <1>0, <1>1, <1>3, <3>3 DEF TypeOK
      <4>2. \A x \in Msgs : Items[v.dst][x] \in Nat
        BY <1>2
      <4> HIDE DEF cnt
      <4>3. QED
        BY <1>1, <3>1, <3>2, <3>3, <4>1, <4>2 DEF Visible
    <3>4. CASE g # v.dst
      <4>1. Items'[g] = Items[g]
        BY <1>0, <1>3, <3>4 DEF TypeOK
      <4>2. QED
        BY <3>4, <4>1 DEF Visible
    <3>5. QED
      BY <3>3, <3>4
  <2>3. QED
    BY <1>4, <2>1, <2>2 DEF Held
<1>7. QED
  BY <1>3, <1>5, <1>6 DEF DeliveryInv, KeysCovered, Keyed

(* In a process that neither dies nor loses a shard write, whose flag      *)
(* pushes bring nothing back and cross no reset, and whose MoveItems       *)
(* requests are answered, no message the server reckons delivered is lost, *)
(* whatever pages fail, Sync replies get lost, keys are rejected or moves  *)
(* run alongside (syncMailOnce, removeItems, addMovedItems,                *)
(* pushEmailChanges).                                                      *)
THEOREM DeliveredMailIsKept ==
    ASSUME Faults \cap {"crash", "badShard", "shardFails", "pushback", "crossed",
                        "moveLost"} = {}
    PROVE  Spec => []NoMailLost
<1>1. DeliveryInv /\ [Next]_vars => DeliveryInv'
  <2> SUFFICES ASSUME DeliveryInv, [Next]_vars PROVE DeliveryInv'
    OBVIOUS
  <2>1. TypeOK'
    BY StepType DEF DeliveryInv
  <2>2. ASSUME WriteShard \/ UNCHANGED vars PROVE DeliveryInv'
    <3>1. UNCHANGED <<mailbox, born, told, Items, UIDs, NextUID, SyncKeys, pushed, flight, moves>>
      BY <2>2 DEF WriteShard, vars, server, memory, tasks
    <3>2. QED
      BY <2>1, <3>1 DEF DeliveryInv, MapBelowNext, NothingReturns, IdleIsEmpty,
                        KeysCovered, Keyed, Held, Visible
  <2>3. QED
    BY <2>1, <2>2, DeliveryPull, DeliveryApply, DeliveryPush, DeliveryMove,
       DeliveryRemove, DeliveryAdd
       DEF Next, Crash, RestartBadShard
<1>2. DeliveryInv => NoMailLost
  BY DEF DeliveryInv, KeysCovered, Keyed, NoMailLost
<1>3. QED
  BY <1>1, <1>2, DeliveryInit, PTL DEF Spec
=============================================================================
