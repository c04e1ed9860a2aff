---------------------------- MODULE SyncGateProofs ---------------------------
(***************************************************************************)
(* Proofs about SyncGate for any folders, any number of callers and any    *)
(* number of slots: the types, the slots and the breaker; the gate; and    *)
(* that a caller who waits has somebody at work to wait for.               *)
(***************************************************************************)
EXTENDS SyncGate, FiniteSetTheorems, TLAPS

(* Whoever leads a flight is the one the table of flights names.           *)
LeadersHoldFlights ==
    \A c \in Callers : pc[c] \in Leading => flight[at[c]] = c

Checked == {c \in Callers : pc[c] = "checked"}

(* The passes begun since the breaker opened, and those about to begin     *)
(* that have looked at it already, had their slots when it opened, and so  *)
(* had the one whose failure opened it.                                    *)
BreakerBound == tripped => Cardinality(late \cup Checked) < Slots

GateInv == TypeOK /\ LeadersHoldFlights /\ SlotsAreCounted /\ BreakerBound

LEMMA GateInvInit == Init => GateInv
<1> SUFFICES ASSUME Init PROVE GateInv
  OBVIOUS
<1>1. TypeOK
  <2>1. pc \in [Callers -> Outside \cup Leading
                          \cup {"passed", "ready", "joined", "back"}]
    BY DEF Init, Outside
  <2>2. result \in [Callers -> Results] /\ gone \in [Callers -> BOOLEAN]
    BY DEF Init, Results
  <2>3. flight \in [Folders -> Callers \cup {Nobody}]
    BY DEF Init
  <2>4. gate \in 0 .. Slots
    BY SlotsAssumption DEF Init
  <2>5. QED
    BY <2>1, <2>2, <2>3, <2>4 DEF Init, TypeOK
<1>2. LeadersHoldFlights
  BY DEF Init, LeadersHoldFlights, Leading, Holding
<1>3. Holders = {}
  BY DEF Init, Holders, Holding
<1>4. SlotsAreCounted
  BY <1>3, FS_EmptySet DEF Init, SlotsAreCounted
<1>5. QED
  BY <1>1, <1>2, <1>4 DEF GateInv, BreakerBound, Init

(* A slot is given back only by one who holds one.                         *)
LEMMA HoldersHaveTokens ==
    ASSUME TypeOK, SlotsAreCounted, NEW c \in Callers, pc[c] \in Holding
    PROVE  gate \in 1 .. Slots
<1>1. IsFiniteSet(Holders) /\ c \in Holders
  BY CallersAssumption, FS_Subset DEF Holders
<1>2. Cardinality(Holders) \in Nat /\ Cardinality(Holders) # 0
  BY <1>1, FS_CardinalityType, FS_EmptySet
<1>3. QED
  BY <1>2 DEF TypeOK, SlotsAreCounted

LEMMA TypeStep ==
    ASSUME TypeOK, SlotsAreCounted, Next
    PROVE  TypeOK'
<1> USE DEF TypeOK, Goes, GivesUp, callers, Outside, Leading, Holding, Results
<1>0. Folders \subseteq Callers /\ Readers \subseteq Callers
  BY DEF Callers
<1>1. CASE Tick
  BY <1>0, <1>1 DEF Tick
<1>2. ASSUME NEW f \in Folders,
             PollFolder(f) \/ Notify(f) \/ PollFailed(f) \/ BackoffEnds(f)
      PROVE  TypeOK'
  BY <1>0, <1>2 DEF PollFolder, Notify, PollFailed, BackoffEnds
<1>3. ASSUME NEW c \in Callers, NEW f \in Folders, Enter(c, f)
      PROVE  TypeOK'
  BY <1>3 DEF Enter
<1>4. ASSUME NEW c \in Callers, CheckBreaker(c) \/ Recheck(c)
      PROVE  TypeOK'
  BY <1>4 DEF CheckBreaker, Recheck
<1>5. ASSUME NEW c \in Callers, Lead(c) \/ Join(c) \/ BeginPass(c)
      PROVE  TypeOK'
  BY <1>5 DEF Lead, Join, BeginPass
<1>6. ASSUME NEW c \in Callers, AcquireSlot(c)
      PROVE  TypeOK'
  BY <1>6, SlotsAssumption DEF AcquireSlot
<1>7. ASSUME NEW c \in Callers, NEW o \in Outcomes, EndPass(c, o)
      PROVE  TypeOK'
  BY <1>7 DEF EndPass, Outcomes
<1>8. ASSUME NEW c \in Callers, ReleaseSlot(c)
      PROVE  TypeOK'
  <2>1. gate - 1 \in 0 .. Slots
    BY <1>8, HoldersHaveTokens, SlotsAssumption DEF ReleaseSlot
  <2>2. QED
    BY <1>8, <2>1 DEF ReleaseSlot
<1>9. ASSUME NEW c \in Callers, CloseFlight(c)
      PROVE  TypeOK'
  <2> DEFINE waiting == {d \in Callers : pc[d] = "joined" /\ at[d] = at[c]}
  <2>1. /\ pc' = [d \in Callers |->
                     IF d \in waiting \cup {c} THEN "back" ELSE pc[d]]
        /\ result' = [d \in Callers |->
                         IF d \in waiting THEN result[c] ELSE result[d]]
        /\ flight' = [flight EXCEPT ![at[c]] = Nobody]
        /\ UNCHANGED <<round, at, gone, gate, blocked, tripped, late>>
    BY <1>9 DEF CloseFlight
  <2> HIDE DEF waiting
  <2>2. QED
    BY <2>1
<1>10. ASSUME NEW r \in Callers,
              LeaveFlight(r) \/ LeaveQueue(r) \/ Cancel(r) \/ Return(r)
       PROVE  TypeOK'
  <2>1. CASE LeaveFlight(r) \/ LeaveQueue(r)
    BY <2>1 DEF LeaveFlight, LeaveQueue
  <2>2. CASE Cancel(r)
    BY <2>2 DEF Cancel
  <2>3. CASE Return(r)
    BY <2>3 DEF Return
  <2>4. QED
    BY <1>10, <2>1, <2>2, <2>3
<1>11. CASE BreakerCloses
  BY <1>11 DEF BreakerCloses
<1>12. QED
  BY <1>0, <1>1, <1>2, <1>3, <1>4, <1>5, <1>6, <1>7, <1>8, <1>9, <1>10, <1>11
  DEF Next, Step

(* Only Lead and CloseFlight touch the table, each at an entry that names  *)
(* no other leader.                                                        *)
LEMMA LeadersStep ==
    ASSUME TypeOK, LeadersHoldFlights, Next
    PROVE  LeadersHoldFlights'
<1> USE DEF TypeOK, LeadersHoldFlights, Goes, GivesUp, callers, Outside,
            Leading, Holding
<1>0. Folders \subseteq Callers /\ Readers \subseteq Callers
  BY DEF Callers
<1>1. CASE Tick \/ BreakerCloses
  BY <1>1 DEF Tick, BreakerCloses
<1>2. ASSUME NEW f \in Folders,
             PollFolder(f) \/ Notify(f) \/ PollFailed(f) \/ BackoffEnds(f)
      PROVE  LeadersHoldFlights'
  BY <1>0, <1>2 DEF PollFolder, Notify, PollFailed, BackoffEnds
<1>3. ASSUME NEW c \in Callers, NEW f \in Folders, Enter(c, f)
      PROVE  LeadersHoldFlights'
  BY <1>3 DEF Enter
<1>4. ASSUME NEW c \in Callers,
             CheckBreaker(c) \/ Recheck(c) \/ Join(c) \/ BeginPass(c)
      PROVE  LeadersHoldFlights'
  BY <1>4 DEF CheckBreaker, Recheck, Join, BeginPass
<1>5. ASSUME NEW c \in Callers, Lead(c)
      PROVE  LeadersHoldFlights'
  BY <1>5, CallersAssumption DEF Lead
<1>6. ASSUME NEW c \in Callers, AcquireSlot(c) \/ ReleaseSlot(c)
      PROVE  LeadersHoldFlights'
  BY <1>6 DEF AcquireSlot, ReleaseSlot
<1>7. ASSUME NEW c \in Callers, NEW o \in Outcomes, EndPass(c, o)
      PROVE  LeadersHoldFlights'
  BY <1>7 DEF EndPass
<1>8. ASSUME NEW c \in Callers, CloseFlight(c)
      PROVE  LeadersHoldFlights'
  <2>1. \A d \in Callers : pc'[d] = pc[d] \/ pc'[d] = "back"
    BY <1>8 DEF CloseFlight
  <2>2. pc'[c] = "back" /\ at' = at
    BY <1>8 DEF CloseFlight
  <2>3. flight' = [flight EXCEPT ![at[c]] = Nobody]
    BY <1>8 DEF CloseFlight
  <2>4. flight[at[c]] = c
    BY <1>8 DEF CloseFlight
  <2>5. QED
    BY <2>1, <2>2, <2>3, <2>4
<1>9. ASSUME NEW r \in Callers,
             LeaveFlight(r) \/ LeaveQueue(r) \/ Cancel(r) \/ Return(r)
      PROVE  LeadersHoldFlights'
  BY <1>9 DEF LeaveFlight, LeaveQueue, Cancel, Return
<1>10. QED
  BY <1>0, <1>1, <1>2, <1>3, <1>4, <1>5, <1>6, <1>7, <1>8, <1>9
  DEF Next, Step

(* A token goes in with the caller that starts to hold a slot, and out     *)
(* with the one that stops.                                                *)
LEMMA SlotsStep ==
    ASSUME TypeOK, SlotsAreCounted, Next
    PROVE  SlotsAreCounted'
<1> USE DEF TypeOK, Goes, GivesUp, callers, Holding
<1>0. Folders \subseteq Callers /\ Readers \subseteq Callers
  BY DEF Callers
<1>a. IsFiniteSet(Holders)
  BY CallersAssumption, FS_Subset DEF Holders
<1>b. ASSUME Holders' = Holders, gate' = gate
      PROVE  SlotsAreCounted'
  BY <1>b DEF SlotsAreCounted
<1>1. CASE Tick \/ BreakerCloses
  BY <1>1, <1>b DEF Tick, BreakerCloses, Holders
<1>2. ASSUME NEW f \in Folders,
             PollFolder(f) \/ Notify(f) \/ PollFailed(f) \/ BackoffEnds(f)
      PROVE  SlotsAreCounted'
  <2>1. Holders' = Holders /\ gate' = gate
    BY <1>0, <1>2 DEF PollFolder, Notify, PollFailed, BackoffEnds, Holders
  <2>2. QED
    BY <2>1, <1>b
<1>3. ASSUME NEW c \in Callers, NEW f \in Folders, Enter(c, f)
      PROVE  SlotsAreCounted'
  <2>1. Holders' = Holders /\ gate' = gate
    BY <1>3 DEF Enter, Holders
  <2>2. QED
    BY <2>1, <1>b
<1>4. ASSUME NEW c \in Callers,
             \/ CheckBreaker(c) \/ Lead(c) \/ Join(c)
             \/ Recheck(c) \/ BeginPass(c)
      PROVE  SlotsAreCounted'
  <2>1. Holders' = Holders /\ gate' = gate
    BY <1>4 DEF CheckBreaker, Lead, Join, Recheck, BeginPass, Holders
  <2>2. QED
    BY <2>1, <1>b
<1>5. ASSUME NEW c \in Callers, AcquireSlot(c)
      PROVE  SlotsAreCounted'
  <2>1. c \notin Holders /\ Holders' = Holders \cup {c} /\ gate' = gate + 1
    BY <1>5 DEF AcquireSlot, Holders
  <2>2. QED
    BY <2>1, <1>a, FS_AddElement DEF SlotsAreCounted
<1>6. ASSUME NEW c \in Callers, ReleaseSlot(c)
      PROVE  SlotsAreCounted'
  <2>1. c \in Holders /\ Holders' = Holders \ {c} /\ gate' = gate - 1
    BY <1>6 DEF ReleaseSlot, Holders
  <2>2. QED
    BY <2>1, <1>a, FS_RemoveElement DEF SlotsAreCounted
<1>7. ASSUME NEW c \in Callers, NEW o \in Outcomes, EndPass(c, o)
      PROVE  SlotsAreCounted'
  <2>1. Holders' = Holders /\ gate' = gate
    BY <1>7 DEF EndPass, Holders
  <2>2. QED
    BY <2>1, <1>b
<1>8. ASSUME NEW c \in Callers, CloseFlight(c)
      PROVE  SlotsAreCounted'
  <2>1. \A d \in Callers :
           \/ pc'[d] = pc[d]
           \/ pc[d] \in {"joined", "closing"} /\ pc'[d] = "back"
    BY <1>8 DEF CloseFlight
  <2>2. Holders' = Holders /\ gate' = gate
    BY <1>8, <2>1 DEF CloseFlight, Holders
  <2>3. QED
    BY <2>2, <1>b
<1>9. ASSUME NEW r \in Callers,
             LeaveFlight(r) \/ LeaveQueue(r) \/ Cancel(r) \/ Return(r)
      PROVE  SlotsAreCounted'
  <2>1. Holders' = Holders /\ gate' = gate
    BY <1>9 DEF LeaveFlight, LeaveQueue, Cancel, Return, Holders
  <2>2. QED
    BY <2>1, <1>b
<1>10. QED
  BY <1>0, <1>1, <1>2, <1>3, <1>4, <1>5, <1>6, <1>7, <1>8, <1>9
  DEF Next, Step

(* While the breaker is open nobody passes Recheck, so the set only        *)
(* shrinks; when it opens, the checked callers hold slots and the one      *)
(* whose pass failed holds another.                                        *)
LEMMA BreakerStep ==
    ASSUME TypeOK, SlotsAreCounted, BreakerBound, Next
    PROVE  BreakerBound'
<1> USE DEF TypeOK, Goes, GivesUp, callers
<1>0. Folders \subseteq Callers /\ Readers \subseteq Callers
  BY DEF Callers
<1>a. IsFiniteSet(late \cup Checked)
  BY CallersAssumption, FS_Subset DEF Checked
<1>b. ASSUME tripped' => tripped /\ late' \cup Checked' \subseteq late \cup Checked
      PROVE  BreakerBound'
  <2>1. SUFFICES ASSUME tripped'
                 PROVE  Cardinality(late' \cup Checked') < Slots
    BY DEF BreakerBound
  <2>2. Cardinality(late' \cup Checked') <= Cardinality(late \cup Checked)
    BY <1>a, <1>b, <2>1, FS_Subset
  <2>3. /\ IsFiniteSet(late' \cup Checked')
        /\ Cardinality(late \cup Checked) \in Nat
    BY <1>a, <1>b, <2>1, FS_Subset, FS_CardinalityType
  <2>4. Cardinality(late' \cup Checked') \in Nat
    BY <2>3, FS_CardinalityType
  <2>5. QED
    BY <1>b, <2>1, <2>2, <2>3, <2>4, SlotsAssumption DEF BreakerBound
<1>1. CASE Tick
  BY <1>1, <1>b DEF Tick, Checked
<1>2. CASE BreakerCloses
  BY <1>2, <1>b DEF BreakerCloses
<1>3. ASSUME NEW f \in Folders,
             PollFolder(f) \/ Notify(f) \/ PollFailed(f) \/ BackoffEnds(f)
      PROVE  BreakerBound'
  <2>1. Checked' = Checked /\ tripped' = tripped /\ late' = late
    BY <1>0, <1>3 DEF PollFolder, Notify, PollFailed, BackoffEnds, Checked
  <2>2. QED
    BY <2>1, <1>b
<1>4. ASSUME NEW c \in Callers, NEW f \in Folders, Enter(c, f)
      PROVE  BreakerBound'
  <2>1. Checked' = Checked /\ tripped' = tripped /\ late' = late
    BY <1>4 DEF Enter, Checked
  <2>2. QED
    BY <2>1, <1>b
<1>5. ASSUME NEW c \in Callers,
             \/ CheckBreaker(c) \/ Lead(c) \/ Join(c)
             \/ AcquireSlot(c) \/ ReleaseSlot(c)
      PROVE  BreakerBound'
  <2>1. Checked' = Checked /\ tripped' = tripped /\ late' = late
    BY <1>5 DEF CheckBreaker, Lead, Join, AcquireSlot, ReleaseSlot, Checked
  <2>2. QED
    BY <2>1, <1>b
<1>6. ASSUME NEW c \in Callers, Recheck(c)
      PROVE  BreakerBound'
  <2>1. tripped' => tripped /\ Checked' = Checked /\ late' = late
    BY <1>6 DEF Recheck, Checked
  <2>2. QED
    BY <2>1, <1>b
<1>7. ASSUME NEW c \in Callers, BeginPass(c)
      PROVE  BreakerBound'
  <2>1. c \in Checked /\ Checked' = Checked \ {c}
    BY <1>7 DEF BeginPass, Checked
  <2>2. tripped' = tripped /\ (tripped => late' = late \cup {c})
    BY <1>7 DEF BeginPass
  <2>3. QED
    BY <2>1, <2>2, <1>b
<1>8. ASSUME NEW c \in Callers, NEW o \in Outcomes, EndPass(c, o)
      PROVE  BreakerBound'
  <2>1. Checked' = Checked
    BY <1>8 DEF EndPass, Checked
  <2>2. CASE tripped' => tripped
    <3>1. tripped' => late' = late
      BY <1>8, <2>2 DEF EndPass
    <3>2. QED
      BY <2>1, <2>2, <3>1, <1>b
  <2>3. CASE tripped' /\ ~tripped
    <3>1. late' = {}
      BY <1>8, <2>3 DEF EndPass
    <3>2. IsFiniteSet(Holders)
      BY CallersAssumption, FS_Subset DEF Holders
    <3>3. c \in Holders /\ c \notin Checked /\ Checked \subseteq Holders
      BY <1>8 DEF EndPass, Holders, Checked, Holding
    <3>4. IsFiniteSet(Checked)
      BY <3>2, <3>3, FS_Subset
    <3>5. Cardinality(Checked \cup {c}) = Cardinality(Checked) + 1
      BY <3>3, <3>4, FS_AddElement
    <3>6. Cardinality(Checked \cup {c}) <= Cardinality(Holders)
      BY <3>2, <3>3, FS_Subset
    <3>7. Cardinality(Checked) \in Nat
      BY <3>4, FS_CardinalityType
    <3>8. Cardinality(Checked) < Slots
      BY <3>5, <3>6, <3>7, SlotsAssumption DEF SlotsAreCounted
    <3>9. late' \cup Checked' = Checked
      BY <2>1, <3>1
    <3>10. QED
      BY <3>8, <3>9 DEF BreakerBound
  <2>4. QED
    BY <2>2, <2>3
<1>9. ASSUME NEW c \in Callers, CloseFlight(c)
      PROVE  BreakerBound'
  <2>1. \A d \in Callers :
           \/ pc'[d] = pc[d]
           \/ pc[d] \in {"joined", "closing"} /\ pc'[d] = "back"
    BY <1>9 DEF CloseFlight
  <2>2. Checked' = Checked /\ tripped' = tripped /\ late' = late
    BY <1>9, <2>1 DEF CloseFlight, Checked
  <2>3. QED
    BY <2>2, <1>b
<1>10. ASSUME NEW r \in Callers,
              LeaveFlight(r) \/ LeaveQueue(r) \/ Cancel(r) \/ Return(r)
       PROVE  BreakerBound'
  <2>1. Checked' = Checked /\ tripped' = tripped /\ late' = late
    BY <1>10 DEF LeaveFlight, LeaveQueue, Cancel, Return, Checked
  <2>2. QED
    BY <2>1, <1>b
<1>11. QED
  BY <1>0, <1>1, <1>2, <1>3, <1>4, <1>5, <1>6, <1>7, <1>8, <1>9, <1>10
  DEF Next, Step

LEMMA GateInvStep == GateInv /\ [Next]_vars => GateInv'
<1>1. ASSUME GateInv, Next PROVE GateInv'
  BY <1>1, TypeStep, LeadersStep, SlotsStep, BreakerStep DEF GateInv
<1>2. ASSUME GateInv, UNCHANGED vars PROVE GateInv'
  BY <1>2 DEF vars, callers, GateInv, TypeOK, LeadersHoldFlights,
              SlotsAreCounted, Holders, BreakerBound, Checked
<1>3. QED
  BY <1>1, <1>2

(* Slots are never leaked or given back twice, and an open breaker lets    *)
(* fewer than Slots more passes through to the server, whatever number of  *)
(* callers queue, fail and give up (acquireSyncSlot, releaseSyncSlot and   *)
(* the second test of the breaker in syncMail).                            *)
THEOREM BreakerHolds == Spec => [](TypeOK /\ SlotsAreCounted /\ BreakerSpares)
<1>1. GateInv => TypeOK /\ SlotsAreCounted /\ BreakerSpares
  <2> SUFFICES ASSUME GateInv, tripped PROVE Cardinality(late) < Slots
    BY DEF GateInv, BreakerSpares
  <2>1. IsFiniteSet(late \cup Checked)
    BY CallersAssumption, FS_Subset DEF Checked, GateInv, TypeOK
  <2>2. Cardinality(late) <= Cardinality(late \cup Checked)
    BY <2>1, FS_Subset
  <2>3. /\ Cardinality(late \cup Checked) \in Nat
        /\ IsFiniteSet(late)
    BY <2>1, FS_Subset, FS_CardinalityType
  <2>4. Cardinality(late) \in Nat
    BY <2>3, FS_CardinalityType
  <2>5. QED
    BY <2>2, <2>3, <2>4, SlotsAssumption DEF GateInv, BreakerBound
<1>2. QED
  BY <1>1, GateInvInit, GateInvStep, PTL DEF Spec
-----------------------------------------------------------------------------
(* Every step of SyncGate is a step of PassGate or a stutter.              *)

(* Steps that neither begin nor end a pass, and turn nobody elsewhere.     *)
LEMMA OthersStutter ==
    ASSUME TypeOK,
           \/ Tick \/ BreakerCloses
           \/ \E f \in Folders :
                PollFolder(f) \/ Notify(f) \/ PollFailed(f) \/ BackoffEnds(f)
           \/ \E c \in Callers :
                \/ CheckBreaker(c) \/ Lead(c) \/ Join(c) \/ AcquireSlot(c)
                \/ Recheck(c) \/ ReleaseSlot(c) \/ CloseFlight(c)
           \/ \E r \in Readers :
                LeaveFlight(r) \/ LeaveQueue(r) \/ Cancel(r) \/ Return(r)
    PROVE  UNCHANGED <<Pulling, at>>
<1> USE DEF TypeOK, Goes, GivesUp, callers, Pulling
<1>0. Folders \subseteq Callers /\ Readers \subseteq Callers
  BY DEF Callers
<1>1. CASE Tick \/ BreakerCloses
  BY <1>1 DEF Tick, BreakerCloses
<1>2. ASSUME NEW f \in Folders,
             PollFolder(f) \/ Notify(f) \/ PollFailed(f) \/ BackoffEnds(f)
      PROVE  UNCHANGED <<Pulling, at>>
  BY <1>0, <1>2 DEF PollFolder, Notify, PollFailed, BackoffEnds
<1>3. ASSUME NEW c \in Callers,
             \/ CheckBreaker(c) \/ Lead(c) \/ Join(c) \/ AcquireSlot(c)
             \/ Recheck(c) \/ ReleaseSlot(c)
      PROVE  UNCHANGED <<Pulling, at>>
  BY <1>3 DEF CheckBreaker, Lead, Join, AcquireSlot, Recheck, ReleaseSlot
<1>4. ASSUME NEW c \in Callers, CloseFlight(c)
      PROVE  UNCHANGED <<Pulling, at>>
  <2>1. \A d \in Callers :
           \/ pc'[d] = pc[d]
           \/ pc[d] \in {"joined", "closing"} /\ pc'[d] = "back"
    BY <1>4 DEF CloseFlight
  <2>2. QED
    BY <1>4, <2>1 DEF CloseFlight
<1>5. ASSUME NEW r \in Callers,
             LeaveFlight(r) \/ LeaveQueue(r) \/ Cancel(r) \/ Return(r)
      PROVE  UNCHANGED <<Pulling, at>>
  BY <1>5 DEF LeaveFlight, LeaveQueue, Cancel, Return
<1>6. QED
  BY <1>0, <1>1, <1>2, <1>3, <1>4, <1>5

(* A caller about to begin leads the flight of its folder, so nobody else  *)
(* is in a pass there, and holds one of the slots the others do not.       *)
LEMMA BeginIsGated ==
    ASSUME GateInv, NEW c \in Callers, BeginPass(c)
    PROVE  Gate!Begin(c)
<1> USE DEF GateInv, TypeOK
<1>1. /\ pc[c] = "checked"
      /\ pc' = [pc EXCEPT ![c] = "pulling"]
      /\ at' = at
  BY DEF BeginPass, Goes
<1>2. c \notin Pulling /\ Pulling' = Pulling \cup {c}
  BY <1>1 DEF Pulling
<1>3. ASSUME NEW d \in Pulling PROVE at[d] # at[c]
  <2>1. d \in Callers /\ pc[d] = "pulling" /\ d # c
    BY <1>1, <1>3 DEF Pulling
  <2>2. flight[at[d]] = d /\ flight[at[c]] = c
    BY <1>1, <2>1 DEF LeadersHoldFlights, Leading, Holding
  <2>3. QED
    BY <2>1, <2>2
<1>4. Cardinality(Pulling) < Slots
  <2>1. IsFiniteSet(Holders) /\ IsFiniteSet(Pulling)
    BY CallersAssumption, FS_Subset DEF Holders, Pulling
  <2>2. Pulling \cup {c} \subseteq Holders
    BY <1>1 DEF Pulling, Holders, Holding
  <2>3. Cardinality(Pulling \cup {c}) <= Cardinality(Holders)
    BY <2>1, <2>2, FS_Subset
  <2>4. Cardinality(Pulling \cup {c}) = Cardinality(Pulling) + 1
    BY <1>2, <2>1, FS_AddElement
  <2>5. Cardinality(Pulling) \in Nat
    BY <2>1, FS_CardinalityType
  <2>6. QED
    BY <2>3, <2>4, <2>5, SlotsAssumption DEF SlotsAreCounted
<1>5. Gate!Cardinality(Pulling) = Cardinality(Pulling)
  BY DEF Gate!Cardinality, Cardinality
<1>6. QED
  BY <1>1, <1>2, <1>3, <1>4, <1>5 DEF Gate!Begin

LEMMA GateRefines ==
    GateInv /\ [Next]_vars => [Gate!Next]_(Gate!vars)
<1> USE DEF Gate!Next, Gate!vars
<1>1. ASSUME GateInv, UNCHANGED vars
      PROVE  UNCHANGED <<Pulling, at>>
  BY <1>1 DEF vars, callers, Pulling
<1>2. ASSUME GateInv, NEW c \in Callers, BeginPass(c)
      PROVE  Gate!Next
  BY <1>2, BeginIsGated
<1>3. ASSUME GateInv, NEW c \in Callers, NEW o \in Outcomes, EndPass(c, o)
      PROVE  Gate!Next
  <2>1. Pulling' = Pulling \ {c} /\ at' = at
    BY <1>3 DEF GateInv, TypeOK, EndPass, GivesUp, Goes, Pulling
  <2>2. QED
    BY <2>1 DEF Gate!End
<1>4. ASSUME GateInv, NEW c \in Callers, NEW f \in Folders, Enter(c, f)
      PROVE  Gate!Next
  <2>1. c \notin Pulling /\ Pulling' = Pulling
    BY <1>4 DEF GateInv, TypeOK, Enter, GivesUp, Goes, Pulling
  <2>2. at' = [at EXCEPT ![c] = f]
    BY <1>4 DEF Enter
  <2>3. QED
    BY <2>1, <2>2 DEF Gate!TurnTo
<1>5. QED
  BY <1>1, <1>2, <1>3, <1>4, OthersStutter DEF GateInv, Next, Step

(* Passes are begun one at a time per folder and no more than Slots at     *)
(* once: syncMail with its flights and slots implements the gate MailStore *)
(* takes for granted (flightGroup.DoContext, acquireSyncSlot).             *)
THEOREM GateImplemented == Spec => PassesAreGated
<1>1. Init => Gate!Init
  <2> SUFFICES ASSUME Init PROVE Gate!Init
    OBVIOUS
  <2>1. Pulling = {}
    BY DEF Init, Pulling
  <2>2. QED
    BY <2>1 DEF Init, Gate!Init
<1>2. QED
  BY <1>1, GateInvInit, GateInvStep, GateRefines, PTL
  DEF Spec, PassesAreGated, Gate!Spec

-----------------------------------------------------------------------------
(* Nobody is left behind.                                                  *)

(* A flight in the table has a leader at work, and whoever joined it finds *)
(* it there.                                                               *)
FlightsAreLed ==
    /\ \A f \in Folders : flight[f] # Nobody => pc[flight[f]] \in Leading /\ at[flight[f]] = f
    /\ \A c \in Callers : pc[c] = "joined" => flight[at[c]] # Nobody

(* A caller goes on without touching the table.                            *)
LEMMA GoesOnLed ==
    ASSUME TypeOK, FlightsAreLed, NEW c \in Callers, NEW to, Goes(c, pc[c], to),
           UNCHANGED flight,
           at' = at \/ (pc[c] \notin Leading /\ \E f \in Folders : at' = [at EXCEPT ![c] = f]),
           pc[c] \in Leading => to \in Leading,
           to = "joined" => at' = at /\ flight[at[c]] # Nobody
    PROVE  FlightsAreLed'
<1>1. \A d \in Callers : pc'[d] = IF d = c THEN to ELSE pc[d]
  BY DEF TypeOK, Goes
<1>2. \A d \in Callers \ {c} : at'[d] = at[d]
  BY DEF TypeOK
<1>3. ASSUME NEW f \in Folders, flight[f] # Nobody
      PROVE  pc'[flight[f]] \in Leading /\ at'[flight[f]] = f
  <2>1. flight[f] \in Callers /\ pc[flight[f]] \in Leading /\ at[flight[f]] = f
    BY <1>3 DEF TypeOK, FlightsAreLed
  <2>2. QED
    BY <1>1, <1>2, <2>1
<1>4. ASSUME NEW d \in Callers, pc'[d] = "joined" PROVE flight[at'[d]] # Nobody
  BY <1>1, <1>2, <1>4 DEF FlightsAreLed
<1>5. QED
  BY <1>3, <1>4 DEF FlightsAreLed

(* The leader takes the flight with it, and everybody who joined it.       *)
LEMMA CloseLed ==
    ASSUME TypeOK, LeadersHoldFlights, FlightsAreLed, NEW c \in Callers, CloseFlight(c)
    PROVE  FlightsAreLed'
<1>1. /\ pc[c] = "closing" /\ at' = at /\ flight' = [flight EXCEPT ![at[c]] = Nobody]
      /\ pc' = [d \in Callers |-> IF d = c \/ (pc[d] = "joined" /\ at[d] = at[c]) THEN "back" ELSE pc[d]]
  BY DEF CloseFlight
<1>2. \A f \in Folders : flight'[f] = IF f = at[c] THEN Nobody ELSE flight[f]
  BY <1>1 DEF TypeOK
<1>3. ASSUME NEW f \in Folders, flight'[f] # Nobody
      PROVE  pc'[flight'[f]] \in Leading /\ at'[flight'[f]] = f
  <2>1. f # at[c] /\ flight'[f] = flight[f] /\ flight[f] \in Callers
    BY <1>2, <1>3 DEF TypeOK
  <2>2. pc[flight[f]] \in Leading /\ at[flight[f]] = f
    BY <1>3, <2>1 DEF FlightsAreLed
  <2>3. flight[f] # c /\ pc[flight[f]] # "joined"
    BY <2>1, <2>2 DEF Leading, Holding
  <2>4. QED
    BY <1>1, <2>1, <2>2, <2>3
<1>4. ASSUME NEW d \in Callers, pc'[d] = "joined" PROVE flight'[at'[d]] # Nobody
  <2>1. pc[d] = "joined" /\ at[d] # at[c]
    BY <1>1, <1>4
  <2>2. at[d] \in Folders
    BY DEF TypeOK
  <2>3. QED
    BY <1>1, <1>2, <2>1, <2>2 DEF FlightsAreLed
<1>5. QED
  BY <1>3, <1>4 DEF FlightsAreLed

(* A new leader enters an empty place of the table.                        *)
LEMMA LeadLed ==
    ASSUME TypeOK, FlightsAreLed, NEW c \in Callers, Lead(c)
    PROVE  FlightsAreLed'
<1>1. /\ flight[at[c]] = Nobody /\ pc[c] = "ready" /\ pc' = [pc EXCEPT ![c] = "queued"]
      /\ flight' = [flight EXCEPT ![at[c]] = c] /\ at' = at /\ c # Nobody
  BY CallersAssumption DEF Lead, Goes
<1>2. /\ \A f \in Folders : flight'[f] = IF f = at[c] THEN c ELSE flight[f]
      /\ \A d \in Callers : pc'[d] = (IF d = c THEN "queued" ELSE pc[d]) /\ at[d] \in Folders
  BY <1>1 DEF TypeOK
<1>3. ASSUME NEW f \in Folders, flight'[f] # Nobody
      PROVE  pc'[flight'[f]] \in Leading /\ at'[flight'[f]] = f
  <2>1. CASE f = at[c]
    BY <1>1, <1>2, <2>1 DEF Leading
  <2>2. CASE f # at[c]
    <3>1. flight'[f] = flight[f] /\ flight[f] \in Callers
      BY <1>2, <1>3, <2>2 DEF TypeOK
    <3>2. pc[flight[f]] \in Leading /\ at[flight[f]] = f
      BY <1>3, <3>1 DEF FlightsAreLed
    <3>3. QED
      BY <1>1, <1>2, <3>1, <3>2 DEF Leading
  <2>3. QED
    BY <2>1, <2>2
<1>4. ASSUME NEW d \in Callers, pc'[d] = "joined" PROVE flight'[at'[d]] # Nobody
  <2>1. pc[d] = "joined" /\ flight[at[d]] # Nobody
    BY <1>2, <1>4 DEF FlightsAreLed
  <2>2. QED
    BY <1>1, <1>2, <2>1
<1>5. QED
  BY <1>3, <1>4 DEF FlightsAreLed

(* Every step.                                                             *)
LEMMA LedStep ==
    ASSUME TypeOK, LeadersHoldFlights, FlightsAreLed, [Next]_vars
    PROVE  FlightsAreLed'
<1>0. Folders \subseteq Callers /\ Readers \subseteq Callers
  BY DEF Callers
<1>1. CASE UNCHANGED vars \/ Tick \/ BreakerCloses \/ \E f \in Folders : BackoffEnds(f)
  BY <1>1 DEF vars, callers, Tick, BreakerCloses, BackoffEnds, FlightsAreLed
<1>2. ASSUME NEW f \in Folders, PollFolder(f) \/ Notify(f) \/ PollFailed(f)
      PROVE  FlightsAreLed'
  <2>1. CASE UNCHANGED pc
    BY <1>2, <2>1 DEF PollFolder, Notify, PollFailed, FlightsAreLed
  <2>2. ASSUME NEW to \in {"idle", "jitter"}, Goes(f, pc[f], to), pc[f] \in {"back", "idle"}
        PROVE  FlightsAreLed'
    <3>1. UNCHANGED <<at, flight>>
      BY <1>2 DEF PollFolder, Notify, PollFailed
    <3>2. pc[f] \notin Leading /\ to # "joined" /\ f \in Callers
      BY <1>0, <2>2 DEF Leading, Holding
    <3>3. QED
      BY <2>2, <3>1, <3>2, GoesOnLed
  <2>3. QED
    BY <1>2, <2>1, <2>2 DEF PollFolder, Notify, PollFailed, Goes
<1>3. ASSUME NEW c \in Callers, NEW f \in Folders, Enter(c, f)
      PROVE  FlightsAreLed'
  <2>1. pc[c] \in {"idle", "jitter"} /\ at' = [at EXCEPT ![c] = f] /\ UNCHANGED flight
    BY <1>3 DEF Enter
  <2>2. PICK to \in {"back", "passed"} : Goes(c, pc[c], to)
    BY <1>3 DEF Enter, GivesUp
  <2>3. pc[c] \notin Leading /\ to # "joined"
    BY <2>1 DEF Leading, Holding
  <2>4. QED
    BY <2>1, <2>2, <2>3, GoesOnLed
<1>4. ASSUME NEW c \in Callers, CheckBreaker(c) \/ Join(c)
      PROVE  FlightsAreLed'
  <2>1. pc[c] \in {"passed", "ready"} /\ UNCHANGED <<at, flight>>
    BY <1>4 DEF CheckBreaker, Join, GivesUp, Goes
  <2>2. PICK to \in {"back", "ready", "joined"} :
          Goes(c, pc[c], to) /\ (to = "joined" => flight[at[c]] # Nobody)
    BY <1>4 DEF CheckBreaker, Join, GivesUp, Goes
  <2>3. pc[c] \notin Leading
    BY <2>1 DEF Leading, Holding
  <2>4. QED
    BY <2>1, <2>2, <2>3, GoesOnLed
<1>5. ASSUME NEW c \in Callers,
             \/ AcquireSlot(c) \/ Recheck(c) \/ BeginPass(c) \/ ReleaseSlot(c)
             \/ \E o \in Outcomes : EndPass(c, o)
      PROVE  FlightsAreLed'
  <2>1. UNCHANGED <<at, flight>>
    BY <1>5 DEF AcquireSlot, Recheck, BeginPass, ReleaseSlot, EndPass
  <2>2. PICK to \in {"slotted", "tracked", "checked", "pulling", "closing"} : Goes(c, pc[c], to)
    BY <1>5 DEF AcquireSlot, Recheck, BeginPass, ReleaseSlot, EndPass, GivesUp, Goes
  <2>3. to \in Leading /\ to # "joined"
    BY DEF Leading, Holding
  <2>4. QED
    BY <2>1, <2>2, <2>3, GoesOnLed
<1>6. ASSUME NEW c \in Callers, LeaveQueue(c)
      PROVE  FlightsAreLed'
  <2>1. UNCHANGED <<at, flight>> /\ Goes(c, pc[c], "closing") /\ "closing" \in Leading
    BY <1>6 DEF LeaveQueue, GivesUp, Goes, Leading
  <2>2. QED
    BY <2>1, GoesOnLed
<1>7. ASSUME NEW c \in Callers, LeaveFlight(c) \/ Return(c)
      PROVE  FlightsAreLed'
  <2>1. UNCHANGED <<at, flight>> /\ pc[c] \in {"joined", "back"}
    BY <1>7 DEF LeaveFlight, Return, GivesUp, Goes
  <2>2. PICK to \in {"idle", "back"} : Goes(c, pc[c], to)
    BY <1>7 DEF LeaveFlight, Return, GivesUp, Goes
  <2>3. pc[c] \notin Leading /\ to # "joined"
    BY <2>1 DEF Leading, Holding
  <2>4. QED
    BY <2>1, <2>2, <2>3, GoesOnLed
<1>8. ASSUME NEW c \in Callers, Cancel(c)
      PROVE  FlightsAreLed'
  BY <1>8 DEF Cancel, FlightsAreLed
<1>9. QED
  BY <1>0, <1>1, <1>2, <1>3, <1>4, <1>5, <1>6, <1>7, <1>8, LeadLed, CloseLed DEF Next, Step

(* cache.go 42-66, sync.go 219-242: a caller that waits for an answer      *)
(* waits for a leader that is at work, and one that waits for a slot finds *)
(* it held by others at work, whoever gives up or fails on the way.        *)
THEOREM WaitingEnds == Spec => []WaitsAreServed
<1>1. Init => FlightsAreLed
  BY DEF Init, FlightsAreLed
<1>2. GateInv /\ FlightsAreLed /\ [Next]_vars => GateInv' /\ FlightsAreLed'
  BY GateInvStep, LedStep DEF GateInv
<1>3. GateInv /\ FlightsAreLed => WaitsAreServed
  <2> SUFFICES ASSUME GateInv, gate = Slots PROVE Holders # {}
    BY DEF FlightsAreLed, WaitsAreServed
  <2>1. Cardinality(Holders) # 0
    BY SlotsAssumption DEF GateInv, SlotsAreCounted
  <2>2. QED
    BY <2>1, FS_EmptySet
<1>4. QED
  BY <1>1, <1>2, <1>3, GateInvInit, PTL DEF Spec
=============================================================================
