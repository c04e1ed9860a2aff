------------------------------- MODULE SyncGate ------------------------------
(***************************************************************************)
(* The way to the mail server: syncMail (sync.go) with its Status 5        *)
(* back-off per folder, the breaker for transient errors, the flights of   *)
(* cache.go and the slots, entered by the poller's goroutines and by IMAP  *)
(* sessions.  What a pass does is MailStore's; here it has an outcome.     *)
(*                                                                         *)
(* Time is reduced to whether a back-off is running; how long it runs (the *)
(* level reached) is left open, so it may end at any moment.               *)
(***************************************************************************)
EXTENDS Integers, FiniteSets

CONSTANTS
    Folders,    \* the mail folders; the poller's goroutine for f is named f
    Readers,    \* IMAP sessions in SELECT or STATUS, passes after a move
    Nobody,
    Slots       \* maxConcurrentEASSyncs, 4 in the program

Callers == Folders \cup Readers

ASSUME CallersAssumption ==
    /\ IsFiniteSet(Callers)
    /\ Folders \cap Readers = {}
    /\ Nobody \notin Callers
ASSUME SlotsAssumption == Slots \in Nat \ {0}

VARIABLES
    round,      \* folders the poller has still to look at in this round
    pc, at,     \* where each caller is, and for which folder
    result,     \* what its call, or the flight it is in, has come to
    gone,       \* its context is cancelled
    flight,     \* e.flights: per folder, the leader of the flight
    gate,       \* tokens in the channel syncGate
    blocked,    \* folders in their Status 5 back-off
    tripped,    \* the breaker is open
    late        \* history: callers that began a pass since it opened

callers == <<pc, at, result, gone>>
vars == <<round, callers, flight, gate, blocked, tripped, late>>

(* Nil for the caller is a skipped call and a successful pass; which error *)
(* it is makes no difference to anybody.                                   *)
Results == {"none", "skipped", "ok", "error"}

Nil == {"skipped", "ok"}

Outside == {"idle", "jitter"}
Holding == {"slotted", "checked", "pulling", "tracked"}
Leading == {"queued", "closing"} \cup Holding

TypeOK ==
    /\ round \subseteq Folders
    /\ pc \in [Callers -> Outside \cup Leading
                          \cup {"passed", "ready", "joined", "back"}]
    /\ at \in [Callers -> Folders]
    /\ result \in [Callers -> Results]
    /\ gone \in [Callers -> BOOLEAN]
    /\ flight \in [Folders -> Callers \cup {Nobody}]
    /\ gate \in 0 .. Slots
    /\ blocked \subseteq Folders
    /\ tripped \in BOOLEAN
    /\ late \subseteq Callers

Init ==
    /\ round = {}
    /\ pc = [c \in Callers |-> "idle"]
    /\ at \in [Callers -> Folders]
    /\ \A f \in Folders : at[f] = f
    /\ \A r, s \in Readers : at[r] = at[s]
    /\ result = [c \in Callers |-> "none"]
    /\ gone = [c \in Callers |-> FALSE]
    /\ flight = [f \in Folders |-> Nobody]
    /\ gate = 0
    /\ blocked = {}
    /\ tripped = FALSE
    /\ late = {}

Pulling == {c \in Callers : pc[c] = "pulling"}

Holders == {c \in Callers : pc[c] \in Holding}

Goes(c, from, to) == pc[c] = from /\ pc' = [pc EXCEPT ![c] = to]

GivesUp(c, from, to, what) ==
    /\ Goes(c, from, to)
    /\ result' = [result EXCEPT ![c] = what]

-----------------------------------------------------------------------------
(* The poller: a round looks at every folder, waits a moment in the        *)
(* goroutine it starts, and ends when all goroutines have.                 *)

Tick ==
    /\ round = {}
    /\ \A f \in Folders : pc[f] = "idle"
    /\ round' = Folders
    /\ UNCHANGED <<callers, flight, gate, blocked, tripped, late>>

PollFolder(f) ==
    /\ f \in round
    /\ round' = round \ {f}
    /\ IF f \in blocked THEN UNCHANGED pc ELSE Goes(f, "idle", "jitter")
    /\ UNCHANGED <<at, result, gone, flight, gate, blocked, tripped, late>>

(* onChange: broadcast to the sessions if syncMail returned nil.           *)
Notify(f) ==
    /\ Goes(f, "back", "idle")
    /\ result[f] \in Nil
    /\ result' = [result EXCEPT ![f] = "none"]
    /\ UNCHANGED <<round, at, gone, flight, gate, blocked, tripped, late>>

PollFailed(f) ==
    /\ Goes(f, "back", "idle")
    /\ result[f] \notin Nil
    /\ result' = [result EXCEPT ![f] = "none"]
    /\ UNCHANGED <<round, at, gone, flight, gate, blocked, tripped, late>>

-----------------------------------------------------------------------------
(* syncMail.                                                               *)

(* The call and its first test, skipBackoff.                               *)
Enter(c, f) ==
    /\ pc[c] = IF c \in Folders THEN "jitter" ELSE "idle"
    /\ c \in Folders => f = c
    /\ at' = [at EXCEPT ![c] = f]
    /\ IF f \in blocked THEN GivesUp(c, pc[c], "back", "skipped")
       ELSE Goes(c, pc[c], "passed") /\ UNCHANGED result
    /\ UNCHANGED <<round, gone, flight, gate, blocked, tripped, late>>

CheckBreaker(c) ==
    /\ IF tripped THEN GivesUp(c, "passed", "back", "error")
       ELSE Goes(c, "passed", "ready") /\ UNCHANGED result
    /\ UNCHANGED <<round, at, gone, flight, gate, blocked, tripped, late>>

(* Slip: nobody looks whether the folder has a flight.                     *)
LeadAnyway(c) ==
    /\ Goes(c, "ready", "queued")
    /\ flight' = [flight EXCEPT ![at[c]] = c]
    /\ UNCHANGED <<round, at, result, gone, gate, blocked, tripped, late>>

(* DoContext: the first caller leads, later ones wait for its answer.      *)
Lead(c) ==
    /\ flight[at[c]] = Nobody
    /\ Goes(c, "ready", "queued")
    /\ flight' = [flight EXCEPT ![at[c]] = c]
    /\ UNCHANGED <<round, at, result, gone, gate, blocked, tripped, late>>

Join(c) ==
    /\ flight[at[c]] # Nobody
    /\ Goes(c, "ready", "joined")
    /\ UNCHANGED <<round, at, result, gone, flight, gate, blocked, tripped,
                   late>>

LeaveFlight(c) ==
    /\ gone[c]
    /\ GivesUp(c, "joined", "back", "error")
    /\ UNCHANGED <<round, at, gone, flight, gate, blocked, tripped, late>>

AcquireSlot(c) ==
    /\ gate < Slots
    /\ Goes(c, "queued", "slotted")
    /\ gate' = gate + 1
    /\ UNCHANGED <<round, at, result, gone, flight, blocked, tripped, late>>

(* Slip: the release is deferred before it is known that there is a slot.  *)
LeaveQueueReleasing(c) ==
    /\ gone[c]
    /\ GivesUp(c, "queued", "tracked", "error")
    /\ UNCHANGED <<round, at, gone, flight, gate, blocked, tripped, late>>

LeaveQueue(c) ==
    /\ gone[c]
    /\ GivesUp(c, "queued", "closing", "error")
    /\ UNCHANGED <<round, at, gone, flight, gate, blocked, tripped, late>>

(* Slip: the early return does not give the slot back.                     *)
RecheckLeaks(c) ==
    /\ IF tripped THEN GivesUp(c, "slotted", "closing", "error")
       ELSE Goes(c, "slotted", "checked") /\ UNCHANGED result
    /\ UNCHANGED <<round, at, gone, flight, gate, blocked, tripped, late>>

(* Slip: the breaker is not looked at again after the wait for a slot.     *)
NoRecheck(c) ==
    /\ Goes(c, "slotted", "checked")
    /\ UNCHANGED <<round, at, result, gone, flight, gate, blocked, tripped,
                   late>>

(* The breaker may have opened during the wait.                            *)
Recheck(c) ==
    /\ IF tripped THEN GivesUp(c, "slotted", "tracked", "error")
       ELSE Goes(c, "slotted", "checked") /\ UNCHANGED result
    /\ UNCHANGED <<round, at, gone, flight, gate, blocked, tripped, late>>

(* syncMailOnce starts to talk to the server.                              *)
BeginPass(c) ==
    /\ Goes(c, "checked", "pulling")
    /\ late' = IF tripped THEN late \cup {c} ELSE late
    /\ UNCHANGED <<round, at, result, gone, flight, gate, blocked, tripped>>

(* It ends; trackSyncResult and trackTransientEASResult.                   *)
EndPass(c, outcome) ==
    /\ outcome = "canceled" => gone[c]
    /\ GivesUp(c, "pulling", "tracked", IF outcome = "ok" THEN "ok" ELSE "error")
    /\ blocked' = CASE outcome = "ok"      -> blocked \ {at[c]}
                    [] outcome = "status5" -> blocked \cup {at[c]}
                    [] OTHER               -> blocked
    /\ tripped' = CASE outcome = "ok"        -> FALSE
                    [] outcome = "transient" -> TRUE
                    [] OTHER                 -> tripped
    /\ late' = IF tripped' /\ tripped THEN late ELSE {}
    /\ UNCHANGED <<round, at, gone, flight, gate>>

Outcomes == {"ok", "status5", "transient", "other", "canceled"}

ReleaseSlot(c) ==
    /\ Goes(c, "tracked", "closing")
    /\ gate' = gate - 1
    /\ UNCHANGED <<round, at, result, gone, flight, blocked, tripped, late>>

(* Slip: the flight stays in the table.                                    *)
CloseButKeep(c) ==
    /\ pc[c] = "closing"
    /\ LET waiting == {d \in Callers : pc[d] = "joined" /\ at[d] = at[c]} IN
        /\ pc' = [d \in Callers |->
                     IF d \in waiting \cup {c} THEN "back" ELSE pc[d]]
        /\ result' = [d \in Callers |->
                         IF d \in waiting THEN result[c] ELSE result[d]]
    /\ UNCHANGED <<round, at, gone, flight, gate, blocked, tripped, late>>

(* The end of DoContext: the flight leaves the table, and everybody who    *)
(* joined it has the leader's answer.                                      *)
CloseFlight(c) ==
    /\ pc[c] = "closing"
    /\ flight' = [flight EXCEPT ![at[c]] = Nobody]
    /\ LET waiting == {d \in Callers : pc[d] = "joined" /\ at[d] = at[c]} IN
        /\ pc' = [d \in Callers |->
                     IF d \in waiting \cup {c} THEN "back" ELSE pc[d]]
        /\ result' = [d \in Callers |->
                         IF d \in waiting THEN result[c] ELSE result[d]]
    /\ UNCHANGED <<round, at, gone, gate, blocked, tripped, late>>

-----------------------------------------------------------------------------
(* The readers and the clock.                                              *)

Return(r) ==
    /\ Goes(r, "back", "idle")
    /\ result' = [result EXCEPT ![r] = "none"]
    /\ gone' = [gone EXCEPT ![r] = FALSE]
    /\ UNCHANGED <<round, at, flight, gate, blocked, tripped, late>>

(* A session closes, or its 90 seconds are over.  Nothing looks at the      *)
(* context before DoContext or after the pass.                             *)
Cancel(r) ==
    /\ pc[r] \in {"joined", "queued", "pulling"} /\ ~gone[r]
    /\ gone' = [gone EXCEPT ![r] = TRUE]
    /\ UNCHANGED <<round, pc, at, result, flight, gate, blocked, tripped,
                   late>>

BackoffEnds(f) ==
    /\ f \in blocked
    /\ blocked' = blocked \ {f}
    /\ UNCHANGED <<round, callers, flight, gate, tripped, late>>

BreakerCloses ==
    /\ tripped
    /\ tripped' = FALSE
    /\ late' = {}
    /\ UNCHANGED <<round, callers, flight, gate, blocked>>

-----------------------------------------------------------------------------
Step(c) ==
    \/ CheckBreaker(c) \/ Lead(c) \/ Join(c)
    \/ AcquireSlot(c) \/ Recheck(c) \/ BeginPass(c)
    \/ \E outcome \in Outcomes : EndPass(c, outcome)
    \/ ReleaseSlot(c) \/ CloseFlight(c)

Next ==
    \/ Tick \/ BreakerCloses
    \/ \E f \in Folders :
        PollFolder(f) \/ Notify(f) \/ PollFailed(f) \/ BackoffEnds(f)
    \/ \E c \in Callers : Step(c) \/ \E f \in Folders : Enter(c, f)
    \/ \E r \in Readers :
        LeaveFlight(r) \/ LeaveQueue(r) \/ Cancel(r) \/ Return(r)

Spec == Init /\ [][Next]_vars

(* Goroutines run, every request ends (2 minute timeout), the ticker       *)
(* ticks, back-offs end; a channel serves its senders in order.            *)
Fairness ==
    /\ WF_vars(Tick) /\ WF_vars(BreakerCloses)
    /\ \A f \in Folders :
        /\ WF_vars(PollFolder(f)) /\ WF_vars(Notify(f) \/ PollFailed(f))
        /\ WF_vars(BackoffEnds(f)) /\ WF_vars(Enter(f, f))
    /\ \A c \in Callers : WF_vars(Step(c)) /\ SF_vars(AcquireSlot(c))
    /\ \A r \in Readers : WF_vars(Return(r))

FairSpec == Spec /\ Fairness

-----------------------------------------------------------------------------
(* Whatever callers come, give up or fail, passes are begun one at a time  *)
(* per folder and no more than Slots at once: what MailStore's flight      *)
(* stands for (flightGroup.DoContext, acquireSyncSlot).                    *)
Gate == INSTANCE PassGate WITH Workers <- Callers, busy <- Pulling, on <- at

PassesAreGated == Gate!Spec

(* The channel holds one token for every goroutine between acquireSyncSlot *)
(* and its deferred release, on every early return.                        *)
SlotsAreCounted == gate = Cardinality(Holders)

(* While the breaker is open the server sees no more than the passes that  *)
(* had looked at it before: fewer than Slots, however many callers queue.  *)
BreakerSpares == tripped => Cardinality(late) < Slots

(* The poller does not wake the clients for a folder in back-off           *)
(* (DEV-NOTES:78): it notifies only after a pass.                          *)
QuietInBackoff == [][\A f \in Folders : Notify(f) => result[f] # "skipped"]_vars

(* cache.go 42-66, sync.go 219-242: nobody waits for an answer no leader   *)
(* is going to give, nor for a slot nobody is going to give back.          *)
WaitsAreServed ==
    /\ \A f \in Folders : flight[f] # Nobody => pc[flight[f]] \in Leading /\ at[flight[f]] = f
    /\ \A c \in Callers : pc[c] = "joined" => flight[at[c]] # Nobody
    /\ gate = Slots => Holders # {}

(* A call into the gate comes back: nobody waits for a slot, a flight or   *)
(* an answer that never comes.                                             *)
EveryCallReturns ==
    \A c \in Callers : pc[c] \notin Outside ~> pc[c] \in Outside

(* A failing server does not keep a folder from being asked again: every   *)
(* folder is passed over again and again, or the breaker opens again and   *)
(* again because requests go on failing.                                   *)
FoldersKeepSyncing ==
    \A f \in Folders :
        \/ []<>(\E c \in Pulling : at[c] = f)
        \/ []<>tripped
        \/ []<>(\E r \in Readers : gone[r])
=============================================================================
