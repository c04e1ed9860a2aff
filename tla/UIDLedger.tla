------------------------------ MODULE UIDLedger ------------------------------
(***************************************************************************)
(* What the bridge promises IMAP clients about UIDs, with no word on files *)
(* or synchronisation (DEV-NOTES, architecture invariant 1): each folder   *)
(* keeps a ledger of the UIDs it ever gave to a message; entries are only  *)
(* added, each at or above the UIDNEXT of the moment, one message to a     *)
(* number, and UIDNEXT passes over every number given.                     *)
(***************************************************************************)
EXTENDS Integers

CONSTANTS Folders, Msgs

VARIABLES
    next,   \* per folder, the UIDNEXT
    bound   \* per folder, the set of <<UID, message>> pairs ever given

vars == <<next, bound>>

TypeOK ==
    /\ next \in [Folders -> Nat]
    /\ bound \in [Folders -> SUBSET (Nat \X Msgs)]

Init ==
    /\ next = [f \in Folders |-> 1]
    /\ bound = [f \in Folders |-> {}]

(* Messages are given numbers, or numbers are skipped.                     *)
Grant(f) ==
    LET new == bound'[f] \ bound[f] IN
    /\ next' = [next EXCEPT ![f] = next'[f]]
    /\ bound' = [bound EXCEPT ![f] = @ \cup new]
    /\ next'[f] \in Nat /\ next'[f] >= next[f]
    /\ \A p \in new : p \in Nat \X Msgs /\ next[f] <= p[1] /\ p[1] < next'[f]
    /\ \A p, q \in new : p[1] = q[1] => p = q

Next == \E f \in Folders : Grant(f)

Spec == Init /\ [][Next]_vars

-----------------------------------------------------------------------------
(* No UID ever names two messages, and UIDNEXT lies above all of them.     *)
Lawful ==
    \A f \in Folders :
        /\ \A p \in bound[f] : p[1] < next[f]
        /\ \A p, q \in bound[f] : p[1] = q[1] => p = q
=============================================================================
