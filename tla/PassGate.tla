------------------------------- MODULE PassGate ------------------------------
(***************************************************************************)
(* What the gate in front of the mail server promises, and what MailStore  *)
(* takes for granted: passes are begun one at a time per folder and no     *)
(* more than Slots at once (DEV-NOTES, "at most 4 concurrent syncs").      *)
(***************************************************************************)
EXTENDS Integers, FiniteSets

CONSTANTS Workers, Folders, Slots

VARIABLES
    busy,   \* the workers inside a pass
    on      \* per worker, the folder it is on

vars == <<busy, on>>

Init ==
    /\ busy = {}
    /\ on \in [Workers -> Folders]

Begin(w) ==
    /\ w \notin busy
    /\ \A v \in busy : on[v] # on[w]
    /\ Cardinality(busy) < Slots
    /\ busy' = busy \cup {w}
    /\ UNCHANGED on

End(w) ==
    /\ busy' = busy \ {w}
    /\ UNCHANGED on

(* A worker outside a pass turns to another folder.                        *)
TurnTo(w, f) ==
    /\ w \notin busy
    /\ on' = [on EXCEPT ![w] = f]
    /\ UNCHANGED busy

Next ==
    \E w \in Workers :
        \/ Begin(w) \/ End(w)
        \/ \E f \in Folders : TurnTo(w, f)

Spec == Init /\ [][Next]_vars
=============================================================================
