------------------------------ MODULE DurableMap ------------------------------
(***************************************************************************)
(* What the calendar's files promise, with no word on snapshot or journal: *)
(* a map on disk that changes by whole batches.  A batch reported as saved *)
(* is in the map; one that failed or was cut off by a crash is in it whole *)
(* or not at all; besides, entries may be brought up to memory's state.  A  *)
(* restart finds exactly the map, or, if part of it cannot be read, what   *)
(* memory was when the map was last written as a whole.                    *)
(***************************************************************************)
CONSTANTS Keys, Entries

VARIABLES
    memory, \* the map in the running process
    durable,    \* the map as a restart would read it
    base,       \* what memory was when it was last written as a whole
    phase,      \* of the write under way: "none", "begun", "stored"
    batch,      \* that write, a map on some keys
    report      \* how the last write ended: "none", "saved", "failed"

Vars == <<memory, durable, base, phase, batch, report>>

Maps == [Keys -> Entries]
Overlays == UNION {[D -> Entries] : D \in SUBSET Keys}
Laid(b, m) == [k \in DOMAIN m |-> IF k \in DOMAIN b THEN b[k] ELSE m[k]]

Init ==
    /\ memory \in Maps /\ durable = memory /\ base = memory
    /\ phase = "none" /\ batch \in Overlays /\ report = "none"

Change ==
    /\ phase = "none"
    /\ memory' \in Maps
    /\ UNCHANGED <<durable, base, phase, batch, report>>

Begin ==
    /\ phase = "none" /\ phase' = "begun"
    /\ memory' \in Maps /\ batch' \in Overlays
    /\ report' = "none"
    /\ UNCHANGED <<durable, base>>

Store ==
    /\ phase = "begun" /\ phase' = "stored"
    /\ durable' = Laid(batch, durable)
    /\ UNCHANGED <<memory, base, batch, report>>

Saved ==
    /\ phase = "stored" /\ phase' = "none"
    /\ report' = "saved" /\ batch' \in Overlays
    /\ UNCHANGED <<memory, durable, base>>

Failed ==
    /\ phase \in {"begun", "stored"} /\ phase' = "none"
    /\ report' = "failed" /\ batch' \in Overlays
    /\ UNCHANGED <<memory, durable, base>>

(* Compaction: any entry on disk may become the one in memory.             *)
Refresh ==
    /\ phase = "none"
    /\ durable' \in Maps
    /\ \A k \in Keys : durable'[k] \in {durable[k], memory[k]}
    /\ base' \in {base, memory}
    /\ UNCHANGED <<memory, phase, batch, report>>

Restart ==
    /\ memory' = durable
    /\ phase' = "none" /\ batch' \in Overlays /\ report' = "none"
    /\ UNCHANGED <<durable, base>>

FallBack ==
    /\ memory' = base /\ durable' = base
    /\ phase' = "none" /\ batch' \in Overlays /\ report' = "none"
    /\ UNCHANGED base

Next ==
    Change \/ Begin \/ Store \/ Saved \/ Failed \/ Refresh \/ Restart \/ FallBack

Spec == Init /\ [][Next]_Vars
=============================================================================
