------------------------------ MODULE FolderList ------------------------------
(***************************************************************************)
(* The folder list: syncFolders (sync.go) over the EAS client's            *)
(* FolderSync, which runs once when the process starts, and the list that  *)
(* every round of the poller reads (mailFolderIDs).                        *)
(*                                                                         *)
(* A hierarchy is a function from folder ids to names, Absent where there  *)
(* is no such folder.  A SyncKey is the hierarchy the server reckons its   *)
(* holder has: the server answers with the difference, and answers NoKey   *)
(* with all it has.  Key and list are both in state.json, which is written *)
(* as a whole.                                                             *)
(***************************************************************************)
EXTENDS Integers

CONSTANTS
    Ids,        \* ServerIds of mail folders
    Names,      \* what a folder may be called
    Absent,     \* no folder of that id
    NoKey,      \* no key stored, or "0"
    MaxEdits,   \* bound on the changes made to the hierarchy
    Faults      \* what may go wrong in this instance

ASSUME AbsentAssumption == Absent \notin Names
ASSUME KeyAssumption == NoKey \notin [Ids -> Names \cup {Absent}]
ASSUME EditsAssumption == MaxEdits \in Nat
ASSUME FaultsAssumption ==
    Faults \subseteq {"status3", "askFails", "saveFails", "crash"}

VARIABLES
    server,     \* the hierarchy on the mail server
    pc,         \* "down", "loaded", "merging", "up"
    list,       \* s.Folders
    key,        \* s.SyncKeys of the folder root
    reply,      \* the difference FolderSync has brought
    file,       \* state.json: list and key
    edits,
    reset       \* history: a Status 3 has made the list start over

vars == <<server, pc, list, key, reply, file, edits, reset>>

Hierarchies == [Ids -> Names \cup {Absent}]

NoFolders == [i \in Ids |-> Absent]

Keys == Hierarchies \cup {NoKey}

(* The Added and Updated folders, and the Deleted ones.                    *)
Replies == [put: UNION {[D -> Names] : D \in SUBSET Ids}, gone: SUBSET Ids]

NoReply == [put |-> [i \in {} |-> Absent], gone |-> {}]

TypeOK ==
    /\ server \in Hierarchies
    /\ pc \in {"down", "loaded", "merging", "up"}
    /\ list \in Hierarchies
    /\ key \in Keys
    /\ reply \in Replies
    /\ file \in [list: Hierarchies, key: Keys]
    /\ edits \in 0 .. MaxEdits
    /\ reset \in BOOLEAN

Init ==
    /\ server \in Hierarchies
    /\ pc = "down"
    /\ list = NoFolders
    /\ key = NoKey
    /\ reply = NoReply
    /\ file = [list |-> NoFolders, key |-> NoKey]
    /\ edits = 0
    /\ reset = FALSE

-----------------------------------------------------------------------------
(* A folder is created, renamed or removed by another device.              *)
Edit ==
    /\ edits < MaxEdits
    /\ edits' = edits + 1
    /\ \E i \in Ids, n \in Names \cup {Absent} :
          server[i] # n /\ server' = [server EXCEPT ![i] = n]
    /\ UNCHANGED <<pc, list, key, reply, file, reset>>

(* loadState, before Provision.                                            *)
Load ==
    /\ pc = "down"
    /\ pc' = "loaded"
    /\ list' = file.list
    /\ key' = file.key
    /\ UNCHANGED <<server, reply, file, edits, reset>>

(* log.Fatal, or any other death of the process.                           *)
Die ==
    /\ pc' = "down"
    /\ list' = NoFolders
    /\ key' = NoKey
    /\ reply' = NoReply
    /\ UNCHANGED <<server, file, edits, reset>>

(* What the server answers a holder of key k.                              *)
Known(k) == IF k = NoKey THEN NoFolders ELSE k

Difference(k) ==
    LET new == {i \in Ids : server[i] \notin {Absent, Known(k)[i]}}
    IN  [put  |-> [i \in new |-> server[i]],
         gone |-> {i \in Ids : server[i] = Absent /\ Known(k)[i] # Absent}]

(* Slip: the new key is written to state.json as soon as it is known.      *)
FolderSyncSaves(k) ==
    /\ pc = "loaded"
    /\ reply' = Difference(k)
    /\ key' = server
    /\ file' = [list |-> list, key |-> server]
    /\ pc' = "merging"
    /\ UNCHANGED <<server, list, edits>>

(* FolderSync stores the new key in memory.                                *)
FolderSync(k) ==
    /\ pc = "loaded"
    /\ reply' = Difference(k)
    /\ key' = server
    /\ pc' = "merging"
    /\ UNCHANGED <<server, list, file, edits>>

FolderSyncOK == FolderSync(key) /\ UNCHANGED reset

(* The key is refused; the client resets it and asks again.                *)
FolderSyncStatus3 ==
    /\ "status3" \in Faults
    /\ key # NoKey
    /\ FolderSync(NoKey)
    /\ reset' = TRUE

FolderSyncFails == pc = "loaded" /\ "askFails" \in Faults /\ Die

(* Slip: a folder the server has removed stays listed.                     *)
MergedAll(r) == [i \in Ids |-> IF i \in DOMAIN r.put THEN r.put[i] ELSE list[i]]

(* Slip: the reply takes the place of the list.                            *)
MergedAlone(r) == r.put

Merged(r) ==
    [i \in Ids |-> CASE i \in r.gone -> Absent
                     [] i \in DOMAIN r.put \ r.gone -> r.put[i]
                     [] OTHER -> list[i]]

(* A reply without changes is not saved.                                   *)
MergeNothing ==
    /\ pc = "merging"
    /\ reply = NoReply
    /\ pc' = "up"
    /\ UNCHANGED <<server, list, key, reply, file, edits, reset>>

Merge ==
    /\ pc = "merging"
    /\ reply # NoReply
    /\ list' = Merged(reply)
    /\ file' = [list |-> list', key |-> key]
    /\ reply' = NoReply
    /\ pc' = "up"
    /\ UNCHANGED <<server, key, edits, reset>>

MergeFails == pc = "merging" /\ reply # NoReply /\ "saveFails" \in Faults /\ Die

(* While the process is up other parts of it save the main file.           *)
SaveMain ==
    /\ pc = "up"
    /\ file' = [list |-> list, key |-> key]
    /\ UNCHANGED <<server, pc, list, key, reply, edits, reset>>

Crash == pc # "down" /\ "crash" \in Faults /\ Die

Next ==
    \/ Edit \/ Load
    \/ FolderSyncOK \/ FolderSyncStatus3 \/ FolderSyncFails
    \/ MergeNothing \/ Merge \/ MergeFails
    \/ SaveMain \/ Crash

Spec == Init /\ [][Next]_vars

(* The process starts, and its requests end.                               *)
FairSpec ==
    /\ Spec
    /\ WF_vars(Load)
    /\ WF_vars(FolderSyncOK \/ FolderSyncStatus3 \/ FolderSyncFails)
    /\ WF_vars(MergeNothing \/ Merge \/ MergeFails)

-----------------------------------------------------------------------------
(* No key outruns the list next to it: what the server will not send again *)
(* is listed under the name it has, so a death between FolderSync and the  *)
(* save loses no folder (SetSyncKey keeps the key in memory; mutate writes *)
(* key and list in one file).                                              *)
KeyIsCovered ==
    file.key # NoKey =>
        \A i \in Ids : file.key[i] # Absent => file.list[i] = file.key[i]

(* Until a Status 3 makes the list start over, which syncFolders merges    *)
(* into the old one, the poller is not sent to folders the server had      *)
(* removed before the last start.                                          *)
NoGhosts ==
    pc = "up" /\ ~reset => \A i \in Ids : list[i] # Absent => key[i] = list[i]

(* README.md: the list is read again in every polling round and new        *)
(* folders are taken in.                                                   *)
NewFoldersArePolled ==
    \A i \in Ids :
        pc = "up" /\ server[i] # Absent
            ~> pc # "up" \/ server[i] = Absent \/ list[i] # Absent
=============================================================================
