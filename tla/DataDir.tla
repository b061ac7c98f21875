-------------------------------- MODULE DataDir --------------------------------
(***************************************************************************)
(* PrepareDataDir of internal/storage/version.go: the storage_version       *)
(* marker of a data directory, written by writeFileAtomic through a         *)
(* temporary file, with the page cache and the disk under it.  One process  *)
(* at a time starts on the directory.                                       *)
(*                                                                          *)
(* A file's content is "whole" (the digit and the newline), "digit" (cut    *)
(* after the first byte), "empty", "zeros" (a page that never reached the   *)
(* disk), or "other" (another version's marker, or an unreadable one).      *)
(***************************************************************************)
EXTENDS Naturals

CONSTANT Faults   \* which failures the environment may cause, as in CommandLog

VARIABLES
    pc,       \* "down", "write", "sync", "rename", "syncDir", "ready", "refused"
    tmp,      \* content of storage_version.tmp, or "none"
    tmpDisk,  \* that content has been flushed
    marker,   \* content of storage_version, or "none"
    markDisk, \* that content has been flushed
    linked,   \* the marker's directory entry is durable
    data,     \* the other entries: "none", "ours", or "theirs" from before
    trusted   \* ghost: some start accepted a marker whose entry was not durable

fileVars == <<tmp, tmpDisk, marker, markDisk, linked>>
vars == <<pc, fileVars, data, trusted>>

Ours == {"empty", "digit", "whole", "zeros"}

TypeOK ==
    /\ pc \in {"down", "write", "sync", "rename", "syncDir", "ready", "refused"}
    /\ tmp \in Ours \cup {"none"} /\ marker \in Ours \cup {"other", "none"}
    /\ tmpDisk \in BOOLEAN /\ markDisk \in BOOLEAN /\ linked \in BOOLEAN
    /\ data \in {"none", "ours", "theirs"} /\ trusted \in BOOLEAN

-----------------------------------------------------------------------------
(* PrepareDataDir *)

(* The marker exists: checkVersion accepts this version, whatever white     *)
(* space is around it, and nothing else.                                    *)
checkVersion ==
    /\ pc = "down" /\ marker # "none"
    /\ pc' = IF marker \in {"digit", "whole"} THEN "ready" ELSE "refused"
    /\ trusted' = (trusted \/ (pc' = "ready" /\ ~linked))
    /\ UNCHANGED <<fileVars, data>>

(* Mutated: initializeDataDir does not look at what the directory holds. *)
MayInitializeAny == pc = "down" /\ marker = "none"

(* initializeDataDir: there is no marker and nothing but, perhaps, a        *)
(* temporary marker.                                                        *)
MayInitialize == pc = "down" /\ marker = "none" /\ data = "none"

RefuseUnmarked ==
    /\ pc = "down" /\ marker = "none" /\ ~MayInitialize
    /\ pc' = "refused"
    /\ UNCHANGED <<fileVars, data, trusted>>

(* writeFileAtomic: open the temporary file, truncating what is there. *)
OpenTmp ==
    /\ MayInitialize
    /\ pc' = "write" /\ tmp' = "empty" /\ tmpDisk' = FALSE
    /\ UNCHANGED <<marker, markDisk, linked, data, trusted>>

WriteTmp ==
    /\ pc = "write"
    /\ pc' = "sync" /\ tmp' = "whole"
    /\ UNCHANGED <<tmpDisk, marker, markDisk, linked, data, trusted>>

(* A failed write is followed by Sync and Close all the same. *)
WriteTmpFails ==
    /\ pc = "write" /\ "writeErr" \in Faults
    /\ pc' = "down" /\ tmp' \in {"empty", "digit"} /\ tmpDisk' \in BOOLEAN
    /\ UNCHANGED <<marker, markDisk, linked, data, trusted>>

(* Mutated: the temporary file is not flushed. *)
SyncTmpSkipped ==
    /\ pc = "sync"
    /\ pc' = "rename"
    /\ UNCHANGED <<fileVars, data, trusted>>

SyncTmp ==
    /\ pc = "sync"
    /\ pc' = "rename" /\ tmpDisk' = TRUE
    /\ UNCHANGED <<tmp, marker, markDisk, linked, data, trusted>>

(* The Sync or the Close fails. *)
SyncTmpFails ==
    /\ pc = "sync" /\ "syncErr" \in Faults
    /\ pc' = "down" /\ tmpDisk' \in BOOLEAN
    /\ UNCHANGED <<tmp, marker, markDisk, linked, data, trusted>>

Rename ==
    /\ pc = "rename"
    /\ pc' = "syncDir"
    /\ marker' = tmp /\ markDisk' = tmpDisk /\ linked' = FALSE
    /\ tmp' = "none" /\ tmpDisk' = FALSE
    /\ UNCHANGED <<data, trusted>>

RenameFails ==
    /\ pc = "rename" /\ "createErr" \in Faults
    /\ pc' = "down"
    /\ UNCHANGED <<fileVars, data, trusted>>

(* Mutated: the directory is not flushed. *)
SyncDirSkipped ==
    /\ pc = "syncDir"
    /\ pc' = "ready"
    /\ UNCHANGED <<fileVars, data, trusted>>

SyncDir ==
    /\ pc = "syncDir"
    /\ pc' = "ready" /\ linked' = TRUE
    /\ UNCHANGED <<tmp, tmpDisk, marker, markDisk, data, trusted>>

SyncDirFails ==
    /\ pc = "syncDir" /\ "dirErr" \in Faults
    /\ pc' = "down"
    /\ UNCHANGED <<fileVars, data, trusted>>

-----------------------------------------------------------------------------
(* The rest of the process, and its end *)

(* OpenLog and OpenPebble create their directories in a prepared one. *)
CreateData ==
    /\ pc = "ready" /\ data = "none"
    /\ data' = "ours"
    /\ UNCHANGED <<pc, fileVars, trusted>>

Exit ==
    /\ pc \in {"ready", "refused"}
    /\ pc' = "down"
    /\ UNCHANGED <<fileVars, data, trusted>>

(* The process is killed, perhaps half-way through the write. *)
Kill ==
    /\ "kill" \in Faults /\ pc # "down"
    /\ pc' = "down"
    /\ tmp' \in IF pc = "write" THEN {tmp, "digit"} ELSE {tmp}
    /\ UNCHANGED <<tmpDisk, marker, markDisk, linked, data, trusted>>

(* What power loss leaves of a file's content. *)
Left(content, flushed) == IF flushed THEN {content} ELSE Ours

(* The machine loses power.  A marker whose entry is not durable may be     *)
(* back under its temporary name, or gone; the same goes for a temporary    *)
(* file and for our directories.                                            *)
PowerLoss ==
    /\ "power" \in Faults
    /\ \/ /\ marker # "none"
          /\ marker' \in Left(marker, markDisk)
          /\ tmp' \in {"none"} \cup (IF tmp = "none" THEN {} ELSE Left(tmp, tmpDisk))
       \/ /\ marker # "none" /\ ~linked
          /\ marker' = "none" /\ tmp' \in {"none"} \cup Left(marker, markDisk)
       \/ /\ marker = "none" /\ marker' = "none"
          /\ tmp' \in {"none"} \cup (IF tmp = "none" THEN {} ELSE Left(tmp, tmpDisk))
    /\ data' \in IF data = "ours" THEN {"ours", "none"} ELSE {data}
    /\ pc' = "down" /\ tmpDisk' = (tmp' # "none") /\ markDisk' = (marker' # "none")
    /\ linked' = (marker' # "none")
    /\ UNCHANGED trusted

-----------------------------------------------------------------------------
(* A directory that is new, that holds something else, or that holds a      *)
(* marker this binary does not support.                                     *)
Init ==
    /\ pc = "down" /\ tmp = "none" /\ tmpDisk = FALSE
    /\ \/ marker = "none" /\ data \in {"none", "theirs"}
       \/ marker = "other" /\ data \in {"none", "theirs"}
    /\ markDisk = (marker # "none") /\ linked = (marker # "none")
    /\ trusted = FALSE

PrepareDataDir ==
    \/ checkVersion \/ RefuseUnmarked
    \/ OpenTmp \/ WriteTmp \/ WriteTmpFails \/ SyncTmp \/ SyncTmpFails
    \/ Rename \/ RenameFails \/ SyncDir \/ SyncDirFails

Next == PrepareDataDir \/ CreateData \/ Exit \/ Kill \/ PowerLoss

Spec == Init /\ [][Next]_vars

-----------------------------------------------------------------------------
(* writeFileAtomic's promise: whatever interrupts it, a marker that exists  *)
(* is complete.                                                             *)
MarkerWhole == marker \in {"none", "whole", "other"}

(* PrepareDataDir refuses only a directory with somebody else's data or a   *)
(* marker of another version, never one that earlier starts left behind;    *)
(* unless one of them accepted a marker whose entry a killed or failed      *)
(* start had not flushed, and built on it.                                  *)
OnlyForeignRefused == pc = "refused" => marker = "other" \/ data = "theirs" \/ trusted

(* Our data lies under a marker that the disk has, so that it does not      *)
(* outlive its marker, with the same exception.                             *)
DataHasMarker == data = "ours" => (marker = "whole" /\ linked) \/ trusted

(* A directory that is not gokvx's, or not of this version, is never        *)
(* changed by PrepareDataDir or anything after it.                          *)
ForeignUntouched ==
    [][marker = "other" \/ data = "theirs" => UNCHANGED <<tmp, marker, data>>]_vars
=============================================================================
