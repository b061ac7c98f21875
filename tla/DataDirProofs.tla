---------------------------- MODULE DataDirProofs ----------------------------
(* What DataDir guarantees for every set of faults. *)
EXTENDS DataDir, TLAPS

(* How far a start has come, and what it may rely on: the temporary file is *)
(* complete and flushed before it is renamed, and only a prepared directory *)
(* gets data.                                                               *)
StartInv ==
    /\ pc \in {"write", "sync", "rename"} => marker = "none" /\ data = "none"
    /\ pc \in {"sync", "rename"} => tmp = "whole"
    /\ pc = "rename" => tmpDisk
    /\ pc = "syncDir" => marker = "whole" /\ data = "none"
    /\ pc = "ready" => marker = "whole" /\ (linked \/ trusted)

(* The marker's content is on disk before its entry is. *)
MarkerInv ==
    /\ MarkerWhole
    /\ marker # "none" => markDisk
    /\ marker = "other" => linked

(* Nothing is started in a foreign directory, and nothing is left in one. *)
ForeignInv ==
    marker = "other" \/ data = "theirs" =>
        /\ tmp = "none" /\ marker \in {"none", "other"} /\ data # "ours"
        /\ pc \in {"down", "refused"}

DirInv ==
    TypeOK /\ StartInv /\ MarkerInv /\ ForeignInv /\ DataHasMarker /\ OnlyForeignRefused

LEMMA DirInit == Init => DirInv
BY DEF Init, DirInv, TypeOK, StartInv, MarkerInv, MarkerWhole, ForeignInv,
       DataHasMarker, OnlyForeignRefused, Ours

LEMMA DirNext == DirInv /\ [Next]_vars => DirInv'
<1> SUFFICES ASSUME DirInv, [Next]_vars PROVE DirInv'
    OBVIOUS
<1> USE DEF DirInv, TypeOK, StartInv, MarkerInv, MarkerWhole, ForeignInv,
            DataHasMarker, OnlyForeignRefused, Ours
<1>1. CASE checkVersion
    BY <1>1 DEF checkVersion, fileVars
<1>2. CASE RefuseUnmarked
    BY <1>2 DEF RefuseUnmarked, MayInitialize, fileVars
<1>3. CASE OpenTmp
    BY <1>3 DEF OpenTmp, MayInitialize
<1>4. CASE WriteTmp \/ WriteTmpFails
    BY <1>4 DEF WriteTmp, WriteTmpFails
<1>5. CASE SyncTmp \/ SyncTmpFails
    BY <1>5 DEF SyncTmp, SyncTmpFails
<1>6. CASE Rename \/ RenameFails
    BY <1>6 DEF Rename, RenameFails, fileVars
<1>7. CASE SyncDir \/ SyncDirFails
    BY <1>7 DEF SyncDir, SyncDirFails, fileVars
<1>8. CASE CreateData \/ Exit
    BY <1>8 DEF CreateData, Exit, fileVars
<1>9. CASE Kill
    BY <1>9 DEF Kill
<1>10. CASE PowerLoss
    BY <1>10 DEF PowerLoss, Left
<1>11. CASE UNCHANGED vars
    BY <1>11 DEF vars, fileVars
<1> QED
    BY <1>1, <1>2, <1>3, <1>4, <1>5, <1>6, <1>7, <1>8, <1>9, <1>10, <1>11
    DEF Next, PrepareDataDir

LEMMA DirHolds == Spec => []DirInv
BY DirInit, DirNext, PTL DEF Spec

(* writeFileAtomic keeps its promise under every fault: a storage_version   *)
(* file that exists is complete.                                            *)
THEOREM MarkerAlwaysWhole == Spec => []MarkerWhole
<1>1. DirInv => MarkerWhole
    BY DEF DirInv, MarkerInv
<1> QED
    BY <1>1, DirHolds, PTL

(* PrepareDataDir never refuses what earlier starts left behind, unless one *)
(* of them built on a marker that had not been flushed.                     *)
THEOREM OwnDirAccepted == Spec => []OnlyForeignRefused
<1>1. DirInv => OnlyForeignRefused
    BY DEF DirInv
<1> QED
    BY <1>1, DirHolds, PTL

(* PrepareDataDir and what follows it leave foreign directories alone. *)
THEOREM ForeignStaysUntouched == Spec => ForeignUntouched
<1>1. DirInv /\ [Next]_vars =>
        [marker = "other" \/ data = "theirs" => UNCHANGED <<tmp, marker, data>>]_vars
  <2> SUFFICES ASSUME DirInv, [Next]_vars, marker = "other" \/ data = "theirs"
               PROVE  UNCHANGED <<tmp, marker, data>>
      OBVIOUS
  <2>1. /\ tmp = "none" /\ marker \in {"none", "other"} /\ data # "ours"
        /\ pc \in {"down", "refused"}
      BY DEF DirInv, ForeignInv
  <2>2. CASE PrepareDataDir
      BY <2>1, <2>2 DEF PrepareDataDir, checkVersion, RefuseUnmarked, OpenTmp, MayInitialize,
         WriteTmp, WriteTmpFails, SyncTmp, SyncTmpFails, Rename, RenameFails,
         SyncDir, SyncDirFails, fileVars
  <2>3. CASE CreateData \/ Exit \/ Kill
      BY <2>1, <2>3 DEF CreateData, Exit, Kill, fileVars
  <2>4. CASE PowerLoss
      BY <2>1, <2>4 DEF PowerLoss, Left, DirInv, MarkerInv, TypeOK
  <2> QED
      BY <2>2, <2>3, <2>4 DEF Next, vars, fileVars
<1> QED
    BY <1>1, DirHolds, PTL DEF Spec, ForeignUntouched
=============================================================================
