-------------------------- MODULE NodeStorageProofs --------------------------
(* NodeStorage implements DataDir: what is proved of a data directory by    *)
(* itself holds with a command log living in it.                            *)
EXTENDS NodeStorage, TLAPS

DP == INSTANCE DataDirProofs WITH linked <- linkedMarker

LEMMA SamePrepare == D!PrepareDataDir => DP!PrepareDataDir
BY DEF D!PrepareDataDir, DP!PrepareDataDir, D!fileVars, DP!fileVars,
       D!checkVersion, DP!checkVersion, D!RefuseUnmarked, DP!RefuseUnmarked,
       D!MayInitialize, DP!MayInitialize, D!OpenTmp, DP!OpenTmp,
       D!WriteTmp, DP!WriteTmp, D!WriteTmpFails, DP!WriteTmpFails,
       D!SyncTmp, DP!SyncTmp, D!SyncTmpFails, DP!SyncTmpFails,
       D!Rename, DP!Rename, D!RenameFails, DP!RenameFails,
       D!SyncDir, DP!SyncDir, D!SyncDirFails, DP!SyncDirFails

(* Every step of the node is a step of DataDir, or leaves the directory     *)
(* alone.                                                                   *)
LEMMA NodeStepsDir == [NodeNext]_nodeVars => [DP!Next]_(DP!vars)
<1> SUFFICES ASSUME [NodeNext]_nodeVars PROVE [DP!Next]_(DP!vars)
    OBVIOUS
<1>1. CASE Preparing
    BY <1>1, SamePrepare DEF Preparing, DP!Next
<1>2. CASE LogStep
  <2>1. CASE D!CreateData
      BY <2>1 DEF D!CreateData, DP!CreateData, D!fileVars, DP!fileVars, DP!Next
  <2>2. CASE UNCHANGED dirVars
      BY <2>2 DEF dirVars, DP!vars, DP!fileVars
  <2> QED
      BY <1>2, <2>1, <2>2 DEF LogStep
<1>3. CASE NodeExit
    BY <1>3 DEF NodeExit, D!Exit, DP!Exit, D!fileVars, DP!fileVars, DP!Next
<1>4. CASE NodeKill
    BY <1>4 DEF NodeKill, D!Kill, DP!Kill, DP!Next
<1>5. CASE NodePowerLoss
  <2>1. D!PowerLoss
      BY <1>5 DEF NodePowerLoss
  <2>2. DP!PowerLoss
      BY <2>1 DEF D!PowerLoss, DP!PowerLoss, D!Left, DP!Left, D!Ours, DP!Ours
  <2> QED
      BY <2>2 DEF DP!Next
<1>6. CASE UNCHANGED nodeVars
    BY <1>6 DEF nodeVars, dirVars, DP!vars, DP!fileVars
<1> QED
    BY <1>1, <1>2, <1>3, <1>4, <1>5, <1>6 DEF NodeNext

(* The node implements PrepareDataDir's specification. *)
THEOREM NodeImplementsDataDir == NodeSpec => DP!Spec
<1>1. NodeInit => DP!Init
    BY DEF NodeInit, D!Init, DP!Init
<1> QED
    BY <1>1, NodeStepsDir, PTL DEF NodeSpec, DP!Spec

(* writeFileAtomic: with a log in the directory and under every fault, a    *)
(* storage_version file that exists is complete.                            *)
THEOREM NodeMarkerWhole == NodeSpec => []MarkerWhole
<1>1. DP!MarkerWhole <=> MarkerWhole
    BY DEF DP!MarkerWhole, MarkerWhole, D!MarkerWhole
<1> QED
    BY <1>1, NodeImplementsDataDir, DP!MarkerAlwaysWhole, PTL

(* PrepareDataDir lets a node start again on what it left behind, unless it *)
(* once built on a marker that had not been flushed.                        *)
THEOREM NodeDirAccepted == NodeSpec => []OnlyForeignRefused
<1>1. DP!OnlyForeignRefused <=> OnlyForeignRefused
    BY DEF DP!OnlyForeignRefused, OnlyForeignRefused, D!OnlyForeignRefused
<1> QED
    BY <1>1, NodeImplementsDataDir, DP!OwnDirAccepted, PTL
=============================================================================
