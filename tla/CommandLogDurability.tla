------------------------ MODULE CommandLogDurability ------------------------
(* The always policy keeps its promise through power loss: AlwaysInv is     *)
(* inductive under AlwaysFaults, so every acknowledged record survives and  *)
(* OpenLog never refuses what a crash left.                                 *)
EXTENDS CommandLogAppend

(* The syncer, Close and Exit find nothing to flush. *)
LEMMA AlwaysRest ==
    ASSUME AlwaysInv,
           \/ TickerFires \/ SyncerTick \/ SyncerStop \/ syncIfDirty
           \/ \E c \in Closers : CloseBegin(c) \/ CloseFinish(c)
           \/ Exit
    PROVE  AlwaysInv'
<1>0. TypeInv' /\ TypeOK
  BY TypePart, TypeRest, SMTT(30) DEF TypeInv
<1>1. Unlocked => ~dirty
  BY DEF AlwaysInv, RecoveryInv, DownInv, Unlocked
<1>2. files' = files /\ linked' = linked /\ stale' = stale /\ dirLinked' = dirLinked
      /\ UNCHANGED ghostVars
  <2>1. CASE TickerFires \/ SyncerTick \/ SyncerStop \/ Exit
    BY <2>1, SMTT(30) DEF TickerFires, SyncerTick, SyncerStop, Exit, diskVars, ghostVars
  <2>2. CASE syncIfDirty
    BY <1>1, <2>2, SMTT(30) DEF syncIfDirty, NothingToSync, syncVars, ghostVars
  <2>3. ASSUME NEW c \in Closers, CloseBegin(c) \/ CloseFinish(c)
        PROVE  files' = files /\ linked' = linked /\ stale' = stale /\ dirLinked' = dirLinked
               /\ UNCHANGED ghostVars
    BY <1>1, <2>3 DEF CloseBegin, CloseFinish, syncVars, diskVars, ghostVars
  <2> QED
    BY <2>1, <2>2, <2>3, SMTT(30)
<1>3. CellsInv' /\ ChainInv' /\ AckedInv'
  BY <1>2, SameFiles
<1>4. CASE Exit \/ \E c \in Closers : CloseFinish(c)
  <2>1. /\ status' \in {"down", "closed"} /\ op'.pc = "idle" /\ op.pc = "idle" /\ dirty' = FALSE
        /\ status \in {"open", "closed"}
        /\ (status' = "down" => failed' = "none" /\ closed' = FALSE /\ op' = Idle)
    <3>1. CASE Exit
      BY <1>0, <3>1 DEF Exit, ProcessGone, Idle, AlwaysInv, RecoveryInv, DownInv, TypeOK
    <3>2. ASSUME NEW c \in Closers, CloseFinish(c)
          PROVE  status' = "closed" /\ op' = op /\ op.pc = "idle" /\ dirty' = FALSE
                 /\ status = "open"
      BY <1>0, <1>1, <3>2 DEF CloseFinish, syncVars, Unlocked, TypeOK
    <3> QED
      BY <1>4, <3>1, <3>2, ZenonT(30)
  <2>2. SettledInv' /\ LinkInv' /\ StaleInv' /\ DownInv' /\ OpenInv'
    BY <1>2, <2>1, ZenonT(30) DEF AlwaysInv, RecoveryInv, SettledInv, LinkInv, StaleInv,
       DownInv, OpenInv
  <2> QED
    BY <1>0, <1>3, <2>2, SMTT(30) DEF AlwaysInv, RecoveryInv, TypeInv
<1>5. CASE \/ TickerFires \/ SyncerTick \/ SyncerStop \/ syncIfDirty
           \/ \E c \in Closers : CloseBegin(c)
  <2>1. /\ status' = status /\ op' = op /\ dirty' = dirty /\ failed' = failed
        /\ segments' = segments /\ active' = active /\ activeSize' = activeSize
        /\ lastIndex' = lastIndex
        /\ closed' = closed \/ status \in {"open", "closed"}
    <3>1. CASE TickerFires \/ SyncerTick \/ SyncerStop
      BY <3>1, SMTT(30) DEF TickerFires, SyncerTick, SyncerStop, logVars, flagVars
    <3>2. CASE syncIfDirty
      BY <1>1, <3>2, SMTT(30) DEF syncIfDirty, NothingToSync, syncVars, logVars
    <3>3. CASE \E c \in Closers : CloseBegin(c)
      BY <3>3, ZenonT(30) DEF CloseBegin, logVars
    <3> QED
      BY <1>5, <3>1, <3>2, <3>3, SMTT(30)
  <2>2. SettledInv' /\ LinkInv' /\ StaleInv'
    BY <1>2, <2>1 DEF AlwaysInv, RecoveryInv, SettledInv, LinkInv, StaleInv, IsLast
  <2>3. DownInv'
    BY <1>2, <2>1 DEF AlwaysInv, RecoveryInv, DownInv, Clean, InSequence
  <2>4. Count' = Count /\ (Clean(active))' = Clean(active)
    BY <1>2, <2>1, SMTT(30) DEF Count, Clean, InSequence
  <2>5. OpenInv'
    BY <1>2, <2>1, <2>4, SMTT(30) DEF AlwaysInv, RecoveryInv, OpenInv, InSequence
  <2> QED
    BY <1>0, <1>3, <2>2, <2>3, <2>5, SMTT(30) DEF AlwaysInv, RecoveryInv, TypeInv
<1> QED
  BY <1>4, <1>5

-----------------------------------------------------------------------------
(* The theorems *)

LEMMA AlwaysInit ==
    ASSUME Init, AlwaysFaults
    PROVE  AlwaysInv
<1>1. TypeInv
  BY TypeInit
<1>2. DOMAIN files = {} /\ stale = {} /\ DOMAIN acked = {}
  BY EmptyFunction, SMTT(30) DEF Init
<1>3. CellsInv /\ SettledInv /\ ChainInv /\ LinkInv /\ StaleInv /\ AckedInv
  BY <1>2, SMTT(30) DEF CellsInv, SettledInv, ChainInv, LinkInv, StaleInv, AckedInv
<1>4. DownInv /\ OpenInv
  BY DEF Init, AlwaysFaults, DownInv, OpenInv, Idle
<1> QED
  BY <1>1, <1>3, <1>4 DEF AlwaysInv, RecoveryInv, TypeInv

LEMMA AlwaysNext ==
    ASSUME AlwaysInv, AlwaysFaults, Next
    PROVE  AlwaysInv'
<1>1. CASE OpenLog
  BY <1>1, AlwaysOpenLog
<1>2. CASE AppendStep \/ \E cmd \in Commands : AppendStart(cmd)
  BY <1>2, AlwaysAppendQuiet, AlwaysCreate, AlwaysWrite, AlwaysSyncRecord, SMTT(30)
     DEF AppendStep
<1>3. CASE \/ TickerFires \/ SyncerTick \/ SyncerStop \/ syncIfDirty
           \/ \E c \in Closers : CloseBegin(c) \/ CloseFinish(c)
           \/ Exit
  BY <1>3, AlwaysRest
<1>4. CASE Crash
  <2>1. ~Kill /\ ~PowerLossOfDir
    BY Zenon DEF Kill, PowerLossOfDir, AlwaysFaults, AlwaysInv, RecoveryInv, DownInv
  <2> QED
    BY <1>4, <2>1, AlwaysPowerLoss, SMTT(30) DEF Crash
<1> QED
  BY <1>1, <1>2, <1>3, <1>4 DEF Next

(* AlwaysInv holds in every reachable state. *)
LEMMA AlwaysInductive == AlwaysFaults => (Spec => []AlwaysInv)
<1>1. SUFFICES ASSUME AlwaysFaults PROVE Spec => []AlwaysInv
  OBVIOUS
<1>2. Init => AlwaysInv
  BY <1>1, AlwaysInit
<1>3. AlwaysInv /\ [Next]_vars => AlwaysInv'
  <2>1. ASSUME AlwaysInv, UNCHANGED vars PROVE AlwaysInv'
    <3>1. /\ UNCHANGED <<files, linked, stale, dirLinked, status, dirty, failed, closed, op>>
          /\ UNCHANGED <<segments, active, activeSize, lastIndex, tick, syncer, closer>>
          /\ UNCHANGED <<acked, flushedTo>> /\ UNCHANGED ghostVars
      BY <2>1 DEF vars, diskVars, logVars, flagVars, taskVars, ghostVars
    <3>2. TypeOK' /\ Bounded' /\ Opening'
      BY <2>1, <3>1, SMTT(30) DEF AlwaysInv, RecoveryInv, TypeOK, Bounded, Opening
    <3>3. CellsInv' /\ ChainInv' /\ AckedInv'
      BY <2>1, <3>1, SameFiles, SMTT(30)
    <3>4. SettledInv' /\ LinkInv' /\ StaleInv'
      BY <2>1, <3>1, SMTT(30) DEF AlwaysInv, RecoveryInv, SettledInv, LinkInv, StaleInv,
         IsLast
    <3>5. DownInv'
      BY <2>1, <3>1, SMTT(30) DEF AlwaysInv, RecoveryInv, DownInv, Clean, InSequence
    <3>6. Count' = Count /\ (Clean(active))' = Clean(active)
      BY <3>1, SMTT(30) DEF Count, Clean, InSequence
    <3>7. OpenInv'
      BY <2>1, <3>1, <3>6, SMTT(30) DEF AlwaysInv, RecoveryInv, OpenInv, InSequence
    <3> QED
      BY <3>2, <3>3, <3>4, <3>5, <3>7 DEF AlwaysInv, RecoveryInv
  <2> QED
    BY <1>1, <2>1, AlwaysNext
<1> QED
  BY <1>2, <1>3, PTL DEF Spec

(* What AlwaysInv says of an open log is what AckedSurvive promises. *)
LEMMA AlwaysHolds ==
    ASSUME AlwaysInv
    PROVE  AckedSurvive
<1>1. SUFFICES ASSUME status = "open", NEW i \in DOMAIN acked
               PROVE  Holds(i, acked[i])
  BY DEF AckedSurvive, NoSilentLoss, AlwaysInv, RecoveryInv, DownInv
<1>2. PICK f \in DOMAIN files : DurableIn(f, i, acked[i])
  BY <1>1, SMTT(30) DEF AlwaysInv, RecoveryInv, AckedInv
<1>3. TypeOK /\ i \in Nat /\ f \in Nat /\ f > 0 /\ Len(files[f]) \in Nat
  BY <1>1, <1>2, FileFacts, SMTT(30) DEF AlwaysInv, RecoveryInv, TypeOK
<1>4. i # 0 /\ f <= i /\ i - f + 1 <= Len(files[f]) /\ files[f][i - f + 1].index = i
      /\ files[f][i - f + 1].cmd = acked[i]
  BY <1>2, <1>3 DEF DurableIn
<1>5. f \in DOMAIN segments /\ (f # active => segments[f] = f + Len(files[f]) - 1)
  <2>1. CASE op.pc = "syncDir" /\ f = lastIndex + 1
    <3>1. files[f] = << >>
      BY <1>1, <2>1, SMTT(30) DEF AlwaysInv, RecoveryInv, OpenInv
    <3> QED
      BY <1>3, <1>4, <3>1, SMTT(30)
  <2> QED
    BY <1>1, <1>2, <2>1, SMTT(30) DEF AlwaysInv, RecoveryInv, OpenInv
<1>6. i <= segments[f]
  <2>1. CASE f # active
    BY <1>3, <1>4, <1>5, <2>1, SMTT(30)
  <2>2. CASE f = active
    <3>1. segments[f] = lastIndex /\ lastIndex \in Nat /\ active \in Nat
      BY <1>1, <1>3, <2>2, SMTT(30) DEF AlwaysInv, RecoveryInv, OpenInv, TypeOK
    <3>2. CASE op.pc # "sync"
      <4>1. \/ Len(files[active]) = Count
            \/ Len(files[active]) = Count + 1 /\ files[active][Count + 1].index = 0
        <5>1. OpenInv
          BY SMTT(30) DEF AlwaysInv, RecoveryInv
        <5> QED
          BY <1>1, <3>2, <5>1 DEF OpenInv
      <4> QED
        BY <1>3, <1>4, <2>2, <3>1, <4>1, SMTT(30) DEF Count
    <3>3. CASE op.pc = "sync"
      <4>1. Len(files[f]) = Count + 1 /\ files[f][Count + 1].at = "dirty"
        BY <1>1, <2>2, <3>3, SMTT(30) DEF AlwaysInv, RecoveryInv, OpenInv
      <4>2. files[f][i - f + 1].at = "disk"
        BY <1>2 DEF DurableIn
      <4> QED
        BY <1>3, <1>4, <2>2, <3>1, <4>1, <4>2, SMTT(30) DEF Count
    <3> QED
      BY <3>2, <3>3, SMTT(30)
  <2> QED
    BY <2>1, <2>2, SMTT(30)
<1> QED
  BY <1>4, <1>5, <1>6, SMTT(30) DEF Holds

(* An open log counts every acknowledged record. *)
LEMMA AckedCounted ==
    ASSUME AlwaysInv, status = "open", NEW i \in DOMAIN acked
    PROVE  i <= lastIndex
<1>1. PICK f \in DOMAIN segments : i <= segments[f]
  BY AlwaysHolds, SMTT(30) DEF AckedSurvive, NoSilentLoss, Holds
<1>2. /\ TypeOK /\ i \in Nat /\ f \in DOMAIN files /\ active \in DOMAIN files
      /\ active \in Nat /\ lastIndex \in Nat /\ f \in Nat
      /\ segments[active] = lastIndex /\ Count >= 0 /\ f <= active
      /\ (f # active => segments[f] = f + Len(files[f]) - 1)
  BY <1>1, FileFacts, ZenonT(30) DEF AlwaysInv, RecoveryInv, TypeOK, OpenInv
<1>3. CASE f = active
  BY <1>1, <1>2, <1>3
<1>4. CASE f # active
  <2>1. f + Len(files[f]) <= active /\ Len(files[f]) \in Nat
    BY <1>2, <1>4, FileFacts DEF AlwaysInv, RecoveryInv, ChainInv
  <2> QED
    BY <1>1, <1>2, <1>4, <2>1 DEF Count
<1> QED
  BY <1>3, <1>4, SMTT(30)

(* The always policy keeps every acknowledged record: whatever power loss,  *)
(* failed writes and failed file creations do, a log that OpenLog has       *)
(* opened holds every record Append acknowledged.                           *)
THEOREM AlwaysDurable == AlwaysFaults => (Spec => []AckedSurvive)
<1>1. AlwaysInv => AckedSurvive
  BY AlwaysHolds, SMTT(30)
<1> QED
  BY <1>1, AlwaysInductive, PTL

(* Under the same assumptions OpenLog never reports corruption: what a      *)
(* power loss leaves is always whole or a torn tail.                        *)
THEOREM AlwaysOpens == AlwaysFaults => (Spec => []NeverRefused)
<1>1. AlwaysInv => NeverRefused
  BY DEF AlwaysInv, RecoveryInv, DownInv, NeverRefused
<1> QED
  BY <1>1, AlwaysInductive, PTL

(* Under the same assumptions a segment that rotate has left behind is on   *)
(* disk in full.                                                            *)
THEOREM AlwaysSealed == AlwaysFaults => (Spec => []SealedOnDisk)
<1>1. ASSUME AlwaysInv PROVE SealedOnDisk
  <2>1. SUFFICES ASSUME status = "open", NEW f \in DOMAIN segments \ {active}
                 PROVE  OnDisk(f)
    BY SMTT(30) DEF SealedOnDisk
  <2>2. /\ TypeOK /\ f \in DOMAIN files /\ active \in DOMAIN files /\ f <= active
        /\ f \in Nat /\ active \in Nat
    BY <1>1, <2>1, FileFacts, ZenonT(30) DEF AlwaysInv, RecoveryInv, OpenInv, TypeOK
  <2>3. ~IsLast(f)
    BY <2>1, <2>2 DEF IsLast
  <2>4. DOMAIN files[f] = 1..Len(files[f])
    BY <2>2, FileFacts
  <2> QED
    BY <1>1, <2>2, <2>3, <2>4, SMTT(30) DEF AlwaysInv, RecoveryInv, CellsInv, OnDisk
<1> QED
  BY <1>1, AlwaysInductive, PTL

(* Under the same assumptions rotate never finds the name of the segment it *)
(* creates taken.                                                           *)
THEOREM AlwaysRotates == AlwaysFaults => (Spec => []RotationUnblocked)
<1>1. ASSUME AlwaysInv PROVE RotationUnblocked
  <2>1. SUFFICES ASSUME status = "open", op.pc = "create"
                 PROVE  lastIndex + 1 \notin DOMAIN files
    BY DEF RotationUnblocked
  <2>2. DOMAIN files = DOMAIN segments /\ active \in Nat /\ lastIndex \in Nat
    BY <1>1, <2>1, OpenFacts, SMTT(30)
  <2>3. /\ \A f \in DOMAIN segments : f <= active
        /\ Count > 0
    BY <1>1, <2>1, SMTT(30) DEF AlwaysInv, RecoveryInv, OpenInv
  <2> QED
    BY <2>2, <2>3 DEF Count
<1> QED
  BY <1>1, AlwaysInductive, PTL

(* Under the same assumptions Append never gives the index of an            *)
(* acknowledged record to another command, across restarts included.        *)
THEOREM AlwaysNeverReassigned == AlwaysFaults => (Spec => AckedNeverReassigned)
<1> DEFINE Kept == \A i \in DOMAIN acked \cap DOMAIN acked' : acked'[i] = acked[i]
<1>0. SUFFICES ASSUME AlwaysFaults PROVE Spec => AckedNeverReassigned
  BY SMTT(30)
<1>1. ASSUME AlwaysInv, [Next]_vars PROVE [Kept]_vars
  <2>1. CASE SyncRecord
    <3>1. status = "open" /\ lastIndex \in Nat
      BY <1>1, <2>1, SMTT(30) DEF AlwaysInv, RecoveryInv, TypeOK, SyncRecord
    <3>2. acked' = acked \/ acked' = With(acked, lastIndex + 1, op.cmd)
      BY <2>1 DEF SyncRecord, Acknowledge
    <3>3. lastIndex + 1 \notin DOMAIN acked
      BY <1>1, <3>1, AckedCounted, SMTT(30)
    <3> QED
      BY <3>2, <3>3, SMTT(30) DEF With
  <2>2. CASE PowerLoss \/ PowerLossOfDir
    BY <2>2 DEF PowerLoss, PowerLossOfDir, Promised
  <2>3. CASE WriteRecord
    BY <1>0, <2>3, SMTT(30) DEF WriteRecord, SyncsEachRecord, AlwaysFaults
  <2>4. CASE OpenLog
    BY <2>4 DEF OpenLog, StartFirstSegment, FirstSegmentSynced, FirstSegmentFails,
       OpenClean,
         OpenTruncate, TruncateSynced, TruncateSyncFails, OpenRefused, Loaded, ghostVars
  <2>5. CASE \/ RotateFlush \/ RotateCreate \/ RotateCreateFails \/ RotateSyncDir
             \/ RotateSyncDirFails \/ WriteFails \/ \E cmd \in Commands : AppendStart(cmd)
    BY <2>5, SMTT(30) DEF RotateFlush, RotateCreate, RotateCreateFails, RotateSyncDir,
         RotateSyncDirFails, WriteFails, AppendStart, ghostVars
  <2>6. CASE \/ TickerFires \/ SyncerTick \/ SyncerStop \/ syncIfDirty \/ Exit \/ Kill
             \/ \E c \in Closers : CloseBegin(c) \/ CloseFinish(c)
    BY <2>6 DEF TickerFires, SyncerTick, SyncerStop, syncIfDirty, Exit, Kill, CloseBegin,
         CloseFinish, ghostVars
  <2>7. CASE UNCHANGED vars
    BY <2>7
  <2> QED
    BY <1>1, <2>1, <2>2, <2>3, <2>4, <2>5, <2>6, <2>7, ZenonT(30) DEF Next, AppendStep,
       Crash
<1>2. Spec => []AlwaysInv
  BY <1>0, AlwaysInductive
<1> QED
  BY <1>1, <1>2, PTL DEF Spec, AckedNeverReassigned
=============================================================================
