-------------------------- MODULE CommandLogAppend --------------------------
(* The steps of Append, with rotation, preserve AlwaysInv under             *)
(* AlwaysFaults.                                                            *)
EXTENDS CommandLogRecovery

(* The steps of an append that leave the files alone. *)
LEMMA AlwaysAppendQuiet ==
    ASSUME AlwaysInv, AlwaysFaults,
           \/ \E cmd \in Commands : AppendStart(cmd)
           \/ RotateFlush \/ RotateCreateFails \/ RotateSyncDir \/ RotateSyncDirFails
    PROVE  AlwaysInv'
<1>0. TypeInv' /\ TypeOK
  BY TypePart, TypeAppend DEF TypeInv, AppendStep
<1> SUFFICES CellsInv' /\ SettledInv' /\ ChainInv' /\ LinkInv' /\ StaleInv'
             /\ AckedInv' /\ DownInv' /\ OpenInv'
  BY <1>0 DEF AlwaysInv, RecoveryInv, TypeInv
<1>1. ASSUME NEW cmd \in Commands, AppendStart(cmd) PROVE AlwaysInv'
  <2>1. /\ status = "open" /\ op.pc = "idle" /\ failed = "none" /\ UNCHANGED ghostVars
        /\ op'.pc \in {"rotate", "write"} /\ (op'.pc = "rotate" => activeSize > 0)
        /\ files' = files /\ linked' = linked /\ stale' = stale /\ dirLinked' = dirLinked
        /\ status' = status /\ segments' = segments /\ active' = active
        /\ activeSize' = activeSize /\ lastIndex' = lastIndex /\ dirty' = dirty
        /\ failed' = failed
    BY <1>1 DEF AppendStart, Unlocked, writable, MustRotate, diskVars, logVars, flagVars
  <2>2. CellsInv' /\ ChainInv' /\ AckedInv'
    BY <2>1, SameFiles, SMTT(30)
  <2>3. SettledInv' /\ LinkInv' /\ StaleInv' /\ DownInv'
    BY <2>1, SMTT(30) DEF AlwaysInv, RecoveryInv, SettledInv, LinkInv, StaleInv, DownInv,
       IsLast
  <2>4. activeSize > 0 => Count > 0
    <3>1. Count \in Nat
      BY <2>1, OpenFacts, SMTT(30)
    <3> QED
      BY <2>1, <3>1, SMTT(30) DEF AlwaysInv, RecoveryInv, OpenInv
  <2>5. Count' = Count /\ (Clean(active))' = Clean(active)
    BY <2>1, SMTT(30) DEF Count, Clean, InSequence
  <2>6. OpenInv'
    BY <2>1, <2>4, <2>5, SMTT(30) DEF AlwaysInv, RecoveryInv, OpenInv
  <2> QED
    BY <1>0, <2>2, <2>3, <2>6, SMTT(30) DEF AlwaysInv, RecoveryInv, TypeInv
<1>2. CASE RotateFlush
  <2>1. op.pc = "rotate" /\ status = "open" /\ failed = "none" /\ ~dirty
    BY <1>0, <1>2, SMTT(30) DEF RotateFlush, AlwaysInv, RecoveryInv, TypeOK, OpenInv,
       DownInv
  <2>2. /\ files' = files /\ linked' = linked /\ stale' = stale /\ dirLinked' = dirLinked
        /\ status' = status /\ segments' = segments /\ active' = active
        /\ activeSize' = activeSize /\ lastIndex' = lastIndex /\ dirty' = dirty
        /\ failed' = failed /\ UNCHANGED ghostVars
    BY <1>2, <2>1 DEF RotateFlush, syncVars, logVars, ghostVars
  <2>3. op' = [op EXCEPT !.pc = "create"]
    BY <1>2, <2>1, <2>2 DEF RotateFlush
  <2>4. op'.pc = "create"
    BY <1>0, <2>3 DEF TypeOK
  <2>5. CellsInv' /\ ChainInv' /\ AckedInv'
    BY <2>2, SameFiles, SMTT(30)
  <2>6. SettledInv' /\ LinkInv' /\ StaleInv' /\ DownInv'
    BY <2>1, <2>2, <2>4, SMTT(30) DEF AlwaysInv, RecoveryInv, SettledInv, LinkInv,
       StaleInv, DownInv, IsLast
  <2>7. Count' = Count /\ (Clean(active))' = Clean(active)
    BY <2>2, SMTT(30) DEF Count, Clean, InSequence
  <2>8. OpenInv'
    BY <2>1, <2>2, <2>4, <2>7, SMTT(30) DEF AlwaysInv, RecoveryInv, OpenInv
  <2> QED
    BY <2>5, <2>6, <2>8, SMTT(30)
<1>3. CASE RotateCreateFails
  <2>1. op.pc = "create" /\ status = "open"
    BY <1>0, <1>3, SMTT(30) DEF RotateCreateFails, TypeOK
  <2>2. /\ files' = files /\ linked' = linked /\ stale' = stale /\ dirLinked' = dirLinked
        /\ status' = status /\ segments' = segments /\ active' = active
        /\ activeSize' = activeSize /\ lastIndex' = lastIndex /\ dirty' = dirty
        /\ failed' = "rotate" /\ UNCHANGED ghostVars /\ op' = Idle /\ op'.pc = "idle"
    BY <1>3 DEF RotateCreateFails, diskVars, logVars, Idle
  <2>3. CellsInv' /\ ChainInv' /\ AckedInv'
    BY <2>2, SameFiles, SMTT(30)
  <2>4. SettledInv' /\ LinkInv' /\ StaleInv' /\ DownInv'
    BY <2>1, <2>2, SMTT(30) DEF AlwaysInv, RecoveryInv, SettledInv, LinkInv, StaleInv,
       DownInv, IsLast
  <2>5. Count' = Count /\ (Clean(active))' = Clean(active)
    BY <2>2, SMTT(30) DEF Count, Clean, InSequence
  <2>6. OpenInv'
    BY <2>1, <2>2, <2>5, SMTT(30) DEF AlwaysInv, RecoveryInv, OpenInv
  <2> QED
    BY <2>3, <2>4, <2>6
<1>4. CASE RotateSyncDir
  <2> DEFINE n == lastIndex + 1
  <2>1. op.pc = "syncDir" /\ status = "open"
    BY <1>0, <1>4 DEF RotateSyncDir, TypeOK
  <2>2. /\ files' = files /\ linked' = DOMAIN files /\ stale' = stale /\ dirLinked' = dirLinked
        /\ status' = status /\ segments' = With(segments, n, lastIndex) /\ active' = n
        /\ activeSize' = 0 /\ lastIndex' = lastIndex /\ dirty' = dirty
        /\ failed' = failed /\ UNCHANGED ghostVars /\ op' = [op EXCEPT !.pc = "write"]
    BY <1>4 DEF RotateSyncDir, flagVars
  <2>3. op'.pc = "write"
    BY <1>0, <2>2, SMTT(30) DEF TypeOK
  <2>4. /\ DOMAIN files = DOMAIN segments \cup {n} /\ segments[active] = lastIndex /\ Count > 0
        /\ files[n] = << >> /\ failed = "none" /\ Len(files[active]) = Count
        /\ active \in DOMAIN segments
        /\ \A f \in DOMAIN segments : f <= active
        /\ \A f \in DOMAIN segments \ {active} : segments[f] = f + Len(files[f]) - 1
    BY <1>0, <2>1, SMTT(30) DEF AlwaysInv, RecoveryInv, OpenInv, TypeOK
  <2>5. active \in Nat /\ lastIndex \in Nat /\ n \in Nat /\ \A f \in DOMAIN segments : f \in Nat
    BY <1>0 DEF TypeOK
  <2>6. \A f \in DOMAIN segments : f < n
    BY <2>4, <2>5, SMTT(30) DEF Count
  <2>7. \A f \in DOMAIN segments : segments[f] = f + Len(files[f]) - 1
    BY <2>4, <2>5 DEF Count
  <2>8. /\ DOMAIN segments' = DOMAIN segments \cup {n} /\ segments'[n] = lastIndex
        /\ \A f \in DOMAIN segments : segments'[f] = segments[f]
    BY <2>2, <2>5, <2>6 DEF With
  <2>9. CellsInv' /\ ChainInv' /\ AckedInv'
    BY <2>2, SameFiles
  <2>10. SettledInv' /\ LinkInv' /\ StaleInv' /\ DownInv'
    BY <2>1, <2>2, <2>3 DEF AlwaysInv, RecoveryInv, SettledInv, LinkInv, StaleInv, DownInv,
       IsLast
  <2>11. Count' = 0 /\ Len(files'[active']) = 0 /\ Clean(active)'
    BY <2>2, <2>4, <2>5 DEF Count, Clean
  <2> HIDE DEF n
  <2>12. \A f \in DOMAIN segments' : f <= active'
    BY <2>2, <2>5, <2>6, <2>8
  <2>13. \A f \in DOMAIN segments' \ {active'} : segments'[f] = f + Len(files'[f]) - 1
    BY <2>2, <2>7, <2>8
  <2>14. DOMAIN files' = DOMAIN segments' /\ segments'[active'] = lastIndex' /\ failed' = "none"
    BY <2>2, <2>4, <2>8
  <2>15. OpenInv'
    BY <2>2, <2>3, <2>11, <2>12, <2>13, <2>14, SMTT(30) DEF OpenInv
  <2> QED
    BY <2>9, <2>10, <2>15
<1>5. CASE RotateSyncDirFails
  BY <1>5 DEF AlwaysFaults, RotateSyncDirFails
<1> QED
  BY <1>1, <1>2, <1>3, <1>4, <1>5 DEF AlwaysInv, RecoveryInv

(* rotate creates the next segment: the active one is complete and on disk. *)
LEMMA AlwaysCreate ==
    ASSUME AlwaysInv, RotateCreate
    PROVE  AlwaysInv'
<1> DEFINE n == lastIndex + 1
<1>0. TypeInv' /\ TypeOK
  BY TypePart, TypeAppend DEF TypeInv, AppendStep
<1>1. op.pc = "create" /\ status = "open" /\ n \notin DOMAIN files
  BY <1>0 DEF RotateCreate, TypeOK
<1>2. /\ files' = With(files, n, << >>) /\ linked' = linked /\ stale' = stale
      /\ dirLinked' = dirLinked /\ status' = status /\ segments' = segments /\ active' = active
      /\ activeSize' = activeSize /\ lastIndex' = lastIndex /\ dirty' = dirty
      /\ failed' = failed /\ UNCHANGED ghostVars /\ op' = [op EXCEPT !.pc = "syncDir"]
  BY DEF RotateCreate, logVars, flagVars
<1>3. op'.pc = "syncDir"
  BY <1>0, <1>2, SMTT(30) DEF TypeOK
<1>4. failed = "none" /\ Count > 0 /\ segments[active] = lastIndex
  BY <1>1 DEF AlwaysInv, RecoveryInv, OpenInv
<1>5. /\ active \in DOMAIN files /\ DOMAIN files = DOMAIN segments
      /\ IsLast(active) /\ stale = {} /\ DOMAIN files \subseteq linked
      /\ active \in Nat /\ lastIndex \in Nat /\ n \in Nat
      /\ Clean(active) /\ Len(files[active]) = Count /\ Count \in Nat
  BY <1>1, <1>4, OpenFacts, SMTT(30)
<1>6. active + Len(files[active]) = n /\ \A f \in DOMAIN files : f < n /\ f \in Nat
  BY <1>0, <1>4, <1>5, FileFacts DEF Count, IsLast
<1>7. /\ DOMAIN files' = DOMAIN files \cup {n} /\ files'[n] = << >> /\ Len(files'[n]) = 0
      /\ \A f \in DOMAIN files : files'[f] = files[f]
  BY <1>1, <1>2, SMTT(30) DEF With
<1> HIDE DEF n
<1>8. \A f \in DOMAIN files : \A k \in 1..Len(files[f]) :
        files[f][k].index = f + k - 1 /\ files[f][k].at = "disk"
  <2>1. ASSUME NEW f \in DOMAIN files, f # active PROVE ~IsLast(f)
    BY <1>0, <1>5, <2>1, FileFacts DEF IsLast
  <2> QED
    BY <1>5, <2>1, ZenonT(30) DEF AlwaysInv, RecoveryInv, CellsInv, Clean, InSequence
<1>9. CellsInv' /\ SettledInv'
  BY <1>7, <1>8 DEF CellsInv, SettledInv, InSequence
<1>10. ChainInv'
  <2>1. SUFFICES ASSUME NEW f \in DOMAIN files', NEW g \in DOMAIN files', f < g
                 PROVE  /\ Len(files'[f]) > 0
                        /\ f + Len(files'[f]) \in DOMAIN files'
                        /\ f + Len(files'[f]) <= g
    BY DEF ChainInv
  <2>2. f \in DOMAIN files /\ files'[f] = files[f]
    BY <1>5, <1>6, <1>7, <2>1, SMTT(30)
  <2>3. CASE f = active
    <3>1. g = n
      BY <1>5, <1>6, <1>7, <2>1, <2>3, SMTT(30) DEF IsLast
    <3> QED
      BY <1>4, <1>5, <1>6, <1>7, <2>2, <2>3, <3>1, SMTT(30)
  <2>4. CASE f # active /\ g # n
    BY <1>7, <2>1, <2>2, <2>4, SMTT(30) DEF AlwaysInv, RecoveryInv, ChainInv
  <2>5. CASE f # active /\ g = n
    <3>1. f < active
      BY <1>5, <1>6, <2>2, <2>5, SMTT(30) DEF IsLast
    <3>2. Len(files[f]) > 0 /\ f + Len(files[f]) \in DOMAIN files
      BY <1>5, <2>2, <3>1, SMTT(30) DEF AlwaysInv, RecoveryInv, ChainInv
    <3> QED
      BY <1>5, <1>6, <1>7, <2>2, <2>5, <3>2, SMTT(30)
  <2> QED
    BY <2>3, <2>4, <2>5
<1>11. AckedInv'
  BY <1>2, <1>7 DEF AlwaysInv, RecoveryInv, AckedInv, DurableIn, ghostVars
<1>12. LinkInv' /\ StaleInv'
  BY <1>2, <1>3, <1>5, <1>6, <1>7, SMTT(30) DEF LinkInv, StaleInv, IsLast
<1>13. DownInv'
  BY <1>1, <1>2, <1>3 DEF AlwaysInv, RecoveryInv, DownInv
<1>14. Count' = Count /\ Clean(active)'
  BY <1>2, <1>5, <1>7, SMTT(30) DEF Count, Clean, InSequence
<1>15. OpenInv'
  <2>1. lastIndex' + 1 = n
    BY <1>2 DEF n
  <2>2. \A f \in DOMAIN segments : f <= active
    BY <1>5, SMTT(30) DEF IsLast
  <2>3. \A f \in DOMAIN segments \ {active} : segments[f] = f + Len(files[f]) - 1
    BY <1>1 DEF AlwaysInv, RecoveryInv, OpenInv
  <2>4. /\ DOMAIN files' = DOMAIN segments' \cup {lastIndex' + 1}
        /\ files'[lastIndex' + 1] = << >>
    BY <1>2, <1>5, <1>7, <2>1, Zenon
  <2>5. /\ \A f \in DOMAIN segments' : f <= active'
        /\ \A f \in DOMAIN segments' \ {active'} : segments'[f] = f + Len(files'[f]) - 1
    BY <1>2, <1>5, <1>7, <2>2, <2>3
  <2>6. /\ segments'[active'] = lastIndex' /\ Count' > 0 /\ Count' >= 0 /\ Count' # 0
        /\ failed' = "none" /\ Len(files'[active']) = Count'
    BY <1>2, <1>4, <1>5, <1>7, <1>14
  <2> QED
    BY <1>3, <1>14, <2>4, <2>5, <2>6 DEF OpenInv
<1> QED
  BY <1>0, <1>9, <1>10, <1>11, <1>12, <1>13, <1>15, SMTT(30) DEF AlwaysInv, RecoveryInv,
     TypeInv

(* The write, whole or failed: a cell at the end of the last segment. *)
LEMMA AlwaysWrite ==
    ASSUME AlwaysInv, AlwaysFaults, WriteRecord \/ WriteFails
    PROVE  AlwaysInv'
<1> USE ConfigAssumption
<1>0. TypeInv' /\ TypeOK
  BY TypePart, TypeAppend DEF TypeInv, AppendStep
<1>1. op.pc = "write" /\ status = "open" /\ op.cmd \in Commands
  BY <1>0, SMTT(30) DEF WriteRecord, SyncsEachRecord, WriteFails, TypeOK
<1>2. /\ active \in DOMAIN files /\ DOMAIN files = DOMAIN segments
      /\ IsLast(active) /\ stale = {} /\ DOMAIN files \subseteq linked
      /\ active \in Nat /\ lastIndex \in Nat /\ Count \in Nat /\ failed = "none"
      /\ Clean(active) /\ Len(files[active]) = Count
  BY <1>1, OpenFacts, SMTT(30) DEF AlwaysInv, RecoveryInv, OpenInv
<1>3. active + Len(files[active]) = lastIndex + 1
  BY <1>2 DEF Count
<1>4. /\ linked' = linked /\ stale' = stale /\ dirLinked' = dirLinked /\ status' = status
      /\ active' = active /\ segments' = segments /\ lastIndex' = lastIndex /\ UNCHANGED ghostVars
  BY SMTT(30) DEF WriteRecord, SyncsEachRecord, WriteFails, AlwaysFaults, logVars, ghostVars
<1>5. /\ segments[active] = lastIndex /\ (Count = 0 => activeSize = 0)
      /\ \A f \in DOMAIN segments : f <= active
      /\ \A f \in DOMAIN segments \ {active} : segments[f] = f + Len(files[f]) - 1
  BY <1>1, <1>2, SMTT(30) DEF AlwaysInv, RecoveryInv, OpenInv
<1>6. Count' = Count
  BY <1>4 DEF Count
<1>7. CASE WriteRecord
  <2> DEFINE c == [index |-> lastIndex + 1, cmd |-> op.cmd,
                   end |-> activeSize + CmdSize[op.cmd], at |-> "dirty"]
  <2>1. /\ files' = [files EXCEPT ![active] = Append(@, c)] /\ dirty' = TRUE /\ failed' = failed
        /\ op' = [op EXCEPT !.pc = "sync"]
    BY <1>7 DEF WriteRecord, SyncsEachRecord, AlwaysFaults
  <2>2. op'.pc = "sync" /\ op'.cmd = op.cmd
    BY <1>0, <2>1, SMTT(30) DEF TypeOK
  <2>3. activeSize + CmdSize[op.cmd] \in Nat
    BY <1>0, <1>1, SMTT(30) DEF TypeOK
  <2>4. c \in Cell /\ c.at = "dirty" /\ c.index = lastIndex + 1 /\ c.cmd = op.cmd
    BY <1>1, <1>2, <2>3, SMTT(30) DEF Cell
  <2> HIDE DEF c
  <2>5. CellsInv' /\ ChainInv' /\ AckedInv'
    BY <1>0, <1>2, <1>3, <1>4, <2>1, <2>4, AppendLast, ZenonT(30) DEF AlwaysInv, RecoveryInv
  <2>6. /\ DOMAIN files' = DOMAIN files
        /\ files'[active] = Append(files[active], c)
        /\ \A f \in DOMAIN files : f # active => files'[f] = files[f]
    BY <1>0, <1>2, <2>1 DEF TypeOK
  <2>7. Len(files'[active]) = Count + 1 /\ files'[active][Count + 1] = c
    BY <1>0, <1>2, <2>4, <2>6, FileFacts
  <2>8. SettledInv' /\ LinkInv' /\ StaleInv' /\ DownInv'
    BY <1>1, <1>2, <1>4, <2>1, <2>2, <2>6, SMTT(30) DEF AlwaysInv, RecoveryInv, SettledInv,
       LinkInv, StaleInv, DownInv
  <2>9. active + (Count + 1) - 1 = lastIndex + 1
    BY <1>2, SMTT(30) DEF Count
  <2>10. OpenInv'
    <3>1. /\ DOMAIN files' = DOMAIN segments' /\ segments'[active'] = lastIndex' /\ failed' = "none"
          /\ Count' >= 0
          /\ \A f \in DOMAIN segments' : f <= active'
          /\ \A f \in DOMAIN segments' \ {active'} : segments'[f] = f + Len(files'[f]) - 1
      BY <1>2, <1>4, <1>5, <1>6, <2>1, <2>6, SMTT(30)
    <3>2. /\ Len(files'[active']) = Count' + 1
          /\ files'[active'][Count' + 1].index = active' + (Count' + 1) - 1
          /\ files'[active'][Count' + 1].cmd = op'.cmd
          /\ files'[active'][Count' + 1].at = "dirty"
      BY <1>4, <1>6, <2>2, <2>4, <2>7, <2>9, SMTT(30)
    <3> QED
      BY <2>2, <3>1, <3>2 DEF OpenInv, InSequence
  <2> QED
    BY <1>0, <2>5, <2>8, <2>10, SMTT(30) DEF AlwaysInv, RecoveryInv, TypeInv
<1>8. CASE WriteFails
  <2>1. failed' = "io" /\ op' = Idle /\ op'.pc = "idle" /\ dirty' = dirty /\ activeSize' = activeSize
    BY <1>8, SMTT(30) DEF WriteFails, logVars, Idle
  <2>2. LinkInv' /\ StaleInv' /\ DownInv'
    <3>1. DOMAIN files' = DOMAIN files
      BY <1>0, <1>8, SMTT(30) DEF WriteFails, TypeOK
    <3> QED
      BY <1>1, <1>2, <1>4, <2>1, <3>1, SMTT(30) DEF AlwaysInv, RecoveryInv, LinkInv,
         StaleInv, DownInv
  <2>3. CASE files' = files
    <3>1. CellsInv' /\ ChainInv' /\ AckedInv'
      BY <1>4, <2>3, SameFiles, SMTT(30)
    <3>2. SettledInv'
      BY <1>1, <2>3, SMTT(30) DEF AlwaysInv, RecoveryInv, SettledInv
    <3>3. Clean(active)'
      BY <1>2, <1>4, <2>3, SMTT(30) DEF Clean, InSequence
    <3>4. OpenInv'
      BY <1>2, <1>4, <1>5, <1>6, <2>1, <2>3, <3>3, SMTT(30) DEF OpenInv
    <3> QED
      BY <1>0, <2>2, <3>1, <3>2, <3>4, SMTT(30) DEF AlwaysInv, RecoveryInv, TypeInv
  <2>4. CASE files' = [files EXCEPT ![active] = Append(@, Damaged("dirty"))]
    <3> DEFINE c == Damaged("dirty")
    <3>1. c \in Cell /\ c.at = "dirty" /\ c.index = 0
      BY DamagedType DEF Damaged
    <3>2. files' = [files EXCEPT ![active] = Append(@, c)]
      BY <2>4, SMTT(30)
    <3> HIDE DEF c
    <3>3. CellsInv' /\ ChainInv' /\ AckedInv'
      BY <1>0, <1>2, <1>4, <3>1, <3>2, AppendLast, ZenonT(30) DEF AlwaysInv, RecoveryInv
    <3>4. /\ DOMAIN files' = DOMAIN files
          /\ files'[active] = Append(files[active], c)
          /\ \A f \in DOMAIN files : f # active => files'[f] = files[f]
      BY <1>0, <1>2, <3>2 DEF TypeOK
    <3>5. /\ Len(files'[active]) = Count + 1 /\ files'[active][Count + 1] = c
          /\ \A k \in 1..Count : files'[active][k] = files[active][k]
      BY <1>0, <1>2, <3>1, <3>4, FileFacts
    <3>6. SettledInv'
      <4>1. SUFFICES ASSUME NEW f \in DOMAIN files, NEW k \in 1..Len(files'[f]),
                            files'[f][k].index # 0
                     PROVE  files'[f][k].at = "disk"
        BY <3>4, SMTT(30) DEF SettledInv
      <4>2. CASE f # active
        BY <1>1, <3>4, <4>1, <4>2, SMTT(30) DEF AlwaysInv, RecoveryInv, SettledInv
      <4>3. CASE f = active
        <5>1. k \in 1..Count
          BY <1>2, <3>1, <3>5, <4>1, <4>3, SMTT(30)
        <5> QED
          BY <1>2, <3>5, <4>3, <5>1, SMTT(30) DEF Clean
      <4> QED
        BY <4>2, <4>3, SMTT(30)
    <3>7. OpenInv'
      <4>1. /\ DOMAIN files' = DOMAIN segments' /\ segments'[active'] = lastIndex'
            /\ Count' >= 0
            /\ \A f \in DOMAIN segments' : f <= active'
            /\ \A f \in DOMAIN segments' \ {active'} : segments'[f] = f + Len(files'[f]) - 1
        BY <1>2, <1>4, <1>5, <1>6, <2>1, <3>4, SMTT(30)
      <4>2. Len(files'[active']) = Count' + 1 /\ files'[active'][Count' + 1].index = 0
        BY <1>4, <1>6, <3>1, <3>5, SMTT(30)
      <4> QED
        BY <2>1, <4>1, <4>2, SMTT(30) DEF OpenInv
    <3> QED
      BY <1>0, <2>2, <3>3, <3>6, <3>7 DEF AlwaysInv, RecoveryInv, TypeInv
  <2> QED
    BY <1>8, <2>3, <2>4, SMTT(30) DEF WriteFails
<1> QED
  BY <1>7, <1>8

(* Append under always: the flush, then the acknowledgement. *)
LEMMA AlwaysSyncRecord ==
    ASSUME AlwaysInv, AlwaysFaults, SyncRecord
    PROVE  AlwaysInv'
<1> DEFINE n == lastIndex + 1
<1>0. TypeInv' /\ TypeOK
  BY TypePart, TypeAppend, SMTT(30) DEF TypeInv, AppendStep
<1>1. op.pc = "sync" /\ status = "open" /\ failed = "none"
  BY <1>0 DEF SyncRecord, AlwaysInv, RecoveryInv, TypeOK, OpenInv
<1>2. /\ active \in DOMAIN files /\ DOMAIN files = DOMAIN segments
      /\ IsLast(active) /\ stale = {} /\ DOMAIN files \subseteq linked
      /\ active \in Nat /\ lastIndex \in Nat /\ Count \in Nat /\ n \in Nat
  BY <1>1, OpenFacts, SMTT(30)
<1>3. /\ segments[active] = lastIndex /\ Len(files[active]) = Count + 1
      /\ InSequence(active, Count + 1) /\ files[active][Count + 1].cmd = op.cmd
      /\ \A f \in DOMAIN segments : f <= active
      /\ \A f \in DOMAIN segments \ {active} : segments[f] = f + Len(files[f]) - 1
  BY <1>1, SMTT(30) DEF AlwaysInv, RecoveryInv, OpenInv
<1>4. /\ files' = [files EXCEPT ![active] = Flushed(@)] /\ stale' = stale \ {active}
      /\ dirty' = FALSE /\ flushedTo' = n /\ failed' = failed
  BY DEF SyncRecord, sync, AlwaysFaults
<1>5. /\ lastIndex' = n /\ segments' = [segments EXCEPT ![active] = n]
      /\ acked' = With(acked, n, op.cmd) /\ op' = Idle /\ op'.pc = "idle"
      /\ linked' = linked /\ dirLinked' = dirLinked /\ status' = status /\ active' = active
  <2>1. failed' = "none"
    BY <1>1, <1>4
  <2>2. Acknowledge /\ linked' = linked /\ dirLinked' = dirLinked /\ status' = status
        /\ active' = active
    BY <2>1 DEF SyncRecord
  <2>3. Idle.pc = "idle"
    BY SMTT(30) DEF Idle
  <2> QED
    BY <2>2, <2>3 DEF Acknowledge
<1>6. /\ DOMAIN files' = DOMAIN files
      /\ \A f \in DOMAIN files :
           /\ Len(files'[f]) = Len(files[f])
           /\ \A k \in 1..Len(files[f]) :
                /\ files'[f][k].index = files[f][k].index
                /\ files'[f][k].cmd = files[f][k].cmd
                /\ files'[f][k].at = "disk"
      /\ CellsInv' /\ ChainInv'
  BY <1>0, <1>2, <1>4, FlushLast, Zenon DEF AlwaysInv, RecoveryInv
<1>7. Count' = Count + 1 /\ n - active + 1 = Count + 1 /\ Count + 1 \in 1..(Count + 1)
      /\ active + (Count + 1) - 1 = n
  BY <1>2, <1>5 DEF Count
<1>8. SettledInv' /\ LinkInv' /\ StaleInv' /\ DownInv'
  BY <1>1, <1>2, <1>4, <1>5, <1>6, SMTT(30) DEF AlwaysInv, RecoveryInv, SettledInv,
     LinkInv, StaleInv, DownInv
<1>9. /\ n - active + 1 \in 1..Len(files'[active]) /\ files'[active][n - active + 1].index = n
      /\ files'[active][n - active + 1].cmd = op.cmd /\ files'[active][n - active + 1].at = "disk"
  <2>1. Count + 1 \in 1..Len(files[active]) /\ Len(files'[active]) = Len(files[active])
    BY <1>2, <1>3, <1>6, <1>7, SMTT(30)
  <2>2. files'[active][Count + 1].index = n
    BY <1>2, <1>3, <1>6, <1>7, <2>1, SMTT(30) DEF InSequence
  <2>3. files'[active][Count + 1].cmd = op.cmd /\ files'[active][Count + 1].at = "disk"
    BY <1>2, <1>3, <1>6, <2>1, SMTT(30)
  <2> QED
    BY <1>7, <2>1, <2>2, <2>3, SMTT(30)
<1> HIDE DEF n
<1>10. AckedInv'
  <2>1. SUFFICES ASSUME NEW i \in DOMAIN acked'
                 PROVE  \E f \in DOMAIN files' :
                            /\ i - f + 1 \in 1..Len(files'[f])
                            /\ files'[f][i - f + 1].index = i
                            /\ files'[f][i - f + 1].cmd = acked'[i]
                            /\ files'[f][i - f + 1].at = "disk"
    BY SMTT(30) DEF AckedInv, DurableIn
  <2>2. DOMAIN acked' = DOMAIN acked \cup {n} /\ acked'[n] = op.cmd
        /\ \A j \in DOMAIN acked \ {n} : acked'[j] = acked[j]
    BY <1>5, SMTT(30) DEF With
  <2>3. CASE i = n
    BY <1>2, <1>4, <1>6, <1>9, <2>2, <2>3, SMTT(30)
  <2>4. CASE i # n
    <3>1. i \in DOMAIN acked /\ acked'[i] = acked[i] /\ i \in Nat
      BY <1>0, <2>1, <2>2, <2>4, SMTT(30) DEF TypeOK
    <3>2. PICK f \in DOMAIN files : DurableIn(f, i, acked[i])
      BY <3>1, SMTT(30) DEF AlwaysInv, RecoveryInv, AckedInv
    <3> QED
      BY <1>6, <3>1, <3>2, SMTT(30) DEF DurableIn
  <2> QED
    BY <2>3, <2>4, SMTT(30)
<1>11. OpenInv'
  <2>1. /\ DOMAIN segments' = DOMAIN segments /\ segments'[active] = n
        /\ \A f \in DOMAIN segments \ {active} : segments'[f] = segments[f]
    BY <1>0, <1>2, <1>5, SMTT(30) DEF TypeOK
  <2>2. \A k \in 1..Len(files[active]) : files[active][k].index = active + k - 1
    BY <1>2, <1>3, Zenon DEF AlwaysInv, RecoveryInv, CellsInv, InSequence
  <2>3. Clean(active)' /\ Len(files'[active']) = Count'
    BY <1>2, <1>3, <1>5, <1>6, <1>7, <2>2, ZenonT(30) DEF Clean, InSequence
  <2>4. /\ DOMAIN files' = DOMAIN segments' /\ segments'[active'] = lastIndex'
        /\ Count' >= 0 /\ Count' # 0
        /\ \A f \in DOMAIN segments' : f <= active'
        /\ \A f \in DOMAIN segments' \ {active'} : segments'[f] = f + Len(files'[f]) - 1
    <3>1. DOMAIN files' = DOMAIN segments' /\ segments'[active'] = lastIndex'
      BY <1>2, <1>5, <1>6, <2>1
    <3>2. Count' >= 0 /\ Count' # 0
      BY <1>2, <1>7, SMTT(30)
    <3>3. \A f \in DOMAIN segments' : f <= active'
      BY <1>3, <1>5, <2>1, SMTT(30)
    <3>4. \A f \in DOMAIN segments \ {active} : Len(files'[f]) = Len(files[f])
      BY <1>2, <1>6, ZenonT(30)
    <3>5. \A f \in DOMAIN segments' \ {active'} : segments'[f] = f + Len(files'[f]) - 1
      BY <1>3, <1>5, <2>1, <3>4, ZenonT(30)
    <3> QED
      BY <3>1, <3>2, <3>3, <3>5
  <2> QED
    BY <1>5, <2>3, <2>4, ZenonT(30) DEF OpenInv
<1> QED
  BY <1>0, <1>6, <1>8, <1>10, <1>11, ZenonT(30) DEF AlwaysInv, RecoveryInv, TypeInv
=============================================================================
