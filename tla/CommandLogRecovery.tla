------------------------- MODULE CommandLogRecovery -------------------------
(* What power loss leaves and OpenLog finds: the steps of OpenLog and       *)
(* PowerLoss preserve AlwaysInv under AlwaysFaults.                         *)
EXTENDS CommandLogProofs

(* The types of the cells of a file, as facts the steps below cite. *)
LEMMA FileFacts ==
    ASSUME TypeOK, NEW f \in DOMAIN files
    PROVE  /\ f \in Nat /\ f > 0 /\ files[f] \in Seq(Cell) /\ Len(files[f]) \in Nat
           /\ \A k \in 1..Len(files[f]) : files[f][k] \in Cell /\ files[f][k].index \in Nat
<1>1. f \in Nat /\ f > 0 /\ files[f] \in Seq(Cell)
  BY DEF TypeOK
<1>2. Len(files[f]) \in Nat /\ \A k \in 1..Len(files[f]) : files[f][k] \in Cell
  BY <1>1
<1>3. \A c \in Cell : c.index \in Nat
  BY DEF Cell
<1> QED
  BY <1>1, <1>2, <1>3

(* Appending a cell to the last segment, whose cells are clean, disturbs    *)
(* nothing: the new cell is the one that may be damaged or not on disk.     *)
LEMMA AppendLast ==
    ASSUME TypeOK, CellsInv, ChainInv, AckedInv,
           NEW a \in DOMAIN files, IsLast(a), Clean(a),
           NEW c \in Cell, c.at # "lost", c.index = a + Len(files[a]) \/ c.index = 0,
           files' = [files EXCEPT ![a] = Append(@, c)], UNCHANGED ghostVars
    PROVE  CellsInv' /\ ChainInv' /\ AckedInv'
<1>1. /\ DOMAIN files' = DOMAIN files
      /\ files'[a] = Append(files[a], c)
      /\ \A f \in DOMAIN files : f # a => files'[f] = files[f]
  BY DEF TypeOK
<1>2. /\ Len(files'[a]) = Len(files[a]) + 1
      /\ files'[a][Len(files[a]) + 1] = c
      /\ \A k \in 1..Len(files[a]) : files'[a][k] = files[a][k]
  BY <1>1, FileFacts, SMTT(30)
<1>3. CellsInv'
  <2>1. SUFFICES ASSUME NEW f \in DOMAIN files, NEW k \in 1..Len(files'[f])
                 PROVE  \/ files'[f][k].index = f + k - 1 /\ files'[f][k].at = "disk"
                        \/ /\ IsLast(f) /\ k = Len(files'[f])
                           /\ files'[f][k].at # "lost"
                           /\ files'[f][k].index = f + k - 1 \/ files'[f][k].index = 0
    BY <1>1 DEF CellsInv, IsLast, InSequence
  <2>2. CASE f # a
    BY <1>1, <2>1, <2>2 DEF CellsInv, InSequence
  <2>3. CASE f = a /\ k <= Len(files[a])
    BY <1>2, <2>1, <2>3, FileFacts DEF Clean, InSequence
  <2>4. CASE f = a /\ k = Len(files[a]) + 1
    BY <1>2, <2>1, <2>4, FileFacts
  <2> QED
    BY <1>2, <2>2, <2>3, <2>4, FileFacts, SMTT(30)
<1>4. ChainInv'
  BY <1>1, FileFacts DEF ChainInv, IsLast
<1>5. AckedInv'
  <2>1. SUFFICES ASSUME NEW i \in DOMAIN acked
                 PROVE  \E f \in DOMAIN files : DurableIn(f, i, acked[i])'
    BY <1>1 DEF AckedInv, ghostVars
  <2>2. PICK f \in DOMAIN files : DurableIn(f, i, acked[i])
    BY <2>1 DEF AckedInv
  <2>3. i - f + 1 \in 1..Len(files'[f]) /\ files'[f][i - f + 1] = files[f][i - f + 1]
    BY <1>1, <1>2, <2>2, FileFacts DEF DurableIn
  <2> QED
    BY <2>2, <2>3 DEF DurableIn, ghostVars
<1> QED
  BY <1>3, <1>4, <1>5

(* Flushing the last segment disturbs nothing, and its cells that are in    *)
(* sequence end up on disk.                                                 *)
LEMMA FlushLast ==
    ASSUME TypeOK, CellsInv, ChainInv, AckedInv,
           NEW a \in DOMAIN files, IsLast(a),
           files' = [files EXCEPT ![a] = Flushed(@)]
    PROVE  /\ DOMAIN files' = DOMAIN files
           /\ \A f \in DOMAIN files :
                /\ Len(files'[f]) = Len(files[f])
                /\ \A k \in 1..Len(files[f]) :
                     /\ files'[f][k].index = files[f][k].index
                     /\ files'[f][k].cmd = files[f][k].cmd
                     /\ files'[f][k].at = "disk"
           /\ CellsInv' /\ ChainInv'
<1>1. /\ DOMAIN files' = DOMAIN files
      /\ files'[a] = Flushed(files[a])
      /\ \A f \in DOMAIN files : f # a => files'[f] = files[f]
  BY DEF TypeOK
<1>2. \A f \in DOMAIN files :
                /\ Len(files'[f]) = Len(files[f])
                /\ \A k \in 1..Len(files[f]) :
                     /\ files'[f][k].index = files[f][k].index
                     /\ files'[f][k].cmd = files[f][k].cmd
                     /\ files'[f][k].at = "disk"
  <2>1. SUFFICES ASSUME NEW f \in DOMAIN files
                 PROVE  /\ Len(files'[f]) = Len(files[f])
                        /\ \A k \in 1..Len(files[f]) :
                             /\ files'[f][k].index = files[f][k].index
                             /\ files'[f][k].cmd = files[f][k].cmd
                             /\ files'[f][k].at = "disk"
    OBVIOUS
  <2>2. CASE f = a
    <3>1. \A k \in 1..Len(files[a]) : files[a][k].at # "lost" /\ files[a][k].at \in {"disk", "dirty", "lost"}
      BY FileFacts, SMTT(30) DEF CellsInv, Cell
    <3> QED
      BY <1>1, <2>2, <3>1, FileFacts, FlushedCells
  <2>3. CASE f # a
    BY <1>1, <2>3, FileFacts DEF CellsInv, IsLast
  <2> QED
    BY <2>2, <2>3
<1>3. CellsInv'
  BY <1>1, <1>2, FileFacts DEF CellsInv, IsLast, InSequence
<1>4. ChainInv'
  BY <1>1, <1>2 DEF ChainInv
<1> QED
  BY <1>1, <1>2, <1>3, <1>4

(* Power loss, file by file: an earlier segment is left alone; of the last, *)
(* the cells on disk are left alone and at most the final one is damaged.   *)
LEMMA PowerLossCells ==
    ASSUME AlwaysInv, PowerLoss
    PROVE  /\ DOMAIN files' \subseteq DOMAIN files
           /\ \A f \in DOMAIN files \ DOMAIN files' : f \notin linked
           /\ \A f \in DOMAIN files' :
                /\ ~IsLast(f) => files'[f] = files[f]
                /\ \A k \in 1..Len(files'[f]) :
                     /\ files'[f][k].at = "disk"
                     /\ \/ files'[f][k].index = f + k - 1
                        \/ IsLast(f) /\ k = Len(files'[f]) /\ files'[f][k].index = 0
                /\ \A k \in 1..Len(files[f]) : files[f][k].at = "disk" =>
                     k \in 1..Len(files'[f]) /\ files'[f][k] = files[f][k]
<1> DEFINE exposed == {f \in DOMAIN files : ~OnDisk(f)}
<1>1. PICK gone \in SUBSET (DOMAIN files \ linked), uncut \in SUBSET stale,
           after \in [exposed -> UNION {Survivors(files[f]) : f \in exposed}] :
        /\ \A f \in exposed : after[f] \in Survivors(files[f])
        /\ files' = [f \in DOMAIN files \ gone |->
              IF f \in uncut
              THEN Append(IF f \in exposed THEN after[f] ELSE files[f], Damaged("disk"))
              ELSE IF f \in exposed THEN after[f] ELSE files[f]]
  BY Zenon DEF PowerLoss
<1> HIDE DEF exposed
<1>2. DOMAIN files' = DOMAIN files \ gone
  BY <1>1
<1>3. SUFFICES ASSUME NEW f \in DOMAIN files'
      PROVE     /\ ~IsLast(f) => files'[f] = files[f]
                /\ \A k \in 1..Len(files'[f]) :
                     /\ files'[f][k].at = "disk"
                     /\ \/ files'[f][k].index = f + k - 1
                        \/ IsLast(f) /\ k = Len(files'[f]) /\ files'[f][k].index = 0
                /\ \A k \in 1..Len(files[f]) : files[f][k].at = "disk" =>
                     k \in 1..Len(files'[f]) /\ files'[f][k] = files[f][k]
  BY <1>1, <1>2
<1>4. f \in DOMAIN files /\ f \notin gone /\ TypeOK
  BY <1>2, <1>3 DEF AlwaysInv, RecoveryInv
<1>5. DOMAIN files[f] = 1..Len(files[f])
  BY <1>4, FileFacts
<1>6. CASE f \notin exposed /\ f \notin uncut
  <2>1. files'[f] = files[f] /\ OnDisk(f)
    BY <1>1, <1>4, <1>6 DEF exposed
  <2> QED
    BY <1>4, <1>5, <2>1, Zenon DEF AlwaysInv, RecoveryInv, CellsInv, InSequence, OnDisk
<1>7. CASE f \in uncut
  <2>1. status = "truncating" /\ IsLast(f) /\ Clean(f)
    BY <1>1, <1>4, <1>7 DEF AlwaysInv, RecoveryInv, StaleInv, DownInv
  <2>2. f \notin exposed
    BY <1>5, <2>1 DEF Clean, OnDisk, exposed
  <2>3. files'[f] = Append(files[f], Damaged("disk"))
    BY <1>1, <1>4, <1>7, <2>2
  <2>4. /\ Len(files'[f]) = Len(files[f]) + 1
        /\ files'[f][Len(files[f]) + 1] = Damaged("disk")
        /\ \A k \in 1..Len(files[f]) : files'[f][k] = files[f][k]
    BY <1>4, <2>3, FileFacts, DamagedType
  <2>5. Damaged("disk").at = "disk" /\ Damaged("disk").index = 0
    BY DEF Damaged
  <2>6. Len(files[f]) \in Nat
    BY <1>4, FileFacts
  <2>7. \A k \in 1..Len(files'[f]) : k \in 1..Len(files[f]) \/ k = Len(files'[f])
    BY <2>4, <2>6
  <2>8. \A k \in 1..Len(files[f]) : k \in 1..Len(files'[f])
    BY <2>4, <2>6
  <2>9. \A k \in 1..Len(files[f]) : files[f][k].at = "disk" /\ files[f][k].index = f + k - 1
    BY <2>1 DEF Clean, InSequence
  <2> HIDE DEF Damaged
  <2> QED
    BY <2>1, <2>4, <2>5, <2>7, <2>8, <2>9, SMTT(30)
<1>8. CASE f \in exposed /\ f \notin uncut
  <2>1. files'[f] = after[f] /\ after[f] \in Survivors(files[f]) /\ ~OnDisk(f)
    BY <1>1, <1>4, <1>8 DEF exposed
  <2>2. IsLast(f) /\ \A k \in 1..Len(files[f]) : k < Len(files[f]) =>
                         files[f][k].at = "disk" /\ files[f][k].index = f + k - 1
    BY <1>4, <1>5, <2>1, FileFacts DEF AlwaysInv, RecoveryInv, CellsInv, InSequence, OnDisk
  <2>3. \A k \in 1..Len(files[f]) : files[f][k].index = f + k - 1 \/ files[f][k].index = 0
    BY <1>4 DEF AlwaysInv, RecoveryInv, CellsInv, InSequence
  <2>4. /\ files'[f] \in Seq(Cell) /\ Len(files'[f]) <= Len(files[f])
        /\ \A k \in 1..Len(files'[f]) :
             /\ files'[f][k].at = "disk"
             /\ \/ files'[f][k].index = 0 /\ files[f][k].at # "disk"
                \/ files'[f][k].index = files[f][k].index
        /\ \A k \in 1..Len(files[f]) : files[f][k].at = "disk" =>
             k <= Len(files'[f]) /\ files'[f][k] = files[f][k]
    BY <1>4, <2>1, SurvivorCells, FileFacts
  <2>5. Len(files'[f]) \in Nat /\ Len(files[f]) \in Nat
    BY <1>4, <2>4, FileFacts
  <2> QED
    BY <2>2, <2>3, <2>4, <2>5, SMTT(30)
<1> QED
  BY <1>6, <1>7, <1>8

(* Recovery: every segment but the last verifies, and the last is whole or  *)
(* its final cell alone is damaged.                                         *)
LEMMA Recoverable ==
    ASSUME AlwaysInv, DOMAIN files # {}
    PROVE  /\ LastFile \in DOMAIN files /\ IsLast(LastFile)
           /\ EarlierAllVerified
           /\ Whole(LastFile) \/ TornTail(LastFile)
           /\ \A f \in DOMAIN files : f # LastFile => ValidCells(f) = Len(files[f])
           /\ ~Whole(LastFile) => ValidCells(LastFile) = Len(files[LastFile]) - 1
<1>1. TypeOK /\ LastFile \in DOMAIN files /\ IsLast(LastFile)
  BY LastFileIsLast DEF AlwaysInv, RecoveryInv
<1>2. ASSUME NEW f \in DOMAIN files, ValidCells(f) # Len(files[f])
      PROVE  f = LastFile /\ ValidCells(f) = Len(files[f]) - 1 /\ files[f][Len(files[f])].index = 0
  <2>1. ValidCells(f) + 1 \in 1..Len(files[f]) /\ ~InSequence(f, ValidCells(f) + 1)
    BY <1>1, <1>2, ValidCellsStops, FileFacts
  <2>2. IsLast(f) /\ ValidCells(f) + 1 = Len(files[f]) /\ files[f][ValidCells(f) + 1].index = 0
    BY <2>1 DEF AlwaysInv, RecoveryInv, CellsInv
  <2>3. f = LastFile
    BY <1>1, <2>2, FileFacts DEF IsLast
  <2>4. ValidCells(f) \in Int
    BY <1>1, ValidCellsStops, FileFacts
  <2> QED
    BY <2>2, <2>3, <2>4
<1>3. ASSUME NEW f \in DOMAIN files \ {LastFile} PROVE EarlierVerified(f)
  <2>1. f < LastFile /\ ValidCells(f) = Len(files[f])
    BY <1>1, <1>2, <1>3, FileFacts DEF IsLast
  <2>2. Len(files[f]) > 0 /\ f + Len(files[f]) \in DOMAIN files
    BY <1>1, <2>1 DEF AlwaysInv, RecoveryInv, ChainInv
  <2>3. \A h \in DOMAIN files : h <= f \/ f + Len(files[f]) <= h
    BY <1>1, FileFacts DEF AlwaysInv, RecoveryInv, ChainInv
  <2>4. f + Len(files[f]) > f
    BY <1>1, <2>2, FileFacts
  <2> QED
    BY <2>1, <2>2, <2>3, <2>4 DEF EarlierVerified
<1>4. ASSUME ~Whole(LastFile) PROVE TornTail(LastFile)
  <2>1. ValidCells(LastFile) = Len(files[LastFile]) - 1 /\ files[LastFile][Len(files[LastFile])].index = 0
    BY <1>1, <1>2, <1>4 DEF Whole
  <2>2. Len(files[LastFile]) \in Nat
    BY <1>1, FileFacts
  <2>3. ~hasLaterRecord(LastFile)
    BY <2>1, <2>2 DEF hasLaterRecord
  <2>4. files[LastFile][ValidCells(LastFile) + 1].index = 0
    BY <2>1, <2>2
  <2> QED
    BY <1>4, <2>3, <2>4 DEF TornTail
<1> QED
  BY <1>1, <1>2, <1>3, <1>4 DEF EarlierAllVerified, Whole

-----------------------------------------------------------------------------
(* AlwaysInv is preserved *)

LEMMA TypePart == ASSUME AlwaysInv PROVE TypeInv
  BY DEF AlwaysInv, RecoveryInv, TypeInv

(* Steps that leave the files alone keep what is said of files only. *)
LEMMA SameFiles ==
    ASSUME AlwaysInv, UNCHANGED files, UNCHANGED ghostVars
    PROVE  CellsInv' /\ ChainInv' /\ AckedInv'
  BY DEF AlwaysInv, RecoveryInv, CellsInv, ChainInv, AckedInv, DurableIn, IsLast,
     InSequence, ghostVars

(* What recover leaves in memory agrees with files that are clean. *)
LEMMA LoadedOpen ==
    ASSUME AlwaysInv, Loaded, status \in {"down", "firstSegment", "truncating"},
           DOMAIN files # {}, DOMAIN files' = DOMAIN files, dirLinked' = dirLinked,
           \A f \in DOMAIN files : /\ Len(files'[f]) = Len(files[f])
                                   /\ ValidCells(f) = Len(files[f])
                                   /\ Clean(f)'
    PROVE  OpenInv' /\ DownInv' /\ SettledInv'
<1>1. /\ TypeOK /\ LastFile \in DOMAIN files /\ IsLast(LastFile)
      /\ dirty = FALSE /\ failed = "none" /\ closed = FALSE /\ op = Idle /\ dirLinked
  BY Recoverable, Zenon DEF AlwaysInv, RecoveryInv, DownInv
<1>2. /\ status' = "open" /\ dirty' = FALSE /\ failed' = "none" /\ op' = Idle /\ dirLinked'
      /\ DOMAIN segments' = DOMAIN files /\ active' = LastFile
      /\ \A f \in DOMAIN files : segments'[f] = f + Len(files'[f]) - 1
      /\ lastIndex' = LastFile + Len(files'[LastFile]) - 1
      /\ activeSize' = ValidSize(LastFile)
  BY <1>1 DEF Loaded, flagVars
<1>3. LastFile \in Nat /\ Len(files'[LastFile]) \in Nat
  BY <1>1, FileFacts
<1>4. Count' = Len(files'[LastFile])
  BY <1>2, <1>3 DEF Count
<1>5. Count' = 0 => activeSize' = 0
  BY <1>1, <1>2, <1>4, Zenon DEF ValidSize
<1>6. op'.pc = "idle"
  BY <1>2 DEF Idle
<1>7. OpenInv'
  BY <1>1, <1>2, <1>3, <1>4, <1>5, <1>6 DEF OpenInv, IsLast
<1>8. DownInv'
  BY <1>2, <1>6 DEF DownInv
<1>9. SettledInv'
  BY DEF SettledInv, Clean
<1> QED
  BY <1>7, <1>8, <1>9, SMTT(30)

LEMMA AlwaysOpenLog ==
    ASSUME AlwaysInv, AlwaysFaults, OpenLog
    PROVE  AlwaysInv'
<1>0. TypeInv' /\ TypeOK
  BY TypePart, TypeOpenLog DEF TypeInv
<1> SUFFICES CellsInv' /\ SettledInv' /\ ChainInv' /\ LinkInv' /\ StaleInv'
             /\ AckedInv' /\ DownInv' /\ OpenInv'
  BY <1>0 DEF AlwaysInv, RecoveryInv, TypeInv
<1>1. CASE StartFirstSegment
  <2>1. /\ DOMAIN files' = {1} /\ files'[1] = << >> /\ Len(files'[1]) = 0
        /\ status' = "firstSegment" /\ stale' = stale /\ linked' = linked /\ dirLinked' = dirLinked
        /\ dirty' = dirty /\ failed' = failed /\ closed' = closed /\ op' = op
        /\ acked' = acked /\ flushedTo' = flushedTo
    BY <1>1 DEF StartFirstSegment, With, flagVars, ghostVars
  <2>2. DOMAIN files = {} /\ status = "down"
    BY <1>1 DEF StartFirstSegment
  <2>3. DOMAIN acked = {} /\ stale = {}
    BY <2>2, Zenon DEF AlwaysInv, RecoveryInv, AckedInv, StaleInv
  <2>4. CellsInv' /\ SettledInv' /\ ChainInv' /\ AckedInv' /\ StaleInv'
    BY <2>1, <2>3 DEF CellsInv, SettledInv, ChainInv, AckedInv, StaleInv
  <2>5. LinkInv'
    BY <2>1 DEF LinkInv, IsLast
  <2>6. DownInv' /\ OpenInv'
    BY <2>1, <2>2 DEF AlwaysInv, RecoveryInv, DownInv, OpenInv
  <2> QED
    BY <2>4, <2>5, <2>6, SMTT(30)
<1>2. CASE FirstSegmentSynced
  <2>1. DOMAIN files = {1} /\ files[1] = << >> /\ Len(files[1]) = 0
    BY <1>2 DEF FirstSegmentSynced, AlwaysInv, RecoveryInv, DownInv
  <2>2. ValidCells(1) = 0
    BY <1>0, <2>1, ValidCellsStops
  <2>3. UNCHANGED files /\ UNCHANGED ghostVars /\ Loaded /\ linked' = DOMAIN files /\ stale' = stale
        /\ dirLinked' = dirLinked
    BY <1>2 DEF FirstSegmentSynced, Loaded
  <2>4. OpenInv' /\ DownInv' /\ SettledInv'
    BY <1>2, <2>1, <2>2, <2>3, LoadedOpen, SMTT(30) DEF FirstSegmentSynced, Clean
  <2>5. CellsInv' /\ ChainInv' /\ AckedInv'
    BY <2>3, SameFiles
  <2>6. LinkInv' /\ StaleInv'
    BY <1>2, <2>3 DEF LinkInv, StaleInv, AlwaysInv, RecoveryInv, FirstSegmentSynced
  <2> QED
    BY <2>4, <2>5, <2>6
<1>3. CASE FirstSegmentFails \/ TruncateSyncFails
  BY <1>3, SMTT(30) DEF AlwaysFaults, FirstSegmentFails, TruncateSyncFails
<1>4. CASE OpenClean
  <2>1. /\ UNCHANGED files /\ UNCHANGED ghostVars /\ Loaded /\ linked' = linked /\ stale' = stale
        /\ dirLinked' = dirLinked /\ status = "down" /\ DOMAIN files # {} /\ Whole(LastFile)
    BY <1>4 DEF OpenClean, Loaded, diskVars
  <2>2. \A f \in DOMAIN files : ValidCells(f) = Len(files[f])
    BY <2>1, Recoverable DEF Whole
  <2>3. op.pc # "sync"
    BY <2>1 DEF AlwaysInv, RecoveryInv, DownInv, Idle
  <2>4. ASSUME NEW f \in DOMAIN files PROVE Clean(f)
    <3>1. \A k \in 1..Len(files[f]) : InSequence(f, k)
      BY <1>0, <2>2, <2>4, ValidCellsStops, SMTT(30)
    <3>2. \A k \in 1..Len(files[f]) : files[f][k].index # 0
      BY <1>0, <2>4, <3>1, FileFacts, SMTT(30) DEF InSequence
    <3> QED
      BY <2>3, <2>4, <3>1, <3>2, SMTT(30) DEF AlwaysInv, RecoveryInv, SettledInv, Clean
  <2>5. \A f \in DOMAIN files : Clean(f)'
    BY <2>1, <2>4 DEF Clean, InSequence
  <2>6. OpenInv' /\ DownInv' /\ SettledInv'
    BY <2>1, <2>2, <2>5, LoadedOpen
  <2>7. CellsInv' /\ ChainInv' /\ AckedInv'
    BY <2>1, SameFiles, SMTT(30)
  <2>8. LinkInv' /\ StaleInv'
    BY <2>1, <2>3 DEF LinkInv, StaleInv, AlwaysInv, RecoveryInv, DownInv, Idle
  <2> QED
    BY <2>6, <2>7, <2>8
<1>5. CASE OpenTruncate
  <2> DEFINE L == LastFile
             n == Len(files[L]) - 1
  <2>1. /\ L \in DOMAIN files /\ IsLast(L) /\ ValidCells(L) = n /\ n \in Nat
        /\ \A f \in DOMAIN files : f # L => ValidCells(f) = Len(files[f])
        /\ Len(files[L]) = n + 1
    <3>1. DOMAIN files # {} /\ ~Whole(L)
      BY <1>5 DEF OpenTruncate, TornTail
    <3> QED
      BY <1>0, <3>1, Recoverable, ValidCellsStops, FileFacts, SMTT(30)
  <2>2. /\ files' = [files EXCEPT ![L] = SubSeq(files[L], 1, n)]
        /\ stale' = stale \cup {L} /\ status' = "truncating" /\ status = "down"
        /\ linked' = linked /\ dirLinked' = dirLinked /\ op' = op /\ acked' = acked
        /\ flushedTo' = flushedTo /\ dirty' = dirty /\ failed' = failed /\ closed' = closed
    BY <1>5, <2>1 DEF OpenTruncate, ghostVars, flagVars
  <2> HIDE DEF L, n
  <2>3. /\ DOMAIN files' = DOMAIN files
        /\ \A f \in DOMAIN files : f # L => files'[f] = files[f]
        /\ files'[L] = SubSeq(files[L], 1, n)
    BY <1>0, <2>1, <2>2, SMTT(30) DEF TypeOK
  <2>4. Len(files'[L]) = n /\ \A k \in 1..n : files'[L][k] = files[L][k]
    BY <1>0, <2>1, <2>3, FileFacts, SMTT(30)
  <2>5. op = Idle /\ op.pc = "idle" /\ stale = {} /\ DOMAIN files \subseteq linked
    BY <2>2, SMTT(30) DEF AlwaysInv, RecoveryInv, DownInv, StaleInv, LinkInv, Idle
  <2>6. ASSUME NEW f \in DOMAIN files PROVE Clean(f)'
    <3>1. \A k \in 1..Len(files'[f]) : files'[f][k] = files[f][k] /\ k \in 1..ValidCells(f) /\ k \in 1..Len(files[f])
      BY <1>0, <2>1, <2>3, <2>4, <2>6, FileFacts, SMTT(30)
    <3>2. \A k \in 1..Len(files'[f]) : InSequence(f, k)
      BY <1>0, <2>6, <3>1, ValidCellsStops, SMTT(30)
    <3>3. \A k \in 1..Len(files'[f]) : files[f][k].index # 0
      BY <1>0, <2>6, <3>1, <3>2, FileFacts, SMTT(30) DEF InSequence
    <3> QED
      BY <2>5, <2>6, <3>1, <3>2, <3>3, SMTT(30) DEF AlwaysInv, RecoveryInv, SettledInv,
         Clean, InSequence
  <2>7. CellsInv' /\ SettledInv'
    BY <2>3, <2>6 DEF Clean, CellsInv, SettledInv
  <2>8. ChainInv'
    <3>1. ASSUME NEW f \in DOMAIN files, NEW g \in DOMAIN files, f < g PROVE f # L
      BY <1>0, <2>1, <3>1, FileFacts, SMTT(30) DEF IsLast
    <3> QED
      BY <2>3, <3>1 DEF AlwaysInv, RecoveryInv, ChainInv
  <2>9. AckedInv'
    <3>1. SUFFICES ASSUME NEW i \in DOMAIN acked
                   PROVE  \E f \in DOMAIN files : DurableIn(f, i, acked[i])'
      BY <2>2, <2>3 DEF AlwaysInv, RecoveryInv, AckedInv
    <3>2. PICK f \in DOMAIN files : DurableIn(f, i, acked[i])
      BY <3>1 DEF AlwaysInv, RecoveryInv, AckedInv
    <3>3. f = L => i - f + 1 # n + 1
      <4>1. SUFFICES ASSUME f = L, i - f + 1 = n + 1 PROVE FALSE
        OBVIOUS
      <4>2. ~InSequence(L, n + 1)
        BY <1>0, <2>1, ValidCellsStops, SMTT(30)
      <4>3. i \in Nat /\ f \in Nat
        BY <1>0, <3>2, FileFacts, SMTT(30) DEF TypeOK
      <4> QED
        BY <3>2, <4>1, <4>2, <4>3, <2>1 DEF DurableIn, InSequence
    <3>4. i - f + 1 \in 1..Len(files'[f]) /\ files'[f][i - f + 1] = files[f][i - f + 1]
      BY <1>0, <2>1, <2>3, <2>4, <3>2, <3>3, FileFacts, SMTT(30) DEF DurableIn
    <3> QED
      BY <2>2, <3>2, <3>4, Zenon DEF DurableIn
  <2>10. LinkInv' /\ StaleInv'
    BY <2>1, <2>2, <2>3, <2>5, SMTT(30) DEF LinkInv, StaleInv, IsLast
  <2>11. DownInv' /\ OpenInv'
    BY <2>2, <2>3, <2>5, <2>6, SMTT(30) DEF AlwaysInv, RecoveryInv, DownInv, OpenInv
  <2> QED
    BY <2>7, <2>8, <2>9, <2>10, <2>11, SMTT(30)
<1>6. CASE TruncateSynced
  <2>1. /\ status = "truncating" /\ DOMAIN files # {} /\ Loaded /\ UNCHANGED ghostVars
        /\ files' = [files EXCEPT ![LastFile] = Flushed(@)] /\ stale' = stale \ {LastFile}
        /\ linked' = linked /\ dirLinked' = dirLinked
    BY <1>6 DEF TruncateSynced, Loaded, AlwaysInv, RecoveryInv, Opening
  <2>2. LastFile \in DOMAIN files /\ IsLast(LastFile) /\ op.pc = "idle"
    <3>1. LastFile \in DOMAIN files /\ IsLast(LastFile)
      BY <2>1, Recoverable
    <3>2. op = Idle
      BY <2>1 DEF AlwaysInv, RecoveryInv, DownInv
    <3> QED
      BY <3>1, <3>2 DEF Idle
  <2>3. /\ DOMAIN files' = DOMAIN files
        /\ \A f \in DOMAIN files :
                /\ Len(files'[f]) = Len(files[f])
                /\ \A k \in 1..Len(files[f]) :
                     /\ files'[f][k].index = files[f][k].index
                     /\ files'[f][k].cmd = files[f][k].cmd
                     /\ files'[f][k].at = "disk"
        /\ CellsInv' /\ ChainInv'
    BY <1>0, <2>1, <2>2, FlushLast, Zenon DEF AlwaysInv, RecoveryInv
  <2>4. ASSUME NEW f \in DOMAIN files PROVE ValidCells(f) = Len(files[f]) /\ Clean(f)'
    <3>1. Clean(f)
      BY <2>1, <2>4 DEF AlwaysInv, RecoveryInv, DownInv
    <3>2. ValidCells(f) = Len(files[f])
      BY <1>0, <2>4, <3>1, ValidCellsStops, FileFacts, SMTT(30) DEF Clean
    <3> QED
      BY <2>3, <2>4, <3>1, <3>2 DEF Clean, InSequence
  <2>5. OpenInv' /\ DownInv' /\ SettledInv'
    BY <2>1, <2>3, <2>4, LoadedOpen, SMTT(30)
  <2>6. AckedInv'
    BY <2>1, <2>3, SMTT(30) DEF AlwaysInv, RecoveryInv, AckedInv, DurableIn, ghostVars
  <2>7. LinkInv' /\ StaleInv'
    <3>1. DOMAIN files \subseteq linked
      BY <2>1, <2>2, SMTT(30) DEF AlwaysInv, RecoveryInv, LinkInv
    <3>2. \A f \in stale : f \in DOMAIN files /\ IsLast(f)
      BY <1>0 DEF AlwaysInv, RecoveryInv, StaleInv, TypeOK
    <3>3. \A f \in stale : f = LastFile
      BY <1>0, <2>2, <3>2, FileFacts, SMTT(30) DEF IsLast
    <3> QED
      BY <2>1, <2>3, <3>1, <3>3 DEF LinkInv, StaleInv
  <2> QED
    BY <2>3, <2>5, <2>6, <2>7, SMTT(30)
<1>7. CASE OpenRefused
  BY <1>7, Recoverable DEF OpenRefused
<1> QED
  BY <1>1, <1>2, <1>3, <1>4, <1>5, <1>6, <1>7, SMTT(30) DEF OpenLog

LEMMA AlwaysPowerLoss ==
    ASSUME AlwaysInv, AlwaysFaults, PowerLoss
    PROVE  AlwaysInv'
<1>0. TypeInv' /\ TypeOK
  BY TypePart, TypeRest, SMTT(30) DEF TypeInv, Crash
<1>1. /\ DOMAIN files' \subseteq DOMAIN files
      /\ \A f \in DOMAIN files \ DOMAIN files' : files[f] = << >> /\ IsLast(f) /\ Len(files[f]) = 0
  BY PowerLossCells, SMTT(30) DEF AlwaysInv, RecoveryInv, LinkInv
<1>2. \A f \in DOMAIN files' :
        /\ ~IsLast(f) => files'[f] = files[f]
        /\ \A k \in 1..Len(files'[f]) :
             /\ files'[f][k].at = "disk"
             /\ \/ files'[f][k].index = f + k - 1
                \/ IsLast(f) /\ k = Len(files'[f]) /\ files'[f][k].index = 0
        /\ \A k \in 1..Len(files[f]) : files[f][k].at = "disk" =>
             k \in 1..Len(files'[f]) /\ files'[f][k] = files[f][k]
  BY PowerLossCells
<1>3. /\ linked' = DOMAIN files' /\ stale' = {} /\ dirLinked' /\ flushedTo' = flushedTo
      /\ acked' = [i \in DOMAIN acked |-> acked[i]]
      /\ status' = "down" /\ dirty' = FALSE /\ failed' = "none" /\ closed' = FALSE /\ op' = Idle
  BY ZenonT(30) DEF PowerLoss, ProcessGone, Promised, AlwaysFaults
<1>4. CellsInv' /\ SettledInv'
  <2>1. \A f \in DOMAIN files' : IsLast(f) => IsLast(f)'
    BY <1>1 DEF IsLast
  <2> QED
    BY <1>2, <2>1 DEF CellsInv, SettledInv, InSequence
<1>5. ChainInv'
  <2>1. SUFFICES ASSUME NEW f \in DOMAIN files', NEW g \in DOMAIN files', f < g
                 PROVE  /\ Len(files'[f]) > 0
                        /\ f + Len(files'[f]) \in DOMAIN files'
                        /\ f + Len(files'[f]) <= g
    BY DEF ChainInv
  <2>2. f \in Nat /\ g \in Nat /\ f \in DOMAIN files /\ g \in DOMAIN files
    BY <1>0, <1>1, <2>1, FileFacts
  <2>3. files'[f] = files[f]
    BY <1>2, <2>1, <2>2 DEF IsLast
  <2>4. Len(files[f]) > 0 /\ f + Len(files[f]) \in DOMAIN files /\ f + Len(files[f]) <= g
    BY <2>1, <2>2 DEF AlwaysInv, RecoveryInv, ChainInv
  <2>5. f + Len(files[f]) \in Nat
    BY <1>0, <2>4, FileFacts
  <2>6. IsLast(f + Len(files[f])) => f + Len(files[f]) = g
    BY <2>2, <2>4, <2>5 DEF IsLast
  <2>7. f + Len(files[f]) \in DOMAIN files'
    BY <1>1, <2>1, <2>4, <2>6, SMTT(30)
  <2> QED
    BY <2>3, <2>4, <2>7
<1>6. AckedInv'
  <2>1. SUFFICES ASSUME NEW i \in DOMAIN acked'
                 PROVE  \E f \in DOMAIN files' : DurableIn(f, i, acked[i])'
    BY <1>3 DEF AckedInv, DurableIn
  <2>2. i \in DOMAIN acked
    BY <1>3, <2>1
  <2>3. PICK f \in DOMAIN files : DurableIn(f, i, acked[i])
    BY <2>2 DEF AlwaysInv, RecoveryInv, AckedInv
  <2>4. f \in DOMAIN files'
    BY <1>1, <2>3 DEF DurableIn
  <2>5. acked'[i] = acked[i]
    BY <1>3, <2>2
  <2> QED
    BY <1>2, <1>3, <2>2, <2>3, <2>4, <2>5, SMTT(30) DEF DurableIn
<1>7. LinkInv' /\ StaleInv'
  BY <1>3, SMTT(30) DEF LinkInv, StaleInv
<1>8. DownInv' /\ OpenInv'
  BY <1>3 DEF DownInv, OpenInv, Idle
<1> QED
  BY <1>0, <1>4, <1>5, <1>6, <1>7, <1>8, SMTT(30) DEF AlwaysInv, RecoveryInv, TypeInv

(* The open log between creating a segment and fsyncing its directory. *)
LEMMA OpenFacts ==
    ASSUME AlwaysInv, status = "open", op.pc # "syncDir"
    PROVE  /\ TypeOK /\ active \in DOMAIN files /\ DOMAIN files = DOMAIN segments
           /\ IsLast(active) /\ stale = {} /\ DOMAIN files \subseteq linked
           /\ active \in Nat /\ lastIndex \in Nat /\ Count \in Nat
           /\ op.pc # "sync" /\ failed = "none" => Clean(active) /\ Len(files[active]) = Count
<1>1. TypeOK /\ active \in DOMAIN files /\ DOMAIN files = DOMAIN segments /\ active \in Nat
      /\ lastIndex \in Nat
  BY SMTT(30) DEF AlwaysInv, RecoveryInv, TypeOK, OpenInv
<1>2. IsLast(active) /\ Count >= 0
      /\ (op.pc # "sync" /\ failed = "none" => Clean(active) /\ Len(files[active]) = Count)
  BY <1>1, SMTT(30) DEF AlwaysInv, RecoveryInv, OpenInv, IsLast
<1>3. stale = {} /\ DOMAIN files \subseteq linked
  BY DEF AlwaysInv, RecoveryInv, StaleInv, LinkInv
<1>4. Count \in Nat
  BY <1>1, <1>2, SMTT(30) DEF Count
<1> QED
  BY <1>1, <1>2, <1>3, <1>4, SMTT(30)
=============================================================================
