--------------------------- MODULE CommandLogProofs ---------------------------
(* Theorems about CommandLog, for every value of its constants: the types,  *)
(* for every policy and every set of faults, and the durability of the      *)
(* always policy under AlwaysFaults.                                        *)
EXTENDS CommandLogInv, SequenceTheorems, WellFoundedInduction, TLAPS

(* A nonempty bounded set of naturals has a greatest element. *)
LEMMA MaxExists ==
    ASSUME NEW S \in SUBSET Nat, S # {}, NEW b \in Nat, \A x \in S : x <= b
    PROVE  \E m \in S : \A x \in S : x <= m
<1> DEFINE T == {n \in Nat : \A x \in S : x <= n}
<1>1. T \subseteq Nat /\ b \in T
  OBVIOUS
<1>2. PICK m \in T : \A y \in T : ~(<<y, m>> \in OpToRel(<, Nat))
  <2>1. T # {}
    BY <1>1
  <2> QED
    BY <1>1, <2>1, NatLessThanWellFounded, WFMin, Zenon
<1>3. \A y \in T : ~(y < m)
  BY <1>1, <1>2, Zenon DEF OpToRel
<1>4. m \in S
  <2>1. SUFFICES ASSUME m \notin S PROVE FALSE
    OBVIOUS
  <2>2. PICK x \in S : TRUE
    BY Zenon
  <2>3. m > 0 /\ m - 1 \in Nat
    BY <1>1, <2>1, <2>2
  <2>4. m - 1 \in T
    BY <1>1, <2>1, <2>3
  <2> QED
    BY <1>3, <2>3, <2>4
<1> QED
  BY <1>4

(* A nonempty set of naturals has a least element. *)
LEMMA MinExists ==
    ASSUME NEW S \in SUBSET Nat, S # {}
    PROVE  \E m \in S : \A x \in S : m <= x
<1>1. PICK m \in S : \A y \in S : ~(<<y, m>> \in OpToRel(<, Nat))
  BY NatLessThanWellFounded, WFMin, Zenon
<1>2. \A y \in S : ~(y < m)
  BY <1>1, Zenon DEF OpToRel
<1> QED
  BY <1>2

(* The CHOOSE in LastFile finds the last segment. *)
LEMMA LastFileIsLast ==
    ASSUME TypeOK, Bounded, DOMAIN files # {}
    PROVE  LastFile \in DOMAIN files /\ IsLast(LastFile)
<1>1. DOMAIN files \in SUBSET Nat
  BY DEF TypeOK
<1>2. PICK b \in Nat : \A f \in DOMAIN files : f <= b
  BY DEF Bounded
<1>3. \E m \in DOMAIN files : \A g \in DOMAIN files : g <= m
  BY <1>1, <1>2, MaxExists, Zenon
<1> QED
  BY <1>3 DEF LastFile, IsLast

(* The CHOOSE in ValidCells finds where verifySegment's loop stops. *)
LEMMA ValidCellsStops ==
    ASSUME TypeOK, NEW f \in DOMAIN files
    PROVE  /\ ValidCells(f) \in 0..Len(files[f])
           /\ \A k \in 1..ValidCells(f) : InSequence(f, k)
           /\ ValidCells(f) < Len(files[f]) => ~InSequence(f, ValidCells(f) + 1)
<1> DEFINE n == Len(files[f])
           Bad == {k \in 1..n : files[f][k].index # f + k - 1}
           Stop(m) == /\ \A k \in 1..m : files[f][k].index = f + k - 1
                      /\ m < n => files[f][m + 1].index # f + m
<1>1. n \in Nat /\ f \in Nat /\ Bad \in SUBSET Nat
  BY DEF TypeOK
<1>2. \E m \in 0..n : Stop(m)
  <2>1. CASE Bad = {}
    <3>1. Stop(n)
      BY <2>1, <1>1
    <3> QED
      BY <3>1, <1>1
  <2>2. CASE Bad # {}
    <3>1. PICK k \in Bad : \A j \in Bad : k <= j
      BY <2>2, <1>1, MinExists, Zenon
    <3>2. k \in 1..n /\ files[f][k].index # f + k - 1 /\ k - 1 \in 0..n /\ (k - 1) + 1 = k
      BY <3>1, <1>1
    <3>3. f + (k - 1) = f + k - 1
      BY <3>2, <1>1
    <3>4. \A j \in 1..(k - 1) : files[f][j].index = f + j - 1
      BY <3>1, <3>2, <1>1
    <3>5. Stop(k - 1)
      BY <3>2, <3>3, <3>4
    <3> QED
      BY <3>5, <3>2, SMTT(30)
  <2> QED
    BY <2>1, <2>2
<1>3. ValidCells(f) = CHOOSE m \in 0..n : Stop(m)
  BY DEF ValidCells
<1> HIDE DEF Stop
<1>4. ValidCells(f) \in 0..n /\ Stop(ValidCells(f))
  BY <1>2, <1>3
<1>5. ValidCells(f) \in Nat /\ f + (ValidCells(f) + 1) - 1 = f + ValidCells(f)
  BY <1>4, <1>1
<1> QED
  BY <1>4, <1>5 DEF InSequence, Stop

-----------------------------------------------------------------------------
(* What the operations on the cells of a file return. *)

(* A flush changes where cells are and nothing else; afterwards no cell is  *)
(* dirty.                                                                   *)
LEMMA FlushedCells ==
    ASSUME NEW s \in Seq(Cell)
    PROVE  /\ Flushed(s) \in Seq(Cell) /\ Len(Flushed(s)) = Len(s)
           /\ \A k \in 1..Len(s) :
                /\ Flushed(s)[k].index = s[k].index /\ Flushed(s)[k].cmd = s[k].cmd
                /\ Flushed(s)[k].end = s[k].end
                /\ Flushed(s)[k].at = IF s[k].at = "dirty" THEN "disk" ELSE s[k].at
<1>1. Len(s) \in Nat /\ DOMAIN s = 1..Len(s) /\ \A k \in 1..Len(s) : s[k] \in Cell
  OBVIOUS
<1>2. Flushed(s) \in [1..Len(s) -> Cell]
  BY <1>1, SMTT(30) DEF Flushed, Cell
<1>3. Flushed(s) \in Seq(Cell) /\ Len(Flushed(s)) = Len(s)
  BY <1>1, <1>2
<1> QED
  BY <1>1, <1>3 DEF Flushed, Cell

(* So does a failed flush. *)
LEMMA HalfFlushedType ==
    ASSUME NEW s \in Seq(Cell), NEW w
    PROVE  HalfFlushed(s, w) \in Seq(Cell)
<1>1. Len(s) \in Nat /\ DOMAIN s = 1..Len(s) /\ \A k \in 1..Len(s) : s[k] \in Cell
  OBVIOUS
<1>2. HalfFlushed(s, w) \in [1..Len(s) -> Cell]
  BY <1>1, Zenon DEF HalfFlushed, Cell
<1> QED
  BY <1>1, <1>2

LEMMA DamagedType == Damaged("disk") \in Cell /\ Damaged("dirty") \in Cell
  BY DEF Damaged, Cell

(* What power loss leaves of a file: the cells on disk as they were, and of *)
(* the others a damaged or an intact cell.                                  *)
LEMMA SurvivorCells ==
    ASSUME NEW s \in Seq(Cell), NEW t \in Survivors(s)
    PROVE  /\ t \in Seq(Cell) /\ Len(t) <= Len(s)
           /\ \A k \in 1..Len(t) :
                /\ t[k].at = "disk"
                /\ \/ t[k].index = 0 /\ s[k].at # "disk"
                   \/ t[k].index = s[k].index /\ t[k].cmd = s[k].cmd
           /\ \A k \in 1..Len(s) : s[k].at = "disk" => k <= Len(t) /\ t[k] = s[k]
<1>1. Len(s) \in Nat /\ \A k \in 1..Len(s) : s[k] \in Cell
  OBVIOUS
<1>2. PICK l \in Losses(s) : t = AfterLoss(s, l)
  BY DEF Survivors
<1>3. /\ l[1] \in 0..Len(s)
      /\ \A k \in 1..Len(s) : s[k].at = "disk" => k <= l[1] /\ k \notin l[2]
  BY <1>2 DEF Losses
<1>4. t = [k \in 1..l[1] |-> IF k \in l[2] THEN Damaged("disk") ELSE [s[k] EXCEPT !.at = "disk"]]
  BY <1>2 DEF AfterLoss
<1>5. \A k \in 1..l[1] : k \in 1..Len(s)
  BY <1>1, <1>3
<1>6. \A k \in 1..Len(s) : /\ [s[k] EXCEPT !.at = "disk"] \in Cell
                           /\ [s[k] EXCEPT !.at = "disk"].at = "disk"
                           /\ [s[k] EXCEPT !.at = "disk"].index = s[k].index
                           /\ [s[k] EXCEPT !.at = "disk"].cmd = s[k].cmd
                           /\ s[k].at = "disk" => [s[k] EXCEPT !.at = "disk"] = s[k]
  BY <1>1, Zenon DEF Cell
<1>7. t \in [1..l[1] -> Cell]
  BY <1>4, <1>5, <1>6, DamagedType
<1>8. t \in Seq(Cell) /\ Len(t) = l[1]
  BY <1>3, <1>7
<1>9. Damaged("disk").at = "disk" /\ Damaged("disk").index = 0
  BY DEF Damaged
<1> HIDE DEF Damaged
<1> QED
  BY <1>1, <1>3, <1>4, <1>5, <1>6, <1>8, <1>9

-----------------------------------------------------------------------------
(* Types *)

TypeInv == TypeOK /\ Bounded /\ Opening

LEMMA EmptyFunction == DOMAIN << >> = {} /\ \A S : << >> \in [DOMAIN << >> -> S]
  OBVIOUS

(* The part of TypeInv that is about the directory. *)
DirType(fs) ==
    /\ DOMAIN fs \subseteq Nat \ {0}
    /\ fs \in [DOMAIN fs -> Seq(Cell)]
    /\ \E b \in Nat : \A f \in DOMAIN fs : f <= b

(* Replacing the cells of one file keeps the directory well-typed. *)
LEMMA ReplaceCells ==
    ASSUME TypeInv, NEW a, NEW fs, NEW c, a \in DOMAIN files => c \in Seq(Cell),
           fs = [files EXCEPT ![a] = c]
    PROVE  DOMAIN fs = DOMAIN files /\ DirType(fs)
  BY Zenon DEF TypeInv, TypeOK, Bounded, DirType

(* So does creating an empty one. *)
LEMMA CreateFile ==
    ASSUME TypeInv, NEW x \in Nat \ {0}, NEW fs, fs = With(files, x, << >>)
    PROVE  DOMAIN fs = DOMAIN files \cup {x} /\ DirType(fs)
<1>1. DOMAIN fs = DOMAIN files \cup {x}
  BY DEF With
<1>2. << >> \in Seq(Cell)
  OBVIOUS
<1>3. fs \in [DOMAIN files \cup {x} -> Seq(Cell)]
  BY <1>2 DEF With, TypeInv, TypeOK
<1>4. PICK b \in Nat : \A f \in DOMAIN files : f <= b
  BY DEF TypeInv, Bounded
<1>5. \A f \in DOMAIN fs : f <= b + x
  BY <1>1, <1>4, SMTT(30) DEF TypeInv, TypeOK
<1>6. DOMAIN fs \subseteq Nat \ {0}
  BY <1>1 DEF TypeInv, TypeOK
<1>7. \E c \in Nat : \A f \in DOMAIN fs : f <= c
  <2>1. b + x \in Nat
    OBVIOUS
  <2> QED
    BY <2>1, <1>5
<1>8. fs \in [DOMAIN fs -> Seq(Cell)]
  BY <1>1, <1>3
<1> QED
  BY <1>1, <1>6, <1>7, <1>8 DEF DirType

(* And so does power loss. *)
LEMMA PowerLossFiles ==
    ASSUME TypeInv, PowerLoss
    PROVE  DirType(files')
<1>1. PICK gone \in SUBSET (DOMAIN files \ linked), uncut \in SUBSET stale,
           after \in [{f \in DOMAIN files : ~OnDisk(f)} ->
                      UNION {Survivors(files[f]) : f \in {f \in DOMAIN files : ~OnDisk(f)}}] :
        /\ \A f \in {f \in DOMAIN files : ~OnDisk(f)} : after[f] \in Survivors(files[f])
        /\ files' = [f \in DOMAIN files \ gone |->
              IF f \in uncut
              THEN Append(IF f \in {g \in DOMAIN files : ~OnDisk(g)} THEN after[f] ELSE files[f], Damaged("disk"))
              ELSE IF f \in {g \in DOMAIN files : ~OnDisk(g)} THEN after[f] ELSE files[f]]
  BY Zenon DEF PowerLoss
<1>2. \A f \in DOMAIN files : (IF f \in {g \in DOMAIN files : ~OnDisk(g)} THEN after[f] ELSE files[f]) \in Seq(Cell)
  BY <1>1, SurvivorCells DEF TypeInv, TypeOK
<1>3. \A q \in Seq(Cell) : Append(q, Damaged("disk")) \in Seq(Cell)
  BY DamagedType
<1>4. files' \in [DOMAIN files \ gone -> Seq(Cell)]
  BY <1>1, <1>2, <1>3
<1> QED
  BY <1>4 DEF DirType, TypeInv, TypeOK, Bounded

(* The result of verification that recover stores in the Log. *)
LEMMA LoadedType ==
    ASSUME TypeInv, DOMAIN files # {}
    PROVE  /\ LastFile \in DOMAIN files /\ LastFile \in Nat
           /\ [f \in DOMAIN files |-> f + ValidCells(f) - 1] \in [DOMAIN files -> Nat]
           /\ ValidSize(LastFile) \in Nat
           /\ LastFile + ValidCells(LastFile) - 1 \in Nat
<1>1. LastFile \in DOMAIN files
  BY LastFileIsLast DEF TypeInv
<1>2. \A f \in DOMAIN files : ValidCells(f) \in 0..Len(files[f])
  BY ValidCellsStops DEF TypeInv
<1>3. \A f \in DOMAIN files : f \in Nat \ {0} /\ files[f] \in Seq(Cell) /\ Len(files[f]) \in Nat
  BY DEF TypeInv, TypeOK
<1>4. \A f \in DOMAIN files : f + ValidCells(f) - 1 \in Nat
  BY <1>2, <1>3
<1>5. ValidSize(LastFile) \in Nat
  <2>1. CASE ValidCells(LastFile) = 0
    BY <2>1 DEF ValidSize
  <2>2. CASE ValidCells(LastFile) # 0
    <3>1. ValidCells(LastFile) \in 1..Len(files[LastFile])
      BY <2>2, <1>1, <1>2, <1>3
    <3>2. files[LastFile][ValidCells(LastFile)] \in Cell
      BY <3>1, <1>1, <1>3
    <3> QED
      BY <2>2, <3>2 DEF ValidSize, Cell
  <2> QED
    BY <2>1, <2>2
<1> QED
  BY <1>1, <1>3, <1>4, <1>5

(* Every step of OpenLog keeps the types. *)
LEMMA TypeOpenLog ==
    ASSUME TypeInv, OpenLog
    PROVE  TypeInv'
<1> USE DEF TypeInv
<1>1. CASE StartFirstSegment
  <2>1. DOMAIN files' = DOMAIN files \cup {1} /\ DirType(files')
    BY <1>1, CreateFile DEF StartFirstSegment
  <2> QED
    BY <1>1, <2>1, SMTT(30) DEF StartFirstSegment, DirType, TypeOK, Bounded, Opening,
         logVars, flagVars, taskVars, ghostVars
<1>2. CASE FirstSegmentSynced
  <2>1. DOMAIN files # {}
    BY <1>2 DEF FirstSegmentSynced, Opening
  <2> QED
    BY <1>2, <2>1, LoadedType, ZenonT(30) DEF FirstSegmentSynced, Loaded, TypeOK, Bounded,
       Opening,
         flagVars, ghostVars
<1>3. CASE FirstSegmentFails
  BY <1>3, SMTT(30) DEF FirstSegmentFails, TypeOK, Bounded, Opening,
         diskVars, logVars, flagVars, taskVars, ghostVars
<1>4. CASE OpenClean
  BY <1>4, LoadedType, SMTT(30) DEF OpenClean, Loaded, TypeOK, Bounded, Opening,
         diskVars, flagVars, ghostVars
<1>5. CASE OpenTruncate
  <2>1. LastFile \in DOMAIN files /\ ValidCells(LastFile) \in 0..Len(files[LastFile])
    BY <1>5, LastFileIsLast, ValidCellsStops DEF OpenTruncate
  <2>2. SubSeq(files[LastFile], 1, ValidCells(LastFile)) \in Seq(Cell)
    BY <2>1 DEF TypeOK
  <2>3. DOMAIN files' = DOMAIN files /\ DirType(files')
    BY <1>5, <2>2, ReplaceCells, Zenon DEF OpenTruncate
  <2> QED
    BY <1>5, <2>1, <2>3, ZenonT(30) DEF OpenTruncate, DirType, TypeOK, Bounded, Opening,
         logVars, flagVars, taskVars, ghostVars
<1>6. CASE TruncateSynced
  <2>1. DOMAIN files # {}
    BY <1>6 DEF TruncateSynced, Opening
  <2>2. LastFile \in DOMAIN files
    BY <2>1, LoadedType
  <2>3. DOMAIN files' = DOMAIN files /\ DirType(files')
    BY <1>6, <2>2, FlushedCells, ReplaceCells, Zenon DEF TruncateSynced, TypeOK
  <2> QED
    BY <1>6, <2>1, <2>3, LoadedType, ZenonT(30) DEF TruncateSynced, Loaded, DirType,
       TypeOK, Bounded,
         Opening, flagVars, ghostVars
<1>7. CASE TruncateSyncFails
  <2>1. PICK w : files' = [files EXCEPT ![LastFile] = HalfFlushed(@, w)]
    BY <1>7, Zenon DEF TruncateSyncFails
  <2>2. DOMAIN files' = DOMAIN files /\ DirType(files')
    BY <2>1, HalfFlushedType, ReplaceCells, Zenon DEF TypeOK
  <2> QED
    BY <1>7, <2>2, SMTT(30) DEF TruncateSyncFails, DirType, TypeOK, Bounded, Opening,
         logVars, flagVars, taskVars, ghostVars
<1>8. CASE OpenRefused
  BY <1>8 DEF OpenRefused, TypeOK, Bounded, Opening,
         diskVars, logVars, flagVars, taskVars, ghostVars
<1> QED
  BY <1>1, <1>2, <1>3, <1>4, <1>5, <1>6, <1>7, <1>8, SMTT(30) DEF OpenLog

(* sync, whether it succeeds or fails, keeps the types of what it changes. *)
LEMMA TypeSync ==
    ASSUME TypeInv, NEW c \in Nat, sync(c)
    PROVE  /\ DOMAIN files' = DOMAIN files /\ DirType(files')
           /\ stale' \subseteq DOMAIN files /\ dirty' \in BOOLEAN /\ flushedTo' \in Nat
           /\ failed' \in {"none", "io", "rotate"}
<1> USE DEF TypeInv
<1>1. CASE files' = [files EXCEPT ![active] = Flushed(@)]
  <2>1. DOMAIN files' = DOMAIN files /\ DirType(files')
    BY <1>1, FlushedCells, ReplaceCells, ZenonT(30) DEF TypeOK
  <2> QED
    BY <2>1, Zenon DEF sync, TypeOK
<1>2. CASE \E w \in SUBSET DOMAIN files[active] : files' = [files EXCEPT ![active] = HalfFlushed(@, w)]
  <2>1. DOMAIN files' = DOMAIN files /\ DirType(files')
    BY <1>2, HalfFlushedType, ReplaceCells, Zenon DEF TypeOK
  <2> QED
    BY <2>1, Zenon DEF sync, TypeOK
<1> QED
  BY <1>1, <1>2 DEF sync

(* Every step of an append keeps the types. *)
LEMMA TypeAppend ==
    ASSUME TypeInv, AppendStep \/ \E cmd \in Commands : AppendStart(cmd)
    PROVE  TypeInv'
<1> USE ConfigAssumption DEF TypeInv
<1>1. CASE \E cmd \in Commands : AppendStart(cmd)
  BY <1>1, SMTT(30) DEF AppendStart, TypeOK, Bounded, Opening, Unlocked, writable, Pcs,
       diskVars, logVars, flagVars, taskVars, ghostVars
<1>2. CASE RotateFlush
  <2>1. /\ DOMAIN files' = DOMAIN files /\ DirType(files')
        /\ stale' \subseteq DOMAIN files /\ dirty' \in BOOLEAN /\ flushedTo' \in Nat
        /\ failed' \in {"none", "io", "rotate"}
    <3>1. CASE sync(lastIndex)
      BY <3>1, TypeSync DEF TypeOK
    <3>2. CASE UNCHANGED syncVars
      BY <3>2 DEF syncVars, DirType, TypeOK, Bounded
    <3> QED
      BY <1>2, <3>1, <3>2 DEF RotateFlush
  <2> QED
    BY <1>2, <2>1, ZenonT(30) DEF RotateFlush, DirType, TypeOK, Bounded, Opening, Pcs, Idle,
         logVars, taskVars
<1>3. CASE RotateCreate
  <2>0. lastIndex + 1 \in Nat \ {0}
    BY DEF TypeOK
  <2>1. DOMAIN files' = DOMAIN files \cup {lastIndex + 1} /\ DirType(files')
    BY <1>3, <2>0, CreateFile, Zenon DEF RotateCreate
  <2> QED
    BY <1>3, <2>1, ZenonT(30) DEF RotateCreate, DirType, TypeOK, Bounded, Opening, Pcs,
         logVars, flagVars, taskVars, ghostVars
<1>4. CASE RotateCreateFails \/ RotateSyncDirFails
  <2>1. CASE RotateCreateFails
    BY <2>1, SMTT(30) DEF RotateCreateFails, TypeOK, Bounded, Opening, Pcs, Idle,
         diskVars, logVars, taskVars, ghostVars
  <2>2. CASE RotateSyncDirFails
    BY <2>2, SMTT(30) DEF RotateSyncDirFails, TypeOK, Bounded, Opening, Pcs, Idle,
         diskVars, logVars, taskVars, ghostVars
  <2> QED
    BY <1>4, <2>1, <2>2, SMTT(30)
<1>5. CASE RotateSyncDir
  <2>1. lastIndex + 1 \in Nat /\ lastIndex + 1 \in DOMAIN files
    BY <1>5 DEF RotateSyncDir, TypeOK, Opening
  <2>2. /\ DOMAIN segments' = DOMAIN segments \cup {lastIndex + 1}
        /\ segments' \in [DOMAIN segments' -> Nat]
    BY <1>5 DEF RotateSyncDir, With, TypeOK
  <2> QED
    BY <1>5, <2>1, <2>2, ZenonT(30) DEF RotateSyncDir, TypeOK, Bounded, Opening, Pcs,
         flagVars, taskVars, ghostVars
<1>6. CASE WriteRecord
  <2>1. op.cmd \in Commands /\ active \in DOMAIN segments /\ active \in DOMAIN files
    BY <1>6 DEF WriteRecord, SyncsEachRecord, TypeOK
  <2>2. activeSize + CmdSize[op.cmd] \in Nat /\ lastIndex + 1 \in Nat
    BY <2>1 DEF TypeOK
  <2>3. [index |-> lastIndex + 1, cmd |-> op.cmd,
         end |-> activeSize + CmdSize[op.cmd], at |-> "dirty"] \in Cell
    BY <2>1, <2>2 DEF Cell
  <2> DEFINE c == [index |-> lastIndex + 1, cmd |-> op.cmd,
                   end |-> activeSize + CmdSize[op.cmd], at |-> "dirty"]
  <2> HIDE DEF c
  <2>4. DOMAIN files' = DOMAIN files /\ DirType(files')
    <3>1. Append(files[active], c) \in Seq(Cell)
      BY <2>1, <2>3 DEF c, TypeOK
    <3>2. files' = [files EXCEPT ![active] = Append(files[active], c)]
      BY <1>6 DEF WriteRecord, SyncsEachRecord, c
    <3> QED
      BY <3>1, <3>2, ReplaceCells, Zenon
  <2>5. CASE op' = [op EXCEPT !.pc = "sync"] /\ UNCHANGED <<lastIndex, segments, acked>>
    BY <1>6, <2>2, <2>4, <2>5, ZenonT(30) DEF WriteRecord, SyncsEachRecord, DirType,
       TypeOK, Bounded, Opening, Pcs, taskVars
  <2>6. CASE Acknowledge
    BY <1>6, <2>1, <2>2, <2>4, <2>6, SMTT(30) DEF WriteRecord, SyncsEachRecord,
       Acknowledge, With, DirType, TypeOK,
         Bounded, Opening, Pcs, Idle, taskVars
  <2> QED
    BY <1>6, <2>5, <2>6 DEF WriteRecord, SyncsEachRecord
<1>7. CASE WriteFails
  <2>1. DOMAIN files' = DOMAIN files /\ DirType(files')
    <3>1. CASE UNCHANGED files
      BY <3>1 DEF DirType, TypeOK, Bounded
    <3>2. CASE files' = [files EXCEPT ![active] = Append(@, Damaged("dirty"))]
      <4>1. active \in DOMAIN files => Append(files[active], Damaged("dirty")) \in Seq(Cell)
        BY DamagedType DEF TypeOK
      <4> QED
        BY <3>2, <4>1, ReplaceCells, Zenon
    <3> QED
      BY <1>7, <3>1, <3>2 DEF WriteFails
  <2> QED
    BY <1>7, <2>1, SMTT(30) DEF WriteFails, DirType, TypeOK, Bounded, Opening, Pcs, Idle,
         logVars, taskVars, ghostVars
<1>8. CASE SyncRecord
  <2>1. /\ DOMAIN files' = DOMAIN files /\ DirType(files')
        /\ stale' \subseteq DOMAIN files /\ dirty' \in BOOLEAN /\ flushedTo' \in Nat
        /\ failed' \in {"none", "io", "rotate"}
    <3>1. lastIndex + 1 \in Nat
      BY DEF TypeOK
    <3> QED
      BY <1>8, <3>1, TypeSync DEF SyncRecord
  <2>2. op.cmd \in Commands /\ lastIndex + 1 \in Nat
    BY <1>8 DEF SyncRecord, TypeOK
  <2>3. CASE Acknowledge
    <3>1. DOMAIN acked' \subseteq Nat /\ acked' \in [DOMAIN acked' -> Commands]
      BY <2>2, <2>3 DEF Acknowledge, With, TypeOK
    <3>2. DOMAIN segments' = DOMAIN segments /\ segments' \in [DOMAIN segments' -> Nat]
      BY <2>2, <2>3, Zenon DEF Acknowledge, TypeOK
    <3> QED
      BY <1>8, <2>1, <2>2, <2>3, <3>1, <3>2, SMTT(30) DEF SyncRecord, Acknowledge, DirType,
         TypeOK,
           Bounded, Opening, Pcs, Idle, taskVars
  <2>4. CASE op' = Idle /\ UNCHANGED <<lastIndex, segments, acked>>
    BY <1>8, <2>1, <2>4, ZenonT(30) DEF SyncRecord, DirType, TypeOK, Bounded, Opening, Pcs,
       Idle, taskVars
  <2> QED
    BY <1>8, <2>3, <2>4 DEF SyncRecord
<1> QED
  BY <1>1, <1>2, <1>3, <1>4, <1>5, <1>6, <1>7, <1>8 DEF AppendStep

(* So do the syncer, Close and crashes. *)
LEMMA TypeRest ==
    ASSUME TypeInv,
           \/ TickerFires \/ SyncerTick \/ SyncerStop \/ syncIfDirty
           \/ \E c \in Closers : CloseBegin(c) \/ CloseFinish(c)
           \/ Exit \/ Crash
    PROVE  TypeInv'
<1> USE DEF TypeInv
<1>1. CASE TickerFires \/ SyncerTick \/ SyncerStop
  <2>1. CASE TickerFires
    BY <2>1 DEF TickerFires, TypeOK, Bounded, Opening, diskVars, logVars, flagVars,
       ghostVars
  <2>2. CASE SyncerTick
    BY <2>2, ZenonT(30) DEF SyncerTick, TypeOK, Bounded, Opening, diskVars, logVars,
       flagVars, ghostVars
  <2>3. CASE SyncerStop
    BY <2>3 DEF SyncerStop, TypeOK, Bounded, Opening, diskVars, logVars, flagVars, ghostVars
  <2> QED
    BY <1>1, <2>1, <2>2, <2>3
<1>2. ASSUME sync(lastIndex) \/ UNCHANGED syncVars
      PROVE  /\ DOMAIN files' = DOMAIN files /\ DirType(files')
             /\ stale' \subseteq DOMAIN files /\ dirty' \in BOOLEAN /\ flushedTo' \in Nat
             /\ failed' \in {"none", "io", "rotate"}
  <2>1. CASE sync(lastIndex)
    BY <2>1, TypeSync DEF TypeOK
  <2>2. CASE UNCHANGED syncVars
    BY <2>2 DEF syncVars, DirType, TypeOK, Bounded
  <2> QED
    BY <1>2, <2>1, <2>2
<1>3. CASE syncIfDirty
  BY <1>2, <1>3, SMTT(30) DEF syncIfDirty, DirType, TypeOK, Bounded, Opening, logVars
<1>4. ASSUME NEW c \in Closers, CloseBegin(c) PROVE TypeInv'
  BY <1>4 DEF CloseBegin, TypeOK, Bounded, Opening, diskVars, logVars, ghostVars
<1>5. ASSUME NEW c \in Closers, CloseFinish(c) PROVE TypeInv'
  BY <1>2, <1>5, SMTT(30) DEF CloseFinish, DirType, TypeOK, Bounded, Opening, Unlocked,
     logVars
<1>6. ASSUME ProcessGone, DirType(files'), linked' \subseteq DOMAIN files',
             stale' \subseteq DOMAIN files', dirLinked' \in BOOLEAN,
             DOMAIN acked' \subseteq Nat, acked' \in [DOMAIN acked' -> Commands],
             flushedTo' \in Nat
      PROVE  TypeInv'
  BY <1>6, EmptyFunction, Zenon DEF ProcessGone, DirType, TypeOK, Bounded, Opening, Pcs,
     Idle
<1>7. CASE Exit
  BY <1>6, <1>7, SMTT(30) DEF Exit, DirType, TypeOK, Bounded, diskVars, ghostVars
<1>8. CASE Kill
  <2>1. DOMAIN files' = DOMAIN files /\ DirType(files')
    <3>1. CASE UNCHANGED files
      BY <3>1 DEF DirType, TypeOK, Bounded
    <3>2. CASE files' = [files EXCEPT ![active] = Append(@, Damaged("dirty"))]
      <4>1. active \in DOMAIN files => Append(files[active], Damaged("dirty")) \in Seq(Cell)
        BY DamagedType DEF TypeOK
      <4> QED
        BY <3>2, <4>1, ReplaceCells, Zenon
    <3> QED
      BY <1>8, <3>1, <3>2 DEF Kill
  <2> QED
    BY <1>6, <1>8, <2>1, SMTT(30) DEF Kill, TypeOK, ghostVars
<1>9. CASE PowerLoss
  BY <1>6, <1>9, PowerLossFiles, Zenon DEF PowerLoss, Promised, TypeOK
<1>10. CASE PowerLossOfDir
  <2>1. DirType(files')
    BY <1>10 DEF PowerLossOfDir, DirType
  <2> QED
    BY <1>6, <1>10, <2>1 DEF PowerLossOfDir, Promised, TypeOK
<1> QED
  BY <1>1, <1>3, <1>4, <1>5, <1>7, <1>8, <1>9, <1>10 DEF Crash

LEMMA TypeInit == ASSUME Init PROVE TypeInv
<1>1. DOMAIN files = {} /\ files \in [DOMAIN files -> Seq(Cell)]
  BY EmptyFunction DEF Init
<1>2. DOMAIN segments = {} /\ segments \in [DOMAIN segments -> Nat]
  BY EmptyFunction DEF Init
<1>3. DOMAIN acked = {} /\ acked \in [DOMAIN acked -> Commands]
  BY EmptyFunction DEF Init
<1>4. dirLinked \in BOOLEAN /\ op \in [pc : Pcs, cmd : Commands \cup {NoCmd}]
  BY ConfigAssumption DEF Init, Idle, Pcs
<1>5. Bounded /\ Opening
  BY <1>1 DEF Init, Bounded, Opening, Idle
<1> QED
  BY <1>1, <1>2, <1>3, <1>4, <1>5, ZenonT(30) DEF Init, TypeInv, TypeOK, Idle

(* The state of the log is well-typed in every reachable state, whatever    *)
(* the policy and the faults.                                               *)
THEOREM TypeCorrect == Spec => []TypeOK
<1>1. Init => TypeInv
  BY TypeInit
<1>2. TypeInv /\ [Next]_vars => TypeInv'
  <2>1. ASSUME TypeInv, UNCHANGED vars PROVE TypeInv'
    BY <2>1, SMTT(30) DEF TypeInv, TypeOK, Bounded, Opening, vars, diskVars, logVars,
       flagVars,
         taskVars, ghostVars
  <2> QED
    BY <2>1, TypeOpenLog, TypeAppend, TypeRest DEF Next
<1>3. TypeInv => TypeOK
  BY DEF TypeInv
<1> QED
  BY <1>1, <1>2, <1>3, PTL DEF Spec
=============================================================================
