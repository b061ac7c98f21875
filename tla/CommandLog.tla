------------------------------ MODULE CommandLog ------------------------------
(***************************************************************************)
(* The file-backed command log of internal/storage (Log in log.go and       *)
(* log_recovery.go), with the page cache and the disk under it.             *)
(*                                                                          *)
(* A segment file is a sequence of cells, one per record, in the order the  *)
(* file holds them.  A cell carries the index and command a reader decodes, *)
(* the file offset at which the record ends, and where its bytes are:       *)
(* "disk" once they have reached the disk, "dirty" while only the page      *)
(* cache has them, "lost" when a failed fsync made the kernel forget that   *)
(* they still have to be written.  Bytes that do not decode are a damaged   *)
(* cell, with index 0.  Files are named by the index of their first record. *)
(*                                                                          *)
(* l.mu is held from AppendStart until op returns to idle: the steps in     *)
(* between are the points at which the process or the machine may stop.     *)
(***************************************************************************)
EXTENDS Integers, Sequences, FiniteSets

CONSTANTS
    Commands,          \* the commands clients append
    CmdSize,           \* the bytes of the record that holds a command
    NoCmd,             \* stands for the command of a damaged cell
    SegmentBytes,      \* LogConfig.SegmentBytes
    Policy,            \* LogConfig.Fsync: "always", "interval" or "os"
    Faults,            \* which failures the environment may cause
    Closers,           \* the goroutines that may call Close
    DirDurable,        \* the entry of the log directory itself is durable
    MaxIndex           \* bound: no record beyond this index is appended

FaultKinds == {"kill", "power", "writeErr", "syncErr", "createErr", "dirErr"}

(* LogConfig.Validate admits exactly these configurations; a record has at  *)
(* least its header, so its size is positive.                               *)
ASSUME ConfigAssumption ==
    /\ CmdSize \in [Commands -> Nat \ {0}]
    /\ NoCmd \notin Commands
    /\ SegmentBytes \in Nat \ {0}
    /\ Policy \in {"always", "interval", "os"}
    /\ Faults \subseteq FaultKinds
    /\ DirDurable \in BOOLEAN
    /\ MaxIndex \in Nat

VARIABLES
    files,       \* the log directory: first index |-> cells, as a reader sees it
    linked,      \* the files whose directory entry is durable
    stale,       \* the files cut by truncateTail whose cut is not on disk yet
    dirLinked,   \* the log directory's own entry is durable
    status,      \* "down", "firstSegment", "truncating", "open", "closed", "refused"
    segments,    \* l.segments: first |-> last
    active,      \* first index of the segment l.active is open on
    activeSize,  \* l.activeSize
    lastIndex,   \* l.lastIndex
    dirty,       \* l.dirty
    failed,      \* l.failed: "none", "io", or "rotate" when l.active is closed too
    closed,      \* l.closed
    op,          \* the append that holds l.mu: the next step and its command
    tick,        \* a tick waits in the ticker's channel
    syncer,      \* runSyncer: "none", "wait", "tick" or "done"
    closer,      \* each caller of Close: "out", "stop", "nil" or "err"
    acked,       \* ghost: index |-> command of every append that was acknowledged
    flushedTo    \* ghost: the last index covered by a successful flush

diskVars == <<files, linked, stale, dirLinked>>
logVars == <<segments, active, activeSize, lastIndex>>
flagVars == <<dirty, failed, closed>>
taskVars == <<tick, syncer, closer>>
ghostVars == <<acked, flushedTo>>
syncVars == <<files, stale, dirty, failed, flushedTo>>
vars == <<diskVars, status, logVars, flagVars, op, taskVars, ghostVars>>

Cell == [index : Nat, cmd : Commands \cup {NoCmd}, end : Nat,
         at : {"disk", "dirty", "lost"}]
Damaged(where) == [index |-> 0, cmd |-> NoCmd, end |-> 0, at |-> where]

Idle == [pc |-> "idle", cmd |-> NoCmd]
Pcs == {"idle", "rotate", "create", "syncDir", "write", "sync"}

TypeOK ==
    /\ DOMAIN files \subseteq Nat \ {0}
    /\ files \in [DOMAIN files -> Seq(Cell)]
    /\ linked \subseteq DOMAIN files
    /\ stale \subseteq DOMAIN files
    /\ dirLinked \in BOOLEAN
    /\ status \in {"down", "firstSegment", "truncating", "open", "closed", "refused"}
    /\ DOMAIN segments \subseteq DOMAIN files
    /\ segments \in [DOMAIN segments -> Nat]
    /\ status = "open" => active \in DOMAIN segments
    /\ active \in Nat
    /\ activeSize \in Nat
    /\ lastIndex \in Nat
    /\ dirty \in BOOLEAN
    /\ failed \in {"none", "io", "rotate"}
    /\ closed \in BOOLEAN
    /\ op \in [pc : Pcs, cmd : Commands \cup {NoCmd}]
    /\ op.pc # "idle" => status = "open" /\ op.cmd \in Commands
    /\ tick \in BOOLEAN
    /\ syncer \in {"none", "wait", "tick", "done"}
    /\ closer \in [Closers -> {"out", "stop", "nil", "err"}]
    /\ DOMAIN acked \subseteq Nat
    /\ acked \in [DOMAIN acked -> Commands]
    /\ flushedTo \in Nat

-----------------------------------------------------------------------------
(* Helpers *)

(* fn with x mapped to v. *)
With(fn, x, v) == [y \in DOMAIN fn \cup {x} |-> IF y = x THEN v ELSE fn[y]]

(* fsync of a file: every dirty cell, and a cut, reaches the disk.  A lost  *)
(* cell does not: the kernel no longer knows that it is unwritten.          *)
Flushed(cells) ==
    [k \in DOMAIN cells |->
        IF cells[k].at = "dirty" THEN [cells[k] EXCEPT !.at = "disk"] ELSE cells[k]]

(* A failed fsync: an arbitrary part of the dirty cells reached the disk,   *)
(* and the kernel marks the rest clean all the same.                        *)
HalfFlushed(cells, written) ==
    [k \in DOMAIN cells |->
        IF cells[k].at = "dirty"
        THEN [cells[k] EXCEPT !.at = IF k \in written THEN "disk" ELSE "lost"]
        ELSE cells[k]]

(* l.mu is free. *)
Unlocked == op.pc = "idle"

(* Mutated: writable forgets the sticky failure. *)
writableAfterFailure == status = "open" /\ ~closed

(* writable: the log accepts records. *)
writable == status = "open" /\ ~closed /\ failed = "none"

-----------------------------------------------------------------------------
(* Opening the log *)

(* listSegments: the last segment in index order. *)
LastFile == CHOOSE f \in DOMAIN files : \A g \in DOMAIN files : g <= f

(* verifySegment's loop: how many records of file f decode in sequence. *)
ValidCells(f) ==
    CHOOSE n \in 0..Len(files[f]) :
        /\ \A k \in 1..n : files[f][k].index = f + k - 1
        /\ n < Len(files[f]) => files[f][n + 1].index # f + n

(* The offset at which the verified part of file f ends. *)
ValidSize(f) == IF ValidCells(f) = 0 THEN 0 ELSE files[f][ValidCells(f)].end

(* Mutated: the search starts one record late. *)
hasMuchLaterRecord(f) ==
    \E k \in (ValidCells(f) + 3)..Len(files[f]) : files[f][k].index > f + ValidCells(f)

(* hasLaterRecord: an intact record with a higher index follows the damage. *)
hasLaterRecord(f) ==
    \E k \in (ValidCells(f) + 2)..Len(files[f]) : files[f][k].index > f + ValidCells(f)

(* verifySegment of a segment that is not the last, with the check in       *)
(* recover that the next segment starts right after it.                     *)
EarlierVerified(f) ==
    /\ ValidCells(f) = Len(files[f])
    /\ \E g \in DOMAIN files :
        /\ g > f /\ g = f + Len(files[f])
        /\ \A h \in DOMAIN files : h <= f \/ g <= h

Whole(f) == ValidCells(f) = Len(files[f])

(* verifySegment of the last segment: damage that is only a torn tail. *)
TornTail(f) ==
    /\ ~Whole(f)
    /\ files[f][ValidCells(f) + 1].index = 0
    /\ ~hasLaterRecord(f)

EarlierAllVerified == \A f \in DOMAIN files \ {LastFile} : EarlierVerified(f)

(* What recover and OpenLog leave in a Log whose files have been verified.  *)
(* dirty keeps its zero value, whatever the page cache holds.               *)
Loaded ==
    /\ status' = "open"
    /\ segments' = [f \in DOMAIN files |-> f + ValidCells(f) - 1]
    /\ active' = LastFile
    /\ activeSize' = ValidSize(LastFile)
    /\ lastIndex' = LastFile + ValidCells(LastFile) - 1
    /\ syncer' = IF Policy = "interval" THEN "wait" ELSE "none"
    /\ UNCHANGED <<flagVars, op, tick, closer, ghostVars>>

(* OpenLog on an empty directory: startFirstSegment creates segment 1 ...   *)
StartFirstSegment ==
    /\ status = "down" /\ DOMAIN files = {}
    /\ files' = With(files, 1, << >>)
    /\ status' = "firstSegment"
    /\ UNCHANGED <<linked, stale, dirLinked, logVars, flagVars, op, taskVars, ghostVars>>

(* ... and createSegment fsyncs the log directory. *)
FirstSegmentSynced ==
    /\ status = "firstSegment"
    /\ linked' = DOMAIN files
    /\ Loaded
    /\ UNCHANGED <<files, stale, dirLinked>>

(* The directory fsync fails: OpenLog fails and the file stays behind. *)
FirstSegmentFails ==
    /\ status = "firstSegment" /\ "dirErr" \in Faults
    /\ status' = "down"
    /\ UNCHANGED <<diskVars, logVars, flagVars, op, taskVars, ghostVars>>

(* OpenLog on a directory whose records all verify. *)
OpenClean ==
    /\ status = "down" /\ DOMAIN files # {}
    /\ EarlierAllVerified /\ Whole(LastFile)
    /\ Loaded
    /\ UNCHANGED diskVars

(* OpenLog on a torn tail: truncateTail cuts it off ... *)
OpenTruncate ==
    /\ status = "down" /\ DOMAIN files # {}
    /\ EarlierAllVerified /\ TornTail(LastFile)
    /\ files' = [files EXCEPT ![LastFile] = SubSeq(@, 1, ValidCells(LastFile))]
    /\ stale' = stale \cup {LastFile}
    /\ status' = "truncating"
    /\ UNCHANGED <<linked, dirLinked, logVars, flagVars, op, taskVars, ghostVars>>

(* ... and flushes the result. *)
TruncateSynced ==
    /\ status = "truncating"
    /\ files' = [files EXCEPT ![LastFile] = Flushed(@)]
    /\ stale' = stale \ {LastFile}
    /\ Loaded
    /\ UNCHANGED <<linked, dirLinked>>

(* The flush fails: OpenLog fails with the tail cut in the page cache only. *)
TruncateSyncFails ==
    /\ status = "truncating" /\ "syncErr" \in Faults
    /\ \E written \in SUBSET DOMAIN files[LastFile] :
        files' = [files EXCEPT ![LastFile] = HalfFlushed(@, written)]
    /\ status' = "down"
    /\ UNCHANGED <<linked, stale, dirLinked, logVars, flagVars, op, taskVars, ghostVars>>

(* OpenLog reports corruption. *)
OpenRefused ==
    /\ status = "down" /\ DOMAIN files # {}
    /\ ~(EarlierAllVerified /\ (Whole(LastFile) \/ TornTail(LastFile)))
    /\ status' = "refused"
    /\ UNCHANGED <<diskVars, logVars, flagVars, op, taskVars, ghostVars>>

-----------------------------------------------------------------------------
(* Append, one step per point at which the process can stop *)

(* Mutated: sync clears dirty without an fsync. *)
syncSkipped(covered) ==
    /\ dirty' = FALSE /\ flushedTo' = covered
    /\ UNCHANGED <<files, stale, failed>>

(* sync: flush the active segment.  covered is the last index a success     *)
(* makes durable as far as the log knows; a failure is sticky.              *)
sync(covered) ==
    \/ /\ files' = [files EXCEPT ![active] = Flushed(@)]
       /\ stale' = stale \ {active}
       /\ dirty' = FALSE
       /\ flushedTo' = covered
       /\ UNCHANGED failed
    \/ /\ "syncErr" \in Faults
       /\ \E written \in SUBSET DOMAIN files[active] :
           files' = [files EXCEPT ![active] = HalfFlushed(@, written)]
       /\ failed' = "io"
       /\ UNCHANGED <<stale, dirty, flushedTo>>

(* Mutated: an empty segment is rotated as well. *)
MustRotateEmpty(cmd) == activeSize + CmdSize[cmd] > SegmentBytes

(* The record does not fit the active segment, which has records already. *)
MustRotate(cmd) == activeSize > 0 /\ activeSize + CmdSize[cmd] > SegmentBytes

AppendStart(cmd) ==
    /\ Unlocked /\ writable
    /\ lastIndex < MaxIndex
    /\ op' = [pc |-> IF MustRotate(cmd) THEN "rotate" ELSE "write", cmd |-> cmd]
    /\ UNCHANGED <<diskVars, status, logVars, flagVars, taskVars, ghostVars>>

(* Mutated: rotate does not flush. *)
RotateUnflushed ==
    /\ op.pc = "rotate"
    /\ op' = [op EXCEPT !.pc = "create"]
    /\ UNCHANGED <<syncVars, linked, dirLinked, status, logVars, closed, taskVars, acked>>

(* rotate: flush the active segment if it is dirty. *)
RotateFlush ==
    /\ op.pc = "rotate"
    /\ IF dirty THEN sync(lastIndex) ELSE UNCHANGED syncVars
    /\ op' = IF failed' = "none" THEN [op EXCEPT !.pc = "create"] ELSE Idle
    /\ UNCHANGED <<linked, dirLinked, status, logVars, closed, taskVars, acked>>

(* rotate: close the active segment; createSegment creates the next. *)
RotateCreate ==
    /\ op.pc = "create" /\ lastIndex + 1 \notin DOMAIN files
    /\ files' = With(files, lastIndex + 1, << >>)
    /\ op' = [op EXCEPT !.pc = "syncDir"]
    /\ UNCHANGED <<linked, stale, dirLinked, status, logVars, flagVars, taskVars, ghostVars>>

(* The close or the exclusive create fails. *)
RotateCreateFails ==
    /\ op.pc = "create"
    /\ "createErr" \in Faults \/ lastIndex + 1 \in DOMAIN files
    /\ failed' = "rotate"
    /\ op' = Idle
    /\ UNCHANGED <<diskVars, status, logVars, dirty, closed, taskVars, ghostVars>>

(* Mutated: rotate counts the record that is still to come. *)
RotateCountsNext ==
    /\ op.pc = "syncDir"
    /\ linked' = DOMAIN files
    /\ segments' = With(segments, lastIndex + 1, lastIndex + 1)
    /\ active' = lastIndex + 1
    /\ activeSize' = 0
    /\ op' = [op EXCEPT !.pc = "write"]
    /\ UNCHANGED <<files, stale, dirLinked, status, lastIndex, flagVars, taskVars, ghostVars>>

(* Mutated: rotate does not add the new segment to l.segments. *)
RotateUnlisted ==
    /\ op.pc = "syncDir"
    /\ linked' = DOMAIN files
    /\ active' = lastIndex + 1
    /\ activeSize' = 0
    /\ op' = [op EXCEPT !.pc = "write"]
    /\ UNCHANGED <<files, stale, dirLinked, status, segments, lastIndex, flagVars, taskVars,
                   ghostVars>>

(* createSegment: fsync the directory; rotate: switch to the new segment. *)
RotateSyncDir ==
    /\ op.pc = "syncDir"
    /\ linked' = DOMAIN files
    /\ segments' = With(segments, lastIndex + 1, lastIndex)
    /\ active' = lastIndex + 1
    /\ activeSize' = 0
    /\ op' = [op EXCEPT !.pc = "write"]
    /\ UNCHANGED <<files, stale, dirLinked, status, lastIndex, flagVars, taskVars, ghostVars>>

(* The directory fsync fails: the new file stays behind, empty. *)
RotateSyncDirFails ==
    /\ op.pc = "syncDir" /\ "dirErr" \in Faults
    /\ failed' = "rotate"
    /\ op' = Idle
    /\ UNCHANGED <<diskVars, status, logVars, dirty, closed, taskVars, ghostVars>>

(* Mutated: the next index is given out twice. *)
AcknowledgeTwice ==
    /\ UNCHANGED lastIndex
    /\ segments' = [segments EXCEPT ![active] = lastIndex + 1]
    /\ acked' = With(acked, lastIndex + 1, op.cmd)
    /\ op' = Idle

(* The end of Append: the record counts and the caller learns its index. *)
Acknowledge ==
    /\ lastIndex' = lastIndex + 1
    /\ segments' = [segments EXCEPT ![active] = lastIndex + 1]
    /\ acked' = With(acked, lastIndex + 1, op.cmd)
    /\ op' = Idle

(* Mutated: no policy syncs a record. *)
NeverSyncs == FALSE

(* cfg.Fsync == FsyncAlways: Append syncs each record. *)
SyncsEachRecord == Policy = "always"

(* The write succeeds.  Only the always policy syncs before it returns. *)
WriteRecord ==
    /\ op.pc = "write"
    /\ files' = [files EXCEPT ![active] =
         Append(@, [index |-> lastIndex + 1, cmd |-> op.cmd,
                    end |-> activeSize + CmdSize[op.cmd], at |-> "dirty"])]
    /\ activeSize' = activeSize + CmdSize[op.cmd]
    /\ dirty' = TRUE
    /\ IF SyncsEachRecord
       THEN op' = [op EXCEPT !.pc = "sync"] /\ UNCHANGED <<lastIndex, segments, acked>>
       ELSE Acknowledge
    /\ UNCHANGED <<linked, stale, dirLinked, status, active, failed, closed,
                   taskVars, flushedTo>>

(* The write fails, having written nothing or part of the record. *)
WriteFails ==
    /\ op.pc = "write" /\ "writeErr" \in Faults
    /\ \/ files' = [files EXCEPT ![active] = Append(@, Damaged("dirty"))]
       \/ UNCHANGED files
    /\ failed' = "io"
    /\ op' = Idle
    /\ UNCHANGED <<linked, stale, dirLinked, status, logVars, dirty, closed, taskVars, ghostVars>>

(* The always policy: sync, then acknowledge. *)
SyncRecord ==
    /\ op.pc = "sync"
    /\ sync(lastIndex + 1)
    /\ IF failed' = "none"
       THEN Acknowledge
       ELSE op' = Idle /\ UNCHANGED <<lastIndex, segments, acked>>
    /\ UNCHANGED <<linked, dirLinked, status, active, activeSize, closed, taskVars>>

-----------------------------------------------------------------------------
(* The background syncer of the interval policy *)

(* The ticker fires; its channel holds one tick. *)
TickerFires ==
    /\ syncer \in {"wait", "tick"} /\ ~tick
    /\ tick' = TRUE
    /\ UNCHANGED <<diskVars, status, logVars, flagVars, op, syncer, closer, ghostVars>>

(* runSyncer's select takes the tick ... *)
SyncerTick ==
    /\ syncer = "wait" /\ tick
    /\ tick' = FALSE
    /\ syncer' = "tick"
    /\ UNCHANGED <<diskVars, status, logVars, flagVars, op, closer, ghostVars>>

(* Mutated: the syncer does not stop while the log is dirty. *)
SyncerStopsClean ==
    /\ syncer = "wait" /\ ~dirty /\ \E c \in Closers : closer[c] = "stop"
    /\ syncer' = "done"
    /\ UNCHANGED <<diskVars, status, logVars, flagVars, op, tick, closer, ghostVars>>

(* ... or the closed stop channel. *)
SyncerStop ==
    /\ syncer = "wait" /\ \E c \in Closers : closer[c] = "stop"
    /\ syncer' = "done"
    /\ UNCHANGED <<diskVars, status, logVars, flagVars, op, tick, closer, ghostVars>>

(* Mutated: the test of dirty is inverted. *)
NothingWhenDirty == dirty \/ failed # "none" \/ closed

(* syncIfDirty returns without flushing when there is nothing to do. *)
NothingToSync == ~dirty \/ failed # "none" \/ closed

syncIfDirty ==
    /\ syncer = "tick" /\ Unlocked
    /\ IF NothingToSync THEN UNCHANGED syncVars ELSE sync(lastIndex)
    /\ syncer' = "wait"
    /\ UNCHANGED <<linked, dirLinked, status, logVars, closed, op, tick, closer, acked>>

-----------------------------------------------------------------------------
(* Close *)

(* The first locked half; a log that is closed already returns nil. *)
CloseBegin(c) ==
    /\ status \in {"open", "closed"} /\ Unlocked /\ closer[c] = "out"
    /\ closed' = TRUE
    /\ closer' = [closer EXCEPT ![c] = IF closed THEN "nil" ELSE "stop"]
    /\ UNCHANGED <<diskVars, status, logVars, dirty, failed, op, tick, syncer, ghostVars>>

(* The second locked half runs once the syncer, if there is one, has exited. *)
SyncerGone == syncer \in {"none", "done"}

(* Mutated: Close does not flush. *)
CloseUnflushed(c) ==
    /\ status = "open" /\ closer[c] = "stop" /\ SyncerGone /\ Unlocked
    /\ closer' = [closer EXCEPT ![c] = IF failed = "rotate" THEN "err" ELSE "nil"]
    /\ status' = "closed"
    /\ UNCHANGED <<syncVars, linked, dirLinked, logVars, closed, op, tick, syncer, acked>>

(* Flush, then close l.active, which fails if a failed rotation closed it   *)
(* before, and may fail otherwise.                                          *)
CloseFinish(c) ==
    /\ status = "open" /\ closer[c] = "stop" /\ SyncerGone /\ Unlocked
    /\ IF failed = "none" /\ dirty THEN sync(lastIndex) ELSE UNCHANGED syncVars
    /\ \E result \in {"nil", "err"} :
        /\ failed = "rotate" \/ failed' # failed => result = "err"
        /\ result = "err" => failed = "rotate" \/ failed' # failed \/ "createErr" \in Faults
        /\ closer' = [closer EXCEPT ![c] = result]
    /\ status' = "closed"
    /\ UNCHANGED <<linked, dirLinked, logVars, closed, op, tick, syncer, acked>>

-----------------------------------------------------------------------------
(* The process and the machine stop *)

ProcessGone ==
    /\ status' = "down"
    /\ segments' = << >> /\ active' = 0 /\ activeSize' = 0 /\ lastIndex' = 0
    /\ dirty' = FALSE /\ failed' = "none" /\ closed' = FALSE
    /\ op' = Idle
    /\ tick' = FALSE /\ syncer' = "none" /\ closer' = [c \in Closers |-> "out"]

(* The process exits after Close, or because OpenLog refused the log. *)
Exit ==
    /\ status \in {"closed", "refused"}
    /\ ProcessGone
    /\ UNCHANGED <<diskVars, ghostVars>>

(* The process is killed; the page cache survives.  A write in progress may *)
(* leave part of its record.                                                *)
Kill ==
    /\ "kill" \in Faults /\ status \in {"firstSegment", "truncating", "open"}
    /\ \/ UNCHANGED files
       \/ op.pc = "write" /\ files' = [files EXCEPT ![active] = Append(@, Damaged("dirty"))]
    /\ ProcessGone
    /\ UNCHANGED <<linked, stale, dirLinked, ghostVars>>

(* What power loss may do to a file: keep cells 1..n, of which those in     *)
(* hurt are damaged.  Cells on disk stay as they are, lost cells cannot be  *)
(* intact, and dirty ones reach the disk in any order or not at all.        *)
Losses(cells) ==
    {l \in (0..Len(cells)) \X SUBSET (1..Len(cells)) :
        /\ l[2] \subseteq 1..l[1]
        /\ \A k \in 1..Len(cells) :
            /\ cells[k].at = "disk" => k <= l[1] /\ k \notin l[2]
            /\ cells[k].at = "lost" /\ k <= l[1] => k \in l[2]}

AfterLoss(cells, l) ==
    [k \in 1..l[1] |-> IF k \in l[2] THEN Damaged("disk") ELSE [cells[k] EXCEPT !.at = "disk"]]

Survivors(cells) == {AfterLoss(cells, l) : l \in Losses(cells)}

(* The acknowledged records that the policy promises to keep through power  *)
(* loss: all of them, or under interval and os those of the last flush.     *)
Promised == {i \in DOMAIN acked : Policy = "always" \/ i <= flushedTo}

OnDisk(f) == \A k \in DOMAIN files[f] : files[f][k].at = "disk"

(* The machine loses power.  A file without a durable entry may be gone, a  *)
(* cut that was not flushed may be undone.                                  *)
PowerLoss ==
    LET exposed == {f \in DOMAIN files : ~OnDisk(f)} IN
    /\ "power" \in Faults
    /\ \E gone \in SUBSET (DOMAIN files \ linked), uncut \in SUBSET stale :
       \E after \in [exposed -> UNION {Survivors(files[f]) : f \in exposed}] :
        LET left(f) == IF f \in exposed THEN after[f] ELSE files[f] IN
        /\ \A f \in exposed : after[f] \in Survivors(files[f])
        /\ files' = [f \in DOMAIN files \ gone |->
                        IF f \in uncut THEN Append(left(f), Damaged("disk")) ELSE left(f)]
    /\ linked' = DOMAIN files'
    /\ stale' = {}
    /\ dirLinked' = TRUE
    /\ acked' = [i \in Promised |-> acked[i]]
    /\ ProcessGone
    /\ UNCHANGED flushedTo

(* The machine loses power and the log directory with it, whose own entry   *)
(* OpenLog's MkdirAll left unflushed.                                       *)
PowerLossOfDir ==
    /\ "power" \in Faults /\ ~dirLinked
    /\ files' = << >> /\ linked' = {} /\ stale' = {}
    /\ acked' = [i \in Promised |-> acked[i]]
    /\ ProcessGone
    /\ UNCHANGED <<dirLinked, flushedTo>>

-----------------------------------------------------------------------------
Init ==
    /\ files = << >> /\ linked = {} /\ stale = {} /\ dirLinked = DirDurable
    /\ status = "down"
    /\ segments = << >> /\ active = 0 /\ activeSize = 0 /\ lastIndex = 0
    /\ dirty = FALSE /\ failed = "none" /\ closed = FALSE
    /\ op = Idle
    /\ tick = FALSE /\ syncer = "none" /\ closer = [c \in Closers |-> "out"]
    /\ acked = << >> /\ flushedTo = 0

OpenLog ==
    \/ StartFirstSegment \/ FirstSegmentSynced \/ FirstSegmentFails
    \/ OpenClean \/ OpenTruncate \/ TruncateSynced \/ TruncateSyncFails
    \/ OpenRefused

(* The steps of the append that holds l.mu. *)
AppendStep ==
    \/ RotateFlush \/ RotateCreate \/ RotateCreateFails
    \/ RotateSyncDir \/ RotateSyncDirFails
    \/ WriteRecord \/ WriteFails \/ SyncRecord

Crash == Kill \/ PowerLoss \/ PowerLossOfDir

Next ==
    \/ OpenLog
    \/ \E cmd \in Commands : AppendStart(cmd)
    \/ AppendStep
    \/ TickerFires \/ SyncerTick \/ SyncerStop \/ syncIfDirty
    \/ \E c \in Closers : CloseBegin(c) \/ CloseFinish(c)
    \/ Exit
    \/ Crash

Spec == Init /\ [][Next]_vars

(* The goroutines run, the ticker ticks, a select that finds both of its    *)
(* channels ready picks either, and l.mu does not starve a waiter: Go's     *)
(* scheduler, select and sync.Mutex give this much.                         *)
FairSpec ==
    /\ Spec
    /\ WF_vars(AppendStep)
    /\ WF_vars(TickerFires) /\ WF_vars(SyncerTick)
    /\ SF_vars(SyncerStop) /\ SF_vars(syncIfDirty)
    /\ \A c \in Closers : SF_vars(CloseFinish(c))

-----------------------------------------------------------------------------
(* Properties *)

(* Record i of the open log, as Replay reads it, holds cmd. *)
Holds(i, cmd) ==
    \E f \in DOMAIN segments :
        /\ f <= i /\ i <= segments[f]
        /\ i - f + 1 <= Len(files[f])
        /\ files[f][i - f + 1].index = i /\ files[f][i - f + 1].cmd = cmd

(* OpenLog never drops a promised record in silence: damage in front of an  *)
(* intact record is refused, not cut off as a torn tail.                    *)
NoSilentLoss == status = "open" => \A i \in DOMAIN acked : Holds(i, acked[i])

(* Append's acknowledgement outlives crashes: an open log holds every       *)
(* acknowledged record the fsync policy promises to keep (all of them, or   *)
(* after power loss under interval and os those of the last flush), and     *)
(* OpenLog does not refuse a directory that has such records.               *)
AckedSurvive ==
    /\ NoSilentLoss
    /\ status = "refused" => DOMAIN acked = {}

(* OpenLog never calls what a crash or a failed call left behind corrupt.   *)
NeverRefused == status # "refused"

(* Records are numbered without gaps: the segments of an open log partition *)
(* the indices from the first record to lastIndex, as recover's checks and   *)
(* Append's numbering intend, and each record is where its index says.      *)
LogContiguous ==
    status = "open" =>
        /\ \A i \in 1..lastIndex : (\E f \in DOMAIN segments : f <= i) =>
            \E f \in DOMAIN segments :
                /\ f <= i /\ i <= segments[f]
                /\ i - f + 1 <= Len(files[f]) /\ files[f][i - f + 1].index = i
        /\ \A f, g \in DOMAIN segments : f < g => segments[f] < g
        /\ segments[active] = lastIndex

(* Once rotate has switched to a new segment, every earlier segment is on   *)
(* disk in full: nothing flushes it any more.                               *)
SealedOnDisk ==
    status = "open" =>
        \A f \in DOMAIN segments \ {active} : OnDisk(f)

(* rotate always finds the name of the next segment free: whatever crashes  *)
(* and failed calls left behind, createSegment's O_EXCL never meets a file  *)
(* of the log's own, which would leave a healthy log refusing appends.      *)
RotationUnblocked ==
    status = "open" /\ op.pc = "create" => lastIndex + 1 \notin DOMAIN files

(* A nil result of Close means the log is flushed, unless it had failed. *)
CloseFlushes ==
    \A c \in Closers : closer[c] = "nil" /\ failed = "none" =>
        \A f \in DOMAIN segments : OnDisk(f)

(* The index of an acknowledged record is never given to another command.   *)
AckedNeverReassigned ==
    [][\A i \in DOMAIN acked \cap DOMAIN acked' : acked'[i] = acked[i]]_vars

(* The background syncer, or Close, flushes every acknowledged record. *)
AckedEventuallyFlushed ==
    \A i \in 1..MaxIndex : (i \in DOMAIN acked) ~> (i <= flushedTo)

(* Close returns: it never waits for a syncer that waits for its lock. *)
CloseReturns ==
    \A c \in Closers : (closer[c] = "stop") ~> (closer[c] \in {"nil", "err"})
=============================================================================
