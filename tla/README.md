# A TLA+ model of gokvx

gokvx is a key-value store under construction. What exists today is its storage
layer (a file-backed command log, the data directory marker, the engine
interface over Pebble), the clock, slot and error packages it builds on, and the
configuration. This directory holds TLA+ modules for it, TLC configurations
that check them on small instances, and proofs that TLAPS checks.

## Inventory

| Part | Source (under `src/`) | State | Operations | Who interacts |
|---|---|---|---|---|
| command log | `internal/storage/log.go`, `log_recovery.go`, `segment.go` | segment files, `segments`, `active`, `activeSize`, `lastIndex`, `dirty`, `failed`, `closed`, `stop`/`done` | `OpenLog`, `Append` (with `rotate`, `sync`), `Replay`, `LastIndex`, `Close`, `runSyncer` | appenders, the syncer, closers, the kernel and the disk |
| record codec | `internal/storage/record.go` | none | `encodeRecord`, `decodeRecord`, `hasLaterRecord` | the log |
| data directory marker | `internal/storage/version.go` | marker file, temporary file | `PrepareDataDir` | the kernel and the disk |
| storage engine | `internal/storage/engine.go`, `pebble.go`, `storagetest/` | database or map, `closed` | `Get`, `Apply`, `NewIterator`, `Close` | callers racing `Close` |
| clock | `internal/clock/clock.go`, `clocktest/fake.go` | time, tickers, one-tick channels | `Now`, `NewTicker`, `Advance`, `Stop` | the syncer |
| slots | `internal/shard/slot.go` | none | `HashInput`, `Slot` | every request path |
| errors | `internal/kverr` | reason registry | `New`, `Wrap`, `ReasonOf`, `Retryable` | everything |
| configuration | `internal/config` | layered settings | `Load`, `Validate`, `Warnings`, `Redacted` | `cmd/gokvx` |
| logging, command line | `internal/observability`, `cmd` | none | start-up and printing | users |
| RPC contract | `gen` | generated | none implemented | none yet |

The behaviours that are hard to test are all around the command log: power loss
at any step, a process killed between two system calls, an fsync that fails and
makes the kernel forget dirty pages, a rotation that fails half-way, a syncer
and several closers around one lock. `PROJECT.json` lists each at its line.

## Modules

| Module | What it is |
|---|---|
| `CommandLog` | the log, its files, the page cache and the disk; all properties of the log |
| `CommandLogInv` | the inductive invariant behind the durability of `always` |
| `CommandLogProofs` | lemmas on the operators, and type correctness |
| `CommandLogRecovery`, `CommandLogAppend`, `CommandLogDurability` | the invariant is inductive (`OpenLog` and power loss; `Append`; the rest), and what follows from it |
| `LogReplay` | `Replay` beside the rest of the log |
| `DataDir`, `DataDirProofs` | `PrepareDataDir` and the marker file; its theorems |
| `NodeStorage`, `NodeStorageProofs` | a data directory with its marker and its log, under one process and one machine; that it implements `DataDir` |
| `Engine` | `MemEngine` and `Pebble` side by side |
| `Config` | the sources of the configuration, `Load`, `Validate`, and an operator correcting it |
| `MCCommandLog`, `MCLogReplay`, `MCNodeStorage`, `MCEngine`, `MCConfig` | small values of the constants for TLC |

### CommandLog

A segment file is a sequence of *cells*, one per record. A cell has the index
and command a reader decodes (index 0 if it does not decode), the offset at which it
ends and where its bytes are: `"disk"`, `"dirty"` (page cache only) or `"lost"`
(the page cache has them, but a failed fsync made the kernel forget to write
them). `files` maps a first index to cells, as a reader of the file system sees
them; `linked` are the files whose directory entry is durable; `stale` the files
that `truncateTail` has cut without the cut being on disk.

The remaining variables are the fields of `Log`, the ticker's channel (`tick`),
the syncer's and the closers' program counters, and two ghosts: `acked` (every
acknowledged record) and `flushedTo` (the last index a successful flush
covered). `failed` is the sticky failure, with a value of its own for a failed
rotation, because then `l.active` is closed and `Close` fails as well. `Close`
may also fail to close the file although it was flushed.

`l.mu` is held while `op.pc # "idle"`. The steps of an append are separate
actions because the process or the machine may stop between them, not because
another goroutine may enter:

| Code | Actions |
|---|---|
| `OpenLog`, `recover`, `verifySegment` | `StartFirstSegment`, `FirstSegmentSynced`, `FirstSegmentFails`, `OpenClean`, `OpenRefused` |
| `truncateTail` | `OpenTruncate`, `TruncateSynced`, `TruncateSyncFails` |
| `Append` | `AppendStart`, `WriteRecord`, `WriteFails`, `SyncRecord` |
| `rotate`, `createSegment` | `RotateFlush`, `RotateCreate`, `RotateCreateFails`, `RotateSyncDir`, `RotateSyncDirFails` |
| `runSyncer`, `syncIfDirty` | `TickerFires`, `SyncerTick`, `SyncerStop`, `syncIfDirty` |
| `Close` | `CloseBegin`, `CloseFinish` |
| the environment | `Exit`, `Kill`, `PowerLoss`, `PowerLossOfDir` |

`Kill` ends the process and keeps the page cache. `PowerLoss` keeps every cell
on disk; a dirty cell survives, is damaged or is absent, in any combination; a
lost cell never survives intact; a file without a durable entry may be gone; a
cut that was not flushed may come back. The failures a run allows are the
constant `Faults`.

Abstracted: the bytes of a record (a cell decodes or it does not, which is what
the CRC decides), file names, error texts, log lines and contexts. Errors of
`ReadFile`, `OpenFile` and `Truncate` in recovery leave everything as it was and
are stuttering steps.

### LogReplay

`reader` is one goroutine in `Replay`. `ReplayStart` is the part under the lock;
`ReadSegment` reads a whole file, `ReplayRecord` is one turn of the loop, and
between any two of these steps the log may append, fail, rotate or close.
`owed` is a ghost: what was acknowledged when `Replay` was called. The reader
takes whatever the file holds when it reads it, half-written records included.

### DataDir and NodeStorage

`DataDir` has one action for each system call of `writeFileAtomic` and its
failure, one for `checkVersion` and one for the refusal in `initializeDataDir`.
A marker's content is whole, cut after the digit, empty, a page of zeros, or
another version's; only what was flushed before the rename is certain to be
there after power loss. A marker cut after the digit would still be accepted by
`checkVersion`, which trims white space. A process that starts twice on the same directory at the
same time is not modelled: nothing in the code excludes it.

`NodeStorage` puts `CommandLog` into such a directory. `OpenLog` runs only after
`PrepareDataDir` returned nil (`storage/doc.go:26`), and a kill or a power loss
hits both. No binary calls the two yet; the order is the one the package asks
of its callers.

The ghost `trusted` records that a start accepted a marker whose directory
entry a killed or failed start had not flushed. `checkVersion` does not flush
the directory, so power loss may then take the marker and leave the data, and
the next start refuses it. The properties except exactly this case.

### Engine

Each action makes one call on both engines and records both answers. The
`MemEngine` half is translated from its code. In the Pebble half `usable` and
`pebbleIterator` are translated, and the database below them is external: a
commit takes effect at once, and an iterator shows a snapshot. The database may
fail any call: `Get` fails; `Apply` fails before it commits, or reports a failed
commit that did or did not take effect; `NewIterator` fails; the database's
iterator cannot move (`First` or `Next` returns false, and only its `Error` says
why) or cannot fetch a value; either `Close` fails. A call that failed is made on
`MemEngine` only if it took effect all the same, so that later answers can be
compared. An iterator may be used past its end and past an error. `Close` is
called alone, as `engine.go:16` demands, and with no iterator open. What `sync`
makes durable is not modelled.

The ghost `asked` is computed from the database when the iterator is created, and
`seen` from what `Next`, `Key` and `Value` returned; `IterationExact` compares them
when `Next` has returned false and `Err` is nil.

### Config

A source maps keys to classes of values that no rule tells apart. `Load` layers
the sources, rejects unknown names and then wrong types; `Validate` is the union
of what its parts report. The operator edits the sources before the first run,
removes unknown names when told to, and gives every reported key a value that
is then not complained about, as often as something is reported. A key whose rule mentions no other key is
represented by another of its kind; an unreadable file is left out.

Definitions marked "Mutated" are plausible bugs: each stands in for the
definition that follows it in a run that must then fail, which shows that the
property of that run depends on the code being as it is.

## Properties and runs

| Run | Checks | Shows |
|---|---|---|
| `always_power` | `AckedSurvive`, `NeverRefused`, `SealedOnDisk`, `RecoveryInv`, `AckedNeverReassigned` | `always` keeps what it acknowledged, through power loss at any step, failed writes and failed creations |
| `no_silent_loss` | `NoSilentLoss` | with failed fsyncs and pages written back in any order, a log may be refused, but none opens without a record the last flush covered |
| `any_fault` | `TypeOK`, `LogContiguous` | with every fault at once, what `OpenLog` accepts is contiguous |
| `interval_live` | `SealedOnDisk`, `CloseFlushes`, `AckedEventuallyFlushed`, `CloseReturns` | the syncer and `Close` flush everything and do not wait for each other |
| `replay` | `AckedSurvive`, `NeverRefused`, `AckedNeverReassigned`, `RotationUnblocked`, `ReplayInOrder`, `ReplayComplete`, `ReplayNotMisled` | while the machine stays up, kills, failures and restarts lose nothing and never leave a file in the way of a rotation; a `Replay` without the lock returns what was there when it was called, and never takes the log's own writes for damage |
| `node_start` | `MarkerWhole`, `OnlyForeignRefused`, `RecordsReachable`, `ForeignUntouched` | no interrupted start leaves a partial marker or a directory that later starts refuse; acknowledged records lie under a durable marker |
| `engine` | `TypeOK`, `SameAnswers`, `IterationExact` | tests may use `MemEngine` for `Pebble`; an iteration whose `Err` is nil is complete, whatever the database failed to do |
| `config` | `UnauthenticatedOnlyLocally`, `LogConfigAccepted`, `FixedInOnePass`, `FixedInFourPasses` | the guards on running without authentication, agreement with `LogConfig.Validate`, when one round of corrections suffices, and that four always do |
| `kill_then_power` | `AckedSurvive`, violated | see below |
| `sync_failure_then_power` | `AckedSurvive`, violated | see below |
| `concurrent_close` | `CloseFlushes`, violated | see below |
| `kill_then_rotate` | `SealedOnDisk`, violated | see below |

Bounds. `MaxIndex` bounds the records of a behaviour. A segment takes two short
records and a long one is larger than a segment, so three records already give
two rotations, a segment that holds one oversized record and a segment that
holds two; `always_power` goes to five. Restarts, crashes and failures are not
bounded. Two closers suffice to race `Close`; the syncer is one goroutine. The
log's runs have no symmetry: commands differ in size. `replay` has three records,
hence up to three segments, and replays from 0 and from 2, which falls inside a
segment, on its end or on its start as the sizes vary. Its policy is `always`,
for the record that is written and not yet acknowledged; the page cache outlives
a kill, so the policy matters little, and the run also passes with `os`. `node_start` needs one record: its
properties relate the marker to whether there are records. `engine` has three
keys, so that an iteration has a middle and bounds may exclude one on either
side, two values and batches of two operations, so that one overwrites or
deletes what the other wrote; the two values are interchangeable. `config` starts from nothing, from the least a
production node needs and from a development setup, and adds any two settings
to any sources (`MaxExtra`), enough to make every rule between two keys hold or
fail in either of the last two.

Fairness (`FairSpec`). The append that holds the lock goes on, the ticker ticks,
and the syncer receives a tick that waits: weak fairness. A `select` with two
ready channels takes each of them infinitely often, and `sync.Mutex` hands the
lock to a goroutine that has waited for a millisecond, so `SyncerStop`,
`syncIfDirty` and `CloseFinish`, which are enabled again and again while others
hold the lock, get strong fairness. Nothing is assumed about callers: nobody has
to append or to close.

### Where code and documentation disagree

1. `kill_then_power`: a process killed between creating a segment and fsyncing
   its directory leaves a file that the next `OpenLog` accepts as it is. Records
   acknowledged into it are lost with the file when the power fails. A directory
   fsync that fails, followed by a restart, does the same.
2. `sync_failure_then_power`: a failed fsync makes the log refuse appends, but
   only until the process restarts; the record the kernel dropped is then read back from the page
   cache and appended to.
3. `concurrent_close`: a second `Close` returns nil before the first has flushed.
4. `kill_then_rotate`: `recover` starts with `dirty` false although the records it
   read may be in the page cache only, so after a kill the next rotation does not
   flush them (`storage-format.md:77` says that every policy flushes when a segment
   is rotated). Nor does the next `Close`: with `"kill"` among the faults of
   `interval_live`, `CloseFlushes` fails as well.

One more, of less weight, has no run of its own. `validate.go:15` says that all
violations are reported at once, "so an operator can fix a file in one pass";
`FixedInOnePass` holds only with the exceptions it names, such as a mistyped
`auth.mode` or `storage.fsync`, behind which other rules are skipped, or a zero
`heartbeat_ticks`, which satisfies the election rule. A development setup whose
environment becomes production takes three passes (`auth.mode`; then TLS and the
issuer; then the certificate names), and four scopes that are each given the
next one's name take four. `FixedInFourPasses` says that there is nothing worse,
and fails with three in place of four.

Three further assumptions of the passing runs are needed. With
`DirDurable = FALSE` `AckedSurvive` fails, because `OpenLog` creates the log
directory without fsyncing its parent. With power loss under `interval` or `os`
a later record may reach the disk before an earlier one, and `OpenLog` then
refuses the log (`NeverRefused` fails, `NoSilentLoss` does not). With write
errors under `interval`, `AckedEventuallyFlushed` fails, because a failed log is
never flushed again. Also, `recover` does not require the first segment to
start at 1, so `LogContiguous` speaks of the indices from the first segment on.

## Proofs

`TypeCorrect` holds for all values of the constants. The five theorems of
`CommandLogDurability` hold for all commands, sizes, segment sizes, closers and
bounds under `AlwaysFaults`: the policy is `always`, no fsync fails, the process
stops only with the machine or after `Close`, and the log directory's entry is
durable. Power loss at any step, failed and partial writes, and failed creations
are allowed. Dropping an assumption makes one of the violation runs apply.

| Theorem | States |
|---|---|
| `TypeCorrect` | `Spec => []TypeOK` |
| `AlwaysDurable` | `AlwaysFaults => (Spec => []AckedSurvive)` |
| `AlwaysOpens` | `AlwaysFaults => (Spec => []NeverRefused)` |
| `AlwaysSealed` | `AlwaysFaults => (Spec => []SealedOnDisk)` |
| `AlwaysRotates` | `AlwaysFaults => (Spec => []RotationUnblocked)` |
| `AlwaysNeverReassigned` | `AlwaysFaults => (Spec => AckedNeverReassigned)` |
| `MarkerAlwaysWhole`, `OwnDirAccepted`, `ForeignStaysUntouched` | `DataDir`'s `Spec` implies `MarkerWhole` and `OnlyForeignRefused` always, and `ForeignUntouched` |
| `NodeImplementsDataDir` | `NodeSpec` implies `DataDir`'s `Spec` |
| `NodeMarkerWhole`, `NodeDirAccepted` | the first two for `NodeSpec`, by the refinement |

`AckedSurvive` is not inductive: it speaks of open logs, and a crash closes
them. `AlwaysInv` carries it across: every cell but the final one of the last
segment is on disk and in sequence (`CellsInv`), an intact cell that is not on
disk is the one being synced (`SettledInv`), each segment is followed at once by
the next (`ChainInv`), a file without a durable entry is empty and last
(`LinkInv`), every acknowledged record is on disk (`AckedInv`), and memory
agrees with the files (`OpenInv`, `DownInv`). `Recoverable` then shows that
recovery finds a whole log or a torn tail, never corruption, and `PowerLossCells`
that power loss disturbs at most the final cell. The proof has a lemma per group
of actions, in `CommandLogRecovery`, `CommandLogAppend` and `CommandLogDurability`. `RecoveryInv`, which is `AlwaysInv` without the fact that there is a
last file, is an invariant of the run `always_power`.

The theorems of `DataDirProofs` and `NodeStorageProofs` assume nothing about
`Faults`. `DirInv` strengthens `MarkerWhole` with what is flushed at each step of
`writeFileAtomic` (`StartInv`, `MarkerInv`), and `OnlyForeignRefused` with
`DataHasMarker`, our data lying under a durable marker, and with the fact that a
foreign directory has no data of ours (`ForeignInv`). The refinement needs no
invariant: every step of the log leaves the directory's variables alone or
creates `log/`, and the exits, kills and power losses carry `DataDir`'s with them.

Only model-checked: liveness, which the prover does not treat; the properties
under `interval` and `os`; `LogContiguous`; `RecordsReachable`; everything about
`LogReplay`, `Engine` and `Config`.

## Plan

Done: the command log with `Replay`, the data directory, the engines, the
configuration. Left:

1. `RecordCodec`: encode, decode and the every-offset search over small byte
   alphabets, against a reference definition.
2. `DurableLog`: an abstract log (a sequence of records, a durable prefix, a
   crash that keeps at least the promised ones) which `CommandLog` implements;
   then its proof from `AlwaysInv`.
3. `Slot`, `FakeClock`, `KvErr`: pure operators and small machines.
4. `Engine`: what a crash leaves of batches applied with and without `sync`, and an
   abstract ordered map that both engines implement.
5. Proofs: `LogContiguous` for every fault set, `RecordsReachable`,
   `ReplayComplete` and `ReplayInOrder`, `UnauthenticatedOnlyLocally`, ranges and idempotence for `Slot`.

Not modelled: generated code, logging, printing and the stub commands, which
have no state; `syncdir_windows.go`, where `syncDir` does nothing and the
durability of directory entries is the file system's.
