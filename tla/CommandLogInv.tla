---------------------------- MODULE CommandLogInv ----------------------------
(* The inductive invariant behind the durability of the always policy when  *)
(* the machine may lose power at any step and writes and file creations may *)
(* fail.  AlwaysInv is inductive under AlwaysFaults; CommandLogDurability    *)
(* shows it for every value of the constants.                               *)
EXTENDS CommandLog

(* What the theorem assumes of the environment: no fsync fails, the process *)
(* stops only with the machine or after Close, and the log directory's own  *)
(* entry was durable to begin with.                                         *)
AlwaysFaults ==
    /\ Policy = "always"
    /\ Faults \cap {"kill", "syncErr", "dirErr"} = {}
    /\ DirDurable

IsLast(f) == \A g \in DOMAIN files : g <= f

(* There is a last segment. *)
Bounded == \E b \in Nat : \A f \in DOMAIN files : f <= b

(* The files that a step in progress is about to use exist. *)
Opening ==
    /\ status \in {"firstSegment", "truncating"} => DOMAIN files # {}
    /\ op.pc = "syncDir" => lastIndex + 1 \in DOMAIN files

InSequence(f, k) == files[f][k].index = f + k - 1

Clean(f) == \A k \in 1..Len(files[f]) : InSequence(f, k) /\ files[f][k].at = "disk"

(* Only the final cell of the last segment may be damaged or not on disk. *)
CellsInv ==
    \A f \in DOMAIN files : \A k \in 1..Len(files[f]) :
        \/ InSequence(f, k) /\ files[f][k].at = "disk"
        \/ /\ IsLast(f) /\ k = Len(files[f])
           /\ files[f][k].at # "lost"
           /\ InSequence(f, k) \/ files[f][k].index = 0

(* An intact record that is not on disk is the one being synced. *)
SettledInv ==
    op.pc # "sync" =>
        \A f \in DOMAIN files : \A k \in 1..Len(files[f]) :
            files[f][k].index # 0 => files[f][k].at = "disk"

(* Each segment but the last is followed at once by the next. *)
ChainInv ==
    \A f, g \in DOMAIN files : f < g =>
        /\ Len(files[f]) > 0
        /\ f + Len(files[f]) \in DOMAIN files
        /\ f + Len(files[f]) <= g

(* A file whose entry is not durable is new and empty. *)
LinkInv ==
    \A f \in DOMAIN files \ linked :
        /\ files[f] = << >> /\ IsLast(f)
        /\ status = "firstSegment" \/ op.pc = "syncDir"

StaleInv == \A f \in stale : status = "truncating" /\ IsLast(f)

(* File f holds record i with command cmd on disk. *)
DurableIn(f, i, cmd) ==
    /\ i - f + 1 \in 1..Len(files[f])
    /\ files[f][i - f + 1].index = i /\ files[f][i - f + 1].cmd = cmd
    /\ files[f][i - f + 1].at = "disk"

(* Every acknowledged record is on disk. *)
AckedInv ==
    \A i \in DOMAIN acked : \E f \in DOMAIN files : DurableIn(f, i, acked[i])

(* A process that has not opened the log has nothing in memory, the log is  *)
(* never refused, and only a record about to be synced is dirty.            *)
DownInv ==
    /\ status \notin {"open", "closed"} =>
        dirty = FALSE /\ failed = "none" /\ closed = FALSE /\ op = Idle
    /\ status = "firstSegment" => DOMAIN files = {1} /\ files[1] = << >>
    /\ status = "truncating" => \A f \in DOMAIN files : Clean(f)
    /\ status # "refused"
    /\ dirLinked
    /\ dirty = TRUE <=> op.pc = "sync"

(* The records of the active segment that count. *)
Count == lastIndex - active + 1

(* What the open Log knows of its files. *)
OpenInv ==
    status = "open" =>
        /\ DOMAIN files = IF op.pc = "syncDir" THEN DOMAIN segments \cup {lastIndex + 1}
                                               ELSE DOMAIN segments
        /\ \A f \in DOMAIN segments : f <= active
        /\ \A f \in DOMAIN segments \ {active} : segments[f] = f + Len(files[f]) - 1
        /\ segments[active] = lastIndex
        /\ Count >= 0
        /\ op.pc # "idle" => failed = "none"
        /\ op.pc \in {"rotate", "create", "syncDir"} => Count > 0
        /\ op.pc = "syncDir" => files[lastIndex + 1] = << >>
        /\ Count = 0 /\ op.pc # "sync" => activeSize = 0 \/ failed # "none"
        /\ IF op.pc = "sync"
           THEN /\ Len(files[active]) = Count + 1
                /\ InSequence(active, Count + 1)
                /\ files[active][Count + 1].cmd = op.cmd
                /\ files[active][Count + 1].at = "dirty"
           ELSE \/ Len(files[active]) = Count /\ Clean(active)
                \/ /\ Len(files[active]) = Count + 1 /\ failed # "none"
                   /\ files[active][Count + 1].index = 0

(* What every reachable state of the log and its files satisfies ... *)
RecoveryInv ==
    /\ TypeOK /\ Opening
    /\ CellsInv /\ SettledInv /\ ChainInv /\ LinkInv /\ StaleInv
    /\ AckedInv /\ DownInv /\ OpenInv

(* ... and with it that recovery finds a last segment. *)
AlwaysInv == Bounded /\ RecoveryInv
=============================================================================
