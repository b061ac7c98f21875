------------------------------- MODULE LogReplay -------------------------------
(***************************************************************************)
(* Log.Replay, reading the files of CommandLog while appends, rotations,    *)
(* the syncer and Close go on: Replay holds l.mu only while it copies       *)
(* l.segments and l.lastIndex.  There is one replaying goroutine; Replay    *)
(* changes nothing that another one could see.                              *)
(***************************************************************************)
EXTENDS CommandLog

CONSTANT FromIndices   \* the values of Replay's parameter from

ASSUME FromAssumption == FromIndices \subseteq Nat

VARIABLE reader
(* pc:   "idle", "segment" (between segments), "record" (in replaySegment), *)
(*       and the outcomes "done", "stopped" (an error) and "changed".   *)
(* segs, last: the copies taken under the lock; seg, data, want: the        *)
(* segment in hand, what ReadFile returned and the record expected next.    *)
(* seen: the records fn was called with.  owed: ghost, what was             *)
(* acknowledged when Replay was called.                                     *)

replayVars == <<vars, reader>>

NoReader == [pc |-> "idle", from |-> 0, segs |-> << >>, last |-> 0, seg |-> 0,
             data |-> << >>, want |-> 0, seen |-> << >>, owed |-> << >>]

(* Replay's locked part. *)
ReplayStart(from) ==
    /\ status \in {"open", "closed"} /\ Unlocked
    /\ reader.pc = "idle"
    /\ reader' = [NoReader EXCEPT
         !.pc = "segment", !.from = from, !.segs = segments, !.last = lastIndex,
         !.owed = [i \in {j \in DOMAIN acked : from <= j} |-> acked[i]]]
    /\ UNCHANGED vars

(* Mutated: a segment that ends at from is skipped. *)
RemainingBeyond ==
    {f \in DOMAIN reader.segs :
        f > reader.seg /\ reader.segs[f] > reader.from /\ f <= reader.last}

(* The segments Replay still has to read; it skips the others. *)
Remaining ==
    {f \in DOMAIN reader.segs :
        f > reader.seg /\ reader.segs[f] >= reader.from /\ f <= reader.last}

(* replaySegment reads the whole file of the next segment at once. *)
ReadSegment ==
    /\ reader.pc = "segment" /\ Remaining # {}
    /\ \E f \in Remaining :
        /\ \A g \in Remaining : f <= g
        /\ reader' = [reader EXCEPT !.pc = "record", !.seg = f, !.data = files[f], !.want = f]
    /\ UNCHANGED vars

ReplayDone ==
    /\ reader.pc = "segment" /\ Remaining = {}
    /\ reader' = [reader EXCEPT !.pc = "done"]
    /\ UNCHANGED vars

(* Mutated: the loop runs to the end of the file. *)
WantsAll == reader.want <= reader.seg + Len(reader.data) - 1

(* The loop's condition: want <= min(seg.last, last). *)
Wants == reader.want <= reader.segs[reader.seg] /\ reader.want <= reader.last

(* One turn of replaySegment's loop. *)
ReplayRecord ==
    LET k == reader.want - reader.seg + 1
        intact == k <= Len(reader.data) /\ reader.data[k].index = reader.want IN
    /\ reader.pc = "record" /\ Wants
    /\ reader' =
         IF ~intact THEN [reader EXCEPT !.pc = "changed"]
         ELSE [reader EXCEPT !.want = @ + 1,
                             !.seen = IF reader.want >= reader.from
                                      THEN Append(@, reader.data[k]) ELSE @]
    /\ UNCHANGED vars

SegmentDone ==
    /\ reader.pc = "record" /\ ~Wants
    /\ reader' = [reader EXCEPT !.pc = "segment", !.data = << >>, !.want = 0]
    /\ UNCHANGED vars

(* The segment cannot be read, fn fails, or ctx is done when the loop looks. *)
ReplayStops ==
    /\ \/ reader.pc = "segment" /\ Remaining # {}
       \/ reader.pc = "record" /\ Wants
    /\ reader' = [reader EXCEPT !.pc = "stopped"]
    /\ UNCHANGED vars

(* The caller is done with the outcome. *)
ReplayReturns ==
    /\ reader.pc \in {"done", "stopped", "changed"}
    /\ reader' = NoReader
    /\ UNCHANGED vars

(* A step of the rest of the system; the goroutine dies with its process. *)
LogStep ==
    /\ Next
    /\ reader' = IF status' = "down" THEN NoReader ELSE reader

ReplayInit == Init /\ reader = NoReader

ReplayNext ==
    \/ LogStep
    \/ \E from \in FromIndices : ReplayStart(from)
    \/ ReadSegment \/ ReplayRecord \/ SegmentDone \/ ReplayDone
    \/ ReplayStops \/ ReplayReturns

ReplaySpec == ReplayInit /\ [][ReplayNext]_replayVars

-----------------------------------------------------------------------------
(* fn is called with consecutive records, the first being from or the first *)
(* of the log, none beyond the last one present when Replay was called.     *)
ReplayInOrder ==
    \A k \in DOMAIN reader.seen :
        /\ reader.seen[k].index <= reader.last
        /\ k = 1 => reader.seen[k].index = IF reader.from = 0 THEN 1 ELSE reader.from
        /\ k > 1 => reader.seen[k].index = reader.seen[k - 1].index + 1

(* A Replay that returns nil has passed to fn every record acknowledged     *)
(* before it was called, with the command that was acknowledged, whatever   *)
(* was appended, failed or closed meanwhile.                                *)
ReplayComplete ==
    reader.pc = "done" =>
        \A i \in DOMAIN reader.owed :
            \E k \in DOMAIN reader.seen :
                reader.seen[k].index = i /\ reader.seen[k].cmd = reader.owed[i]

(* What the log itself does to its files under a running Replay never makes *)
(* it report that a segment changed on disk.                                *)
ReplayNotMisled == reader.pc # "changed"
=============================================================================
