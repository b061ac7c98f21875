--------------------------------- MODULE Engine ---------------------------------
(***************************************************************************)
(* The two implementations of storage.Engine side by side: MemEngine, the   *)
(* one tests use (storagetest/memengine.go), and Pebble, the one nodes use  *)
(* (pebble.go).  Every call is made on both, and their answers compared.    *)
(*                                                                          *)
(* Keys are numbers, ordered as bytes.Compare orders keys.  Every call of   *)
(* either engine has one linearization point (a mutex in MemEngine, the     *)
(* database in Pebble), so a call is one step; Close runs alone and after   *)
(* the iterators are closed.  There is one iterator at a time.              *)
(*                                                                          *)
(* Pebble's database may fail any call, MemEngine's map cannot.  A call     *)
(* that fails is made on MemEngine only if it took effect all the same, so  *)
(* that the two engines hold the same data before the next call.            *)
(***************************************************************************)
EXTENDS Integers, Sequences, SequencesExt

CONSTANTS
    Keys, Values,
    Nil,        \* no value; as a bound, no bound; as an answer, not asked
    Failed,     \* the answer of a call that the database failed
    MaxBatch,   \* bound: the operations in a batch
    DbErrors    \* the database may fail

ASSUME EngineAssumption ==
    /\ Keys \subseteq Int
    /\ {Nil, Failed} \cap (Keys \cup Values) = {}
    /\ MaxBatch \in Nat /\ DbErrors \in BOOLEAN

VARIABLES
    data, memClosed,   \* MemEngine: e.data, e.closed
    memIt,             \* memIterator: entries and pos; no entries once released
    db, closed,        \* Pebble: the database (external), p.closed
    it,                \* pebbleIterator: started, value and err; and of the database's
                       \* iterator the snapshot, the key it is on and its error
    answer,            \* the last call and what each engine answered
    asked, seen, done  \* ghosts: what the iterator has to return, what it has
                       \* returned, and that Next last returned false

vars == <<data, memClosed, memIt, db, closed, it, answer, asked, seen, done>>

Stores == [Keys -> Values \cup {Nil}]
Bounds == Keys \cup {Nil}

(* Op, Batch.Set and Batch.Delete: a batch is its operations in order. *)
Ops == [key : Keys, value : Values, delete : {FALSE}]
       \cup [key : Keys, value : {Nil}, delete : {TRUE}]
Batches == UNION {[1..n -> Ops] : n \in 0..MaxBatch}

NoIter == [open |-> FALSE, entries |-> << >>, pos |-> 0]
NoPebbleIter == [open |-> FALSE, view |-> << >>, key |-> Nil, dbErr |-> FALSE,
                 started |-> FALSE, value |-> Nil, err |-> FALSE]
Entry == [key : Keys, value : Values]

TypeOK ==
    /\ data \in Stores /\ db \in Stores
    /\ memClosed \in BOOLEAN /\ closed \in BOOLEAN
    /\ memIt.open \in BOOLEAN /\ memIt.entries \in Seq(Entry)
    /\ memIt.pos \in -1..Len(memIt.entries)
    /\ it.open \in BOOLEAN /\ it.started \in BOOLEAN
    /\ DOMAIN it.view \subseteq Keys /\ it.view \in [DOMAIN it.view -> Values]
    /\ it.key \in DOMAIN it.view \cup {Nil} /\ it.value \in Values \cup {Nil}
    /\ it.err \in BOOLEAN /\ it.dbErr \in BOOLEAN

-----------------------------------------------------------------------------
(* MemEngine *)

(* usable: a closed engine answers so before ctx is looked at. *)
memUsable(canceled) ==
    IF memClosed THEN "closed" ELSE IF canceled THEN "canceled" ELSE "ok"

(* One turn of Apply's loop over b.Ops(). *)
memWrite(store, op) ==
    IF op.delete THEN [store EXCEPT ![op.key] = Nil] ELSE [store EXCEPT ![op.key] = op.value]

memApply(batch) == FoldLeft(memWrite, data, batch)

(* NewIterator's two continues. *)
memInBounds(k, lower, upper) ==
    /\ ~(lower # Nil /\ k < lower)
    /\ ~(upper # Nil /\ k >= upper)

(* NewIterator collects the entries in the map's order and sorts them. *)
memEntries(lower, upper) ==
    LET found == {k \in Keys : data[k] # Nil /\ memInBounds(k, lower, upper)}
    IN  SetToSortSeq({[key |-> k, value |-> data[k]] : k \in found},
                     LAMBDA x, y : x.key < y.key)

(* Mutated: Next moves on past the end. *)
memNextOn(i) == [i EXCEPT !.pos = @ + 1]

(* memIterator.Next; pos counts from 0, and from -1 before the first call. *)
memNext(i) == [i EXCEPT !.pos = IF @ < Len(i.entries) THEN @ + 1 ELSE @]

NoEntry == [key |-> Nil, value |-> Nil]

(* Mutated: the iterator looks values up in the map when it gets there. *)
memCurrentLive(i) ==
    IF i.pos < Len(i.entries)
    THEN [key |-> i.entries[i.pos + 1].key, value |-> data[i.entries[i.pos + 1].key]]
    ELSE NoEntry

(* Key and Value, of the entries NewIterator copied. *)
memCurrent(i) == IF i.pos < Len(i.entries) THEN i.entries[i.pos + 1] ELSE NoEntry

-----------------------------------------------------------------------------
(* Pebble *)

usable(canceled) ==
    IF closed THEN "closed" ELSE IF canceled THEN "canceled" ELSE "ok"

(* The database applies a committed batch at once (external): every key     *)
(* takes the value of the last operation on it.                             *)
Committed(store, batch) ==
    [k \in Keys |->
        LET on == {n \in DOMAIN batch : batch[n].key = k}
        IN  IF on = {} THEN store[k]
            ELSE batch[CHOOSE n \in on : \A m \in on : m <= n].value]

(* The bounds NewIterator passes to the database. *)
IterOptions(lower, upper) == [LowerBound |-> lower, UpperBound |-> upper]

(* NewIter (external): a snapshot of the entries within the bounds. *)
Snapshot(options) ==
    [k \in {j \in Keys : /\ db[j] # Nil
                         /\ options.LowerBound = Nil \/ options.LowerBound <= j
                         /\ options.UpperBound = Nil \/ j < options.UpperBound}
        |-> db[k]]

(* First, or Next of the database's iterator once it is on a key (external): *)
(* the keys it may move on to, none once it has met an error.                *)
Ahead(i) ==
    IF i.dbErr THEN {}
    ELSE IF i.started THEN {k \in DOMAIN i.view : i.key < k}
    ELSE DOMAIN i.view

(* pebbleIterator.Next.  fault is what the database fails to do: "none", to *)
(* "move", whereupon First or Next returns false, or to fetch the "value".  *)
pebbleNext(i, fault) ==
    LET ok == fault # "move" /\ Ahead(i) # {}
        key == CHOOSE k \in Ahead(i) : \A j \in Ahead(i) : k <= j
        here == [i EXCEPT !.started = TRUE, !.dbErr = @ \/ fault = "move"]
    IN  IF ~ok THEN [iter |-> here, more |-> FALSE]
        ELSE IF fault = "value"
        THEN [iter |-> [here EXCEPT !.key = key, !.err = TRUE], more |-> FALSE]
        ELSE [iter |-> [here EXCEPT !.key = key, !.value = i.view[key]], more |-> TRUE]

(* Mutated: Err knows only the values that could not be fetched. *)
ErrOfValues(i) == i.err

(* pebbleIterator.Err: a value that could not be fetched, or the error the  *)
(* database's iterator has accumulated.                                     *)
Err(i) == i.err \/ i.dbErr

-----------------------------------------------------------------------------
(* The calls *)

Answers(call, mem, pebble) == answer' = [call |-> call, mem |-> mem, pebble |-> pebble]

(* The database fails to read, or to release what it read. *)
Get(k, canceled, fails) ==
    LET mem == memUsable(canceled)
        pebble == usable(canceled) IN
    /\ fails => DbErrors /\ pebble = "ok"
    /\ IF fails THEN Answers("get", Nil, Failed)
       ELSE Answers("get", IF mem = "ok" THEN data[k] ELSE mem,
                           IF pebble = "ok" THEN db[k] ELSE pebble)
    /\ UNCHANGED <<data, memClosed, memIt, db, closed, it, asked, seen, done>>

(* The database fails to build the batch, which then has no effect, or      *)
(* reports that the commit failed, which may have taken effect.             *)
Apply(canceled, fails) ==
    LET mem == memUsable(canceled)
        pebble == usable(canceled) IN
    /\ fails => DbErrors /\ pebble = "ok"
    /\ \/ /\ "ok" \in {mem, pebble}
          /\ \E batch \in Batches :
              /\ data' = IF mem = "ok" THEN memApply(batch) ELSE data
              /\ db' = IF pebble = "ok" THEN Committed(db, batch) ELSE db
       \/ /\ fails \/ "ok" \notin {mem, pebble}
          /\ UNCHANGED <<data, db>>
    /\ Answers("apply", IF fails THEN Nil ELSE mem, IF fails THEN Failed ELSE pebble)
    /\ UNCHANGED <<memClosed, memIt, closed, it, asked, seen, done>>

NewIterator(lower, upper, canceled, fails) ==
    LET mem == IF fails THEN Nil ELSE memUsable(canceled)
        pebble == IF fails THEN Failed ELSE usable(canceled) IN
    /\ ~memIt.open /\ ~it.open
    /\ fails => DbErrors /\ usable(canceled) = "ok"
    /\ memIt' = IF mem = "ok"
                THEN [open |-> TRUE, entries |-> memEntries(lower, upper), pos |-> -1]
                ELSE memIt
    /\ it' = IF pebble = "ok"
             THEN [NoPebbleIter EXCEPT !.open = TRUE,
                                       !.view = Snapshot(IterOptions(lower, upper))]
             ELSE it
    /\ asked' = IF pebble = "ok"
                THEN {e \in Entry : /\ db[e.key] = e.value
                                    /\ lower # Nil => lower <= e.key
                                    /\ upper # Nil => e.key < upper}
                ELSE asked
    /\ Answers("iterator", mem, pebble)
    /\ UNCHANGED <<data, memClosed, db, closed, seen, done>>

(* Next, then Key and Value if it returned true.  It may be called again    *)
(* after it has returned false.                                             *)
IterNext(fault) ==
    LET mem == memCurrent(memNext(memIt))
        next == pebbleNext(it, fault)
        pebble == IF next.more THEN [key |-> next.iter.key, value |-> next.iter.value]
                  ELSE NoEntry IN
    /\ memIt.open /\ it.open
    /\ fault # "none" => DbErrors
    /\ fault = "value" => Ahead(it) # {}
    /\ memIt' = memNext(memIt)
    /\ it' = next.iter
    /\ seen' = IF next.more THEN Append(seen, pebble) ELSE seen
    /\ done' = ~next.more
    /\ Answers("next", mem, pebble)
    /\ UNCHANGED <<data, memClosed, db, closed, asked>>

(* The database may fail to release its iterator, which is gone anyway. *)
IterClose(fails) ==
    /\ memIt.open /\ it.open
    /\ fails => DbErrors
    /\ memIt' = NoIter /\ it' = NoPebbleIter
    /\ asked' = {} /\ seen' = << >> /\ done' = FALSE
    /\ Answers("iterClose", "ok", IF fails THEN Failed ELSE "ok")
    /\ UNCHANGED <<data, memClosed, db, closed>>

(* Close, of MemEngine discarding the data; closing twice is harmless.  The *)
(* database may fail to close, and p.closed is set all the same.            *)
Close(fails) ==
    /\ ~memIt.open /\ ~it.open
    /\ fails => DbErrors /\ ~closed
    /\ memClosed' = TRUE /\ data' = [k \in Keys |-> Nil]
    /\ closed' = TRUE
    /\ Answers("close", "ok", IF fails THEN Failed ELSE "ok")
    /\ UNCHANGED <<memIt, db, it, asked, seen, done>>

-----------------------------------------------------------------------------
(* NewMemEngine, and OpenPebble on a new directory. *)
Init ==
    /\ data = [k \in Keys |-> Nil] /\ memClosed = FALSE /\ memIt = NoIter
    /\ db = [k \in Keys |-> Nil] /\ closed = FALSE /\ it = NoPebbleIter
    /\ answer = [call |-> "open", mem |-> "ok", pebble |-> "ok"]
    /\ asked = {} /\ seen = << >> /\ done = FALSE

Next ==
    \/ \E k \in Keys, canceled, fails \in BOOLEAN : Get(k, canceled, fails)
    \/ \E canceled, fails \in BOOLEAN : Apply(canceled, fails)
    \/ \E lower, upper \in Bounds, canceled, fails \in BOOLEAN :
        NewIterator(lower, upper, canceled, fails)
    \/ \E fault \in {"none", "move", "value"} : IterNext(fault)
    \/ \E fails \in BOOLEAN : IterClose(fails) \/ Close(fails)

Spec == Init /\ [][Next]_vars

-----------------------------------------------------------------------------
(* Tests may stand MemEngine in for Pebble: after any sequence of calls the *)
(* two give the same answers, errors for closed engines and canceled        *)
(* contexts and the old values of an open iterator included; except to a    *)
(* call that the database failed, and in an iteration whose Err tells so.   *)
SameAnswers == Err(it) \/ answer.pebble = Failed \/ answer.mem = answer.pebble

(* Next returning false is the end only if Err is nil: an iteration that    *)
(* ends so has returned every key in [lower, upper) with the value it had   *)
(* when the iterator was created, in ascending order, whatever batches were *)
(* applied meanwhile and whatever the database failed to do.                *)
IterationExact ==
    /\ \A n \in 2..Len(seen) : seen[n - 1].key < seen[n].key
    /\ done /\ ~Err(it) => {seen[n] : n \in DOMAIN seen} = asked
=============================================================================
