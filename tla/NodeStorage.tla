------------------------------ MODULE NodeStorage ------------------------------
(***************************************************************************)
(* A node's data directory: its marker (DataDir) and the command log in     *)
(* its log/ subdirectory (CommandLog), under one process and one machine.   *)
(* PrepareDataDir runs before anything else in the directory is read; what  *)
(* ends the process or the machine hits both.                               *)
(***************************************************************************)
EXTENDS CommandLog

VARIABLES pc, tmp, tmpDisk, marker, markDisk, linkedMarker, data, trusted

dirVars == <<pc, tmp, tmpDisk, marker, markDisk, linkedMarker, data, trusted>>
nodeVars == <<vars, dirVars>>

D == INSTANCE DataDir WITH linked <- linkedMarker

Preparing ==
    /\ D!PrepareDataDir
    /\ UNCHANGED vars

(* OpenLog and everything after it, once the directory is prepared.         *)
(* OpenLog's MkdirAll creates log/ if it is not there.                      *)
LogStep ==
    /\ pc = "ready"
    /\ \/ OpenLog
       \/ \E cmd \in Commands : AppendStart(cmd)
       \/ AppendStep
       \/ TickerFires \/ SyncerTick \/ SyncerStop \/ syncIfDirty
       \/ \E c \in Closers : CloseBegin(c) \/ CloseFinish(c)
    /\ IF data = "none" THEN D!CreateData ELSE UNCHANGED dirVars

(* The process exits: refused, or before it opens or after it closes the log. *)
NodeExit ==
    /\ D!Exit
    /\ Exit \/ (status = "down" /\ UNCHANGED vars)

NodeKill ==
    /\ D!Kill
    /\ Kill \/ (status \in {"down", "closed", "refused"} /\ ProcessGone
                /\ UNCHANGED <<diskVars, ghostVars>>)

(* log/ survives, or its entry is lost with all that is in it; the engine's *)
(* directory may be there all the same.                                     *)
NodePowerLoss ==
    /\ D!PowerLoss
    /\ (PowerLoss /\ data' = data) \/ PowerLossOfDir

NodeInit == Init /\ D!Init

NodeNext == Preparing \/ LogStep \/ NodeExit \/ NodeKill \/ NodePowerLoss

NodeSpec == NodeInit /\ [][NodeNext]_nodeVars

-----------------------------------------------------------------------------
(* The properties of DataDir, in a directory that a log lives in. *)

(* writeFileAtomic: a marker that exists is complete, whatever happens. *)
MarkerWhole == D!MarkerWhole

(* PrepareDataDir refuses no directory that earlier starts left behind.  *)
OnlyForeignRefused == D!OnlyForeignRefused

(* A directory of somebody else's is never changed. *)
ForeignUntouched == D!ForeignUntouched

(* Acknowledged records lie under a durable marker, so that the next start  *)
(* gets as far as OpenLog; or else a start built on an unflushed marker.    *)
RecordsReachable ==
    DOMAIN acked # {} /\ DOMAIN files # {} =>
        trusted \/ (marker = "whole" /\ linkedMarker /\ data = "ours")
=============================================================================
