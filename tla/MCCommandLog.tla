----------------------------- MODULE MCCommandLog -----------------------------
(* Small instances of CommandLog.  With SegmentBytes = 2 a segment takes    *)
(* two short records; a long record is larger than a segment and has one to *)
(* itself.                                                                  *)
EXTENDS CommandLogInv

MCCommands == {"short", "long"}
MCSize == [c \in MCCommands |-> IF c = "short" THEN 1 ELSE 3]
MCNone == "none"
===============================================================================
