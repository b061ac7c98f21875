----------------------------- MODULE MCLogReplay -----------------------------
(* LogReplay on the instances of MCCommandLog: replay from the beginning,   *)
(* as recovery does, and from inside the log.                               *)
EXTENDS MCCommandLog, LogReplay

MCFrom == {0, 2}
=============================================================================
