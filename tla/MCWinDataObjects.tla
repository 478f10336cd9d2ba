------------------------- MODULE MCWinDataObjects -------------------------
(* WinDataObjects for TLC.  Three objects: one published, its successor or   *)
(* the reading of another application's, and one more to replace it.         *)
EXTENDS WinDataObjects
=============================================================================
