-------------------------- MODULE MCWinFileStream --------------------------
(* Small instances of WinFileStream for TLC. *)
EXTENDS WinFileStream, TLC

CONSTANTS h1, h2

\* One file is open, and s2 can become a clone of s1, or two files are.
OneOrTwoFiles == {"s1" :> "f1", ("s1" :> "f1") @@ ("s2" :> "f2")}
=============================================================================
