------------------------- MODULE MCMacFileTransfer -------------------------
(* Instances of MacFileTransfer for TLC: a transfer of two files, one of    *)
(* them longer than the pipeline, and a transfer of an empty file.          *)
EXTENDS MacFileTransfer

CONSTANTS t1, t2, big, small, empty

MCTransferOf == [k \in Key |-> IF k = empty THEN t2 ELSE t1]

MCSize == [k \in Key |-> CASE k = big -> 3 [] k = small -> 1 [] k = empty -> 0]
=============================================================================
