-------------------------- MODULE MCMacPasteboard --------------------------
(* Instances of MacPasteboard for TLC: a text, files, a text set at once. *)
EXTENDS MacPasteboard

CONSTANTS txt, fls, now

MCKind == [k \in Key |-> IF k = fls THEN "files" ELSE "text"]
=============================================================================
