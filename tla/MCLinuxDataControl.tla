------------------------ MODULE MCLinuxDataControl ------------------------
(* Instances of LinuxDataControl for TLC: a text, an image, an eager text. *)
EXTENDS LinuxDataControl

CONSTANTS txt, img, now

\* now is set at once, the others are delayed.  Files are served like text.
MCKind ==
  [k \in Key |-> IF k = img THEN "image" ELSE "text"]
=============================================================================
