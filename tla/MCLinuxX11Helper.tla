------------------------- MODULE MCLinuxX11Helper -------------------------
(* A text that fits in a frame and one that does not, a delayed text and a *)
(* delayed picture.                                                        *)
EXTENDS LinuxX11Helper

CONSTANTS hi, huge, doc, pic
=============================================================================
