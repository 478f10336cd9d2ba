------------------------ MODULE MCWinDelayedRender ------------------------
(* Instances of WinDelayedRender for TLC: a few contents of each type. *)
EXTENDS WinDelayedRender

CONSTANTS txt1, txt2, img1, vfile

\* The types of the contents; each run uses some of them.
MCContentType ==
  [h \in Hash |-> CASE h \in {txt1, txt2} -> "text"
                    [] h = img1           -> "image"
                    [] h = vfile          -> "files"]

\* Two texts, so that a late answer can have the type of what is pending; an
\* image, for the formats that share an answer; virtual files.
AllContents == {txt1, txt2, img1, vfile}
TextImage == {txt1, img1}

AllFrames == ParentKinds

\* Without what leaves a waiter to its deadline although the parent answers:
\* an empty answer, a repeated announcement, a dropped one.
LiveFrames == {"ANNOUNCE", "PROVIDE", "SET", "GET"}
=============================================================================
