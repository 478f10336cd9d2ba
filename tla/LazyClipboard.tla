---------------------------- MODULE LazyClipboard ----------------------------
(***************************************************************************)
(* What a clipboard whose contents come later promises to the              *)
(* applications: contents are announced one after another; a paste begins  *)
(* on some announcement, and is answered once, with nothing or with what   *)
(* was announced then or since, at once where the bytes are at hand.       *)
(* Threads, events, sources, requests and timeouts belong to the backends  *)
(* that implement it.                                                      *)
(***************************************************************************)
EXTENDS Naturals, Sequences

CONSTANTS Content, Nothing, Paste

VARIABLES
  announced,  \* the contents, in the order of their announcement
  paste       \* for each paste: its state, the announcement it began on, its answer

vars == <<announced, paste>>

Init ==
  /\ announced = <<>>
  /\ paste = [p \in Paste |-> [pc |-> "none", on |-> 0, answer |-> Nothing]]

Announce ==
  /\ \E c \in Content : announced' = Append(announced, c)
  /\ UNCHANGED paste

Begin(p) ==
  /\ paste[p].pc = "none"
  /\ \E i \in 1..Len(announced) :
       paste' = [paste EXCEPT ![p] = [pc |-> "open", on |-> i, answer |-> Nothing]]
  /\ UNCHANGED announced

\* What may be answered to a paste that began on announcement i.
Answers(i) == {Nothing} \cup {announced[j] : j \in i..Len(announced)}

Answer(p) ==
  /\ paste[p].pc = "open"
  /\ \E c \in Answers(paste[p].on) :
       paste' = [paste EXCEPT ![p] = [pc |-> "done", on |-> paste[p].on, answer |-> c]]
  /\ UNCHANGED announced

\* A paste of bytes that are at hand ends as it begins.
Serve(p) ==
  /\ paste[p].pc = "none"
  /\ \E i \in 1..Len(announced) : \E c \in Answers(i) :
       paste' = [paste EXCEPT ![p] = [pc |-> "done", on |-> i, answer |-> c]]
  /\ UNCHANGED announced

Next == Announce \/ \E p \in Paste : Begin(p) \/ Answer(p) \/ Serve(p)

Spec == Init /\ [][Next]_vars
=============================================================================
