------------------------ MODULE WinFileStreamProofs ------------------------
(***************************************************************************)
(* Proofs about WinFileStream, for any number of files, streams and        *)
(* handles, any size and any number of nested calls: type correctness,     *)
(* ReadAtCursor, CompleteAtEof and NoLostWakeup.                           *)
(*                                                                         *)
(* CompleteAtEof is a fact about positions: a consumer that never sought   *)
(* has copied as many bytes as pos_ says, and no call asks for more than   *)
(* is left behind its own offset (CursorInv).  NoLostWakeup needs to know  *)
(* whose event is about to be set: a call is known by its number, which,   *)
(* unlike its handle, is not used again (IdInv).                           *)
(***************************************************************************)
EXTENDS WinFileStream, SequenceTheorems, TLAPS

\* Where the streams are and what the calls in flight ask for.
CursorInv ==
  /\ \A s \in Streams : copied[s] # -1 => copied[s] = pos[s]
  /\ \A d \in 1..Depth :
       /\ stack[d].stream \in DOMAIN file
       /\ pos[stack[d].stream] <= FileSize
       /\ stack[d].offset + stack[d].want <= FileSize

\* Calls are numbered, and an event about to be set is its call's.
IdInv ==
  /\ \A d \in 1..Depth : stack[d].id <= calls
  /\ \A d, e \in 1..Depth : d # e => stack[d].id # stack[e].id
  /\ \A g \in signals : g.id <= calls
  /\ \A g \in signals, d \in 1..Depth : g.id = stack[d].id => g.event = stack[d].event

\* An answered or cancelled call, wherever it is, has its event set, or the
\* main thread is about to.
WakeInv ==
  \A d \in 1..Depth :
    stack[d].received \/ stack[d].cancelled =>
      stack[d].event \in signalled \/ \E g \in signals : g.id = stack[d].id

IInv == TypeOK /\ CursorInv /\ IdInv /\ WakeInv /\ ReadAtCursor /\ CompleteAtEof
-----------------------------------------------------------------------------
(* The stack of calls. *)

\* The innermost call, and what is left when it returns.
LEMMA Popped ==
  ASSUME stack \in Seq(Call), Depth > 0
  PROVE  /\ Depth \in Nat /\ Depth \in 1..Depth /\ Top \in Call /\ Top = stack[Depth]
         /\ SubSeq(stack, 1, Depth - 1) \in Seq(Call)
         /\ Len(SubSeq(stack, 1, Depth - 1)) = Depth - 1
         /\ \A d \in 1..(Depth - 1) : /\ d \in 1..Depth /\ d # Depth
                                      /\ SubSeq(stack, 1, Depth - 1)[d] = stack[d]
         /\ \A d \in 1..Depth : d = Depth \/ d \in 1..(Depth - 1)
<1> DEFINE n == Depth
           t == SubSeq(stack, 1, n - 1)
<1>1. n \in Nat /\ n > 0 BY LenProperties DEF Depth
<1>2. \A d \in 1..n : stack[d] \in Call BY ElementOfSeq DEF Depth
<1>3. Top = stack[n] BY DEF Top
<1> HIDE DEF n
<1>4. n - 1 \in Int /\ \A d \in 1..(n - 1) : stack[d] \in Call BY <1>1, <1>2
<1>5. /\ t \in Seq(Call) /\ Len(t) = IF 1 <= n - 1 THEN (n - 1) - 1 + 1 ELSE 0
      /\ \A d \in 1..((n - 1) - 1 + 1) : t[d] = stack[1 + d - 1]
  BY <1>4, SubSeqProperties
<1> HIDE DEF t
<1>6. Len(t) = n - 1 BY <1>1, <1>5
<1>7. \A d \in 1..(n - 1) : d \in 1..n /\ d # n /\ t[d] = stack[d]
  <2> TAKE d \in 1..(n - 1)
  <2>1. d \in 1..((n - 1) - 1 + 1) /\ 1 + d - 1 = d /\ d \in 1..n /\ d # n BY <1>1
  <2>2. t[d] = stack[1 + d - 1] BY <1>5, <2>1
  <2> QED BY <2>1, <2>2
<1>8. n \in 1..n /\ \A d \in 1..n : d = n \/ d \in 1..(n - 1) BY <1>1
<1>9. Top \in Call BY <1>2, <1>3, <1>8
<1> QED BY <1>1, <1>3, <1>5, <1>6, <1>7, <1>8, <1>9 DEF n, t

\* A call is begun.
LEMMA Pushed ==
  ASSUME stack \in Seq(Call), NEW c \in Call
  PROVE  /\ Append(stack, c) \in Seq(Call) /\ Len(Append(stack, c)) = Depth + 1
         /\ Depth \in Nat /\ Append(stack, c)[Depth + 1] = c
         /\ \A d \in 1..Depth : Append(stack, c)[d] = stack[d] /\ d \in 1..(Depth + 1)
         /\ \A d \in 1..(Depth + 1) : d = Depth + 1 \/ d \in 1..Depth
<1> DEFINE n == Depth
<1>1. /\ Append(stack, c) \in Seq(Call) /\ Len(Append(stack, c)) = n + 1
      /\ \A d \in 1..n : Append(stack, c)[d] = stack[d]
      /\ Append(stack, c)[n + 1] = c
  BY AppendProperties DEF Depth
<1>2. n \in Nat BY LenProperties DEF Depth
<1> HIDE DEF n
<1>3. \A d \in 1..(n + 1) : d = n + 1 \/ d \in 1..n BY <1>2
<1>4. \A d \in 1..n : d \in 1..(n + 1) BY <1>2
<1> QED BY <1>1, <1>2, <1>3, <1>4 DEF n

\* One call changes in what it waits for.
LEMMA Changed ==
  ASSUME stack \in Seq(Call), NEW d \in 1..Depth, NEW c \in Call
  PROVE  /\ [stack EXCEPT ![d] = c] \in Seq(Call) /\ Len([stack EXCEPT ![d] = c]) = Depth
         /\ \A e \in 1..Depth : [stack EXCEPT ![d] = c][e] = IF e = d THEN c ELSE stack[e]
BY ExceptSeq DEF Depth

\* The same calls are in flight.
SameCalls ==
  /\ stack' \in Seq(Call) /\ Depth' = Depth
  /\ \A d \in 1..Depth :
       /\ stack'[d].id = stack[d].id /\ stack'[d].stream = stack[d].stream
       /\ stack'[d].offset = stack[d].offset /\ stack'[d].want = stack[d].want
       /\ stack'[d].event = stack[d].event
  /\ \A d \in 1..(Depth - 1) : stack'[d].pc = stack[d].pc
  /\ UNCHANGED <<streamVars, calls>>

\* Steps that leave the streams alone.
LEMMA SameCallsStep ==
  ASSUME IInv, SameCalls, signalled \subseteq signalled', signalled' \subseteq AllEvents,
         asked' \subseteq Request, connected' \in BOOLEAN,
         phase' \in {"serving", "ended", "cancelled", "stopped"},
         \A g \in signals' : \/ g \in signals
                             \/ \E d \in 1..Depth : g = [id |-> stack[d].id, event |-> stack[d].event]
  PROVE  TypeOK' /\ CursorInv' /\ IdInv' /\ CompleteAtEof'
<1> USE DEF streamVars
<1>1. TypeOK /\ CursorInv /\ IdInv /\ CompleteAtEof BY DEF IInv
<1>2. \A d \in 1..Depth : stack[d] \in Call BY <1>1, ElementOfSeq DEF TypeOK, Depth
<1>3. \A d \in 1..Depth : stack[d].id \in 1..MaxCalls /\ stack[d].event \in Handles
  BY <1>2 DEF Call
<1>4. AllEvents' = AllEvents BY DEF AllEvents, SameCalls
<1>5. signals' \subseteq [id : 1..MaxCalls, event : Handles] BY <1>1, <1>3 DEF TypeOK
<1>6. TypeOK'
  <2>1. reading = {stack[d].stream : d \in 1..Depth} BY <1>1 DEF TypeOK
  <2>2. reading' = {stack'[d].stream : d \in 1..Depth} BY <2>1 DEF SameCalls
  <2>3. \A d, e \in 1..Depth : d # e => /\ stack'[d].stream # stack'[e].stream
                                        /\ stack'[d].event # stack'[e].event
    BY <1>1 DEF TypeOK, SameCalls
  <2>4. \A d \in 1..(Depth - 1) : stack'[d].pc = "pump" BY <1>1 DEF TypeOK, SameCalls
  <2>5. Depth' = Depth /\ stack' \in Seq(Call) /\ UNCHANGED <<file, pos, copied, eof, calls>>
    BY DEF SameCalls
  <2>6. signalled' \subseteq AllEvents' BY <1>4
  <2>7. /\ DOMAIN file \subseteq Streams /\ \A s \in DOMAIN file : file[s] \in Files
        /\ pos \in [Streams -> 0..(FileSize + FileSize)] /\ eof \subseteq DOMAIN file
        /\ copied \in [Streams -> -1..FileSize] /\ calls \in 0..MaxCalls
    BY <1>1 DEF TypeOK
  <2> QED BY <1>5, <2>2, <2>3, <2>4, <2>5, <2>6, <2>7 DEF TypeOK
<1>7. CursorInv' BY <1>1 DEF CursorInv, SameCalls
<1>8. IdInv'
  <2>1. \A g \in signals', d \in 1..Depth : g.id = stack[d].id => g.event = stack[d].event
    BY <1>1 DEF IdInv
  <2>2. \A g \in signals' : g.id <= calls BY <1>1 DEF IdInv
  <2> QED BY <1>1, <2>1, <2>2 DEF IdInv, SameCalls
<1>9. CompleteAtEof' BY <1>1 DEF CompleteAtEof, SameCalls
<1> QED BY <1>6, <1>7, <1>8, <1>9

\* A call is left as it is, or answered or cancelled with its event set or
\* about to be.
LEMMA AnswersKept ==
  ASSUME IInv, SameCalls, UNCHANGED signalled, UNCHANGED signals,
         \A d \in 1..Depth : /\ stack'[d].received = stack[d].received
                             /\ stack'[d].cancelled = stack[d].cancelled
                             /\ stack'[d].data = stack[d].data
  PROVE  WakeInv' /\ ReadAtCursor'
<1>1. WakeInv /\ ReadAtCursor BY DEF IInv
<1>2. WakeInv' BY <1>1 DEF WakeInv, SameCalls
<1>3. ReadAtCursor' BY <1>1 DEF ReadAtCursor, SameCalls, streamVars
<1> QED BY <1>2, <1>3
-----------------------------------------------------------------------------
(* The steps. *)

\* The calls and what they wait for are left alone.
LEMMA Untouched ==
  ASSUME IInv, UNCHANGED <<streamVars, stack, calls>>
  PROVE  SameCalls
<1>1. stack \in Seq(Call) BY DEF IInv, TypeOK
<1> QED BY <1>1 DEF SameCalls, Depth

\* The main thread between two frames.
LEMMA MainStep ==
  ASSUME IInv, SetEvents \/ Disconnect \/ Reconnect \/ ServeEnds \/ StaStop
  PROVE  IInv'
<1> USE DEF streamVars, mainVars
<1>1. TypeOK /\ IdInv /\ WakeInv /\ ReadAtCursor BY DEF IInv
<1>2. UNCHANGED <<streamVars, stack, calls>>
  BY DEF SetEvents, SetEvent, SkipEvent, Disconnect, Reconnect, ServeEnds, StaStop
<1>3. SameCalls BY <1>2, Untouched
<1>4. /\ signalled \subseteq signalled' /\ signalled' \subseteq AllEvents /\ asked' \subseteq Request
      /\ signals' \subseteq signals
  BY <1>1 DEF SetEvents, SetEvent, SkipEvent, Disconnect, Reconnect, ServeEnds, StaStop, TypeOK
<1>5. connected' \in BOOLEAN
  <2>1. connected' = FALSE \/ connected' = TRUE \/ connected' = connected
    BY DEF SetEvents, SetEvent, SkipEvent, Disconnect, Reconnect, ServeEnds, StaStop
  <2>2. connected \in BOOLEAN BY <1>1 DEF TypeOK
  <2> QED BY <2>1, <2>2, Zenon
<1>6. phase' \in {"serving", "ended", "cancelled", "stopped"}
  BY <1>1 DEF SetEvents, SetEvent, SkipEvent, Disconnect, Reconnect, ServeEnds, StaStop, TypeOK
<1>7. TypeOK' /\ CursorInv' /\ IdInv' /\ CompleteAtEof'
  BY <1>3, <1>4, <1>5, <1>6, SameCallsStep
<1>8. ReadAtCursor' BY <1>1, <1>2 DEF ReadAtCursor, Depth
<1>9. WakeInv'
  <2>1. CASE UNCHANGED <<signalled, signals>> BY <1>1, <1>2, <2>1 DEF WakeInv, Depth
  <2>2. CASE \E g \in signals : SetEvent(g)
    <3>1. PICK g \in signals : SetEvent(g) BY <2>2
    <3>2. \A d \in 1..Depth : g.id = stack[d].id => stack[d].event \in signalled'
      BY <1>1, <3>1 DEF SetEvent, IdInv, AllEvents
    <3>3. signals' = signals \ {g} BY <3>1 DEF SetEvent
    <3> QED BY <1>1, <1>2, <1>4, <3>2, <3>3 DEF WakeInv, Depth
  <2>3. CASE \E g \in signals : SkipEvent(g)
    BY <1>1, <1>2, <2>3 DEF SkipEvent, WakeInv, Depth
  <2> QED
    BY <2>1, <2>2, <2>3 DEF SetEvents, Disconnect, Reconnect, ServeEnds, StaStop
<1> QED BY <1>7, <1>8, <1>9 DEF IInv

\* Only the innermost call moves, from sending to waiting, to a pump or back.
LEMMA WaitStep ==
  ASSUME IInv, Depth > 0,
         \E p \in {"wait", "pump"} : stack' = [stack EXCEPT ![Depth].pc = p],
         asked' \subseteq Request, UNCHANGED <<streamVars, calls, signalled, mainVars>>
  PROVE  IInv'
<1> USE DEF mainVars
<1>1. PICK p \in {"wait", "pump"} : stack' = [stack EXCEPT ![Depth].pc = p] OBVIOUS
<1>2. TypeOK BY DEF IInv
<1>3. stack \in Seq(Call) BY <1>2 DEF TypeOK
<1>4. Depth \in Nat /\ Depth \in 1..Depth /\ Top \in Call /\ Top = stack[Depth] BY <1>3, Popped
<1> DEFINE c == [stack[Depth] EXCEPT !.pc = p]
<1>5. /\ c \in Call /\ c.id = stack[Depth].id /\ c.stream = stack[Depth].stream
      /\ c.offset = stack[Depth].offset /\ c.want = stack[Depth].want
      /\ c.event = stack[Depth].event /\ c.received = stack[Depth].received
      /\ c.cancelled = stack[Depth].cancelled /\ c.data = stack[Depth].data
  BY <1>4 DEF Call
<1>6. stack' = [stack EXCEPT ![Depth] = c] BY <1>1
<1> HIDE DEF c
<1>7. /\ stack' \in Seq(Call) /\ Len(stack') = Depth
      /\ \A e \in 1..Depth : stack'[e] = IF e = Depth THEN c ELSE stack[e]
  BY <1>3, <1>4, <1>5, <1>6, Changed
<1>8. \A d \in 1..(Depth - 1) : d \in 1..Depth /\ d # Depth BY <1>4
<1>9. SameCalls BY <1>5, <1>7, <1>8 DEF SameCalls, Depth
<1>10. TypeOK' /\ CursorInv' /\ IdInv' /\ CompleteAtEof'
  <2>1. /\ signalled \subseteq signalled' /\ signalled' \subseteq AllEvents /\ connected' \in BOOLEAN
        /\ phase' \in {"serving", "ended", "cancelled", "stopped"} /\ signals' = signals
    BY <1>2 DEF TypeOK
  <2> QED BY <1>9, <2>1, SameCallsStep
<1>11. WakeInv' /\ ReadAtCursor' BY <1>5, <1>7, <1>9, AnswersKept
<1> QED BY <1>10, <1>11 DEF IInv

\* A call that is cancelled is the same call.
LEMMA CancelledCall ==
  ASSUME NEW c \in Call
  PROVE  LET k == [c EXCEPT !.cancelled = TRUE] IN
         /\ k \in Call /\ k.id = c.id /\ k.stream = c.stream /\ k.offset = c.offset
         /\ k.want = c.want /\ k.event = c.event /\ k.pc = c.pc
         /\ k.received = c.received /\ k.data = c.data
<1>1. TRUE \in BOOLEAN BY Zenon
<1> QED BY <1>1 DEF Call

\* A call that is answered is the same call.
LEMMA AnsweredCall ==
  ASSUME NEW c \in Call, NEW a \in Chunk
  PROVE  LET k == [c EXCEPT !.received = TRUE, !.data = a] IN
         /\ k \in Call /\ k.id = c.id /\ k.stream = c.stream /\ k.offset = c.offset
         /\ k.want = c.want /\ k.event = c.event /\ k.pc = c.pc /\ k.data = a
<1>1. TRUE \in BOOLEAN BY Zenon
<1> QED BY <1>1 DEF Call

\* CancelAll, on the STA or at teardown.
LEMMA CancelStep ==
  ASSUME IInv, ClipboardRotated \/ ReleaseStaBoundResources
  PROVE  IInv'
<1> USE DEF mainVars
<1>1. TypeOK /\ WakeInv /\ ReadAtCursor BY DEF IInv
<1>2. stack \in Seq(Call) /\ Depth \in Nat BY <1>1, LenProperties DEF TypeOK, Depth
<1>3. \A d \in 1..Depth : stack[d] \in Call BY <1>2, ElementOfSeq DEF Depth
<1>4. stack' = AllCancelled /\ UNCHANGED <<streamVars, calls, asked, connected>>
  BY DEF ClipboardRotated, ReleaseStaBoundResources
<1>5. \A d \in 1..Depth : stack'[d] = [stack[d] EXCEPT !.cancelled = TRUE]
  BY <1>4 DEF AllCancelled
<1>6. \A d \in 1..Depth :
        /\ stack'[d] \in Call /\ stack'[d].id = stack[d].id /\ stack'[d].stream = stack[d].stream
        /\ stack'[d].offset = stack[d].offset /\ stack'[d].want = stack[d].want
        /\ stack'[d].event = stack[d].event /\ stack'[d].pc = stack[d].pc
        /\ stack'[d].received = stack[d].received /\ stack'[d].data = stack[d].data
  <2> TAKE d \in 1..Depth
  <2> DEFINE c == stack[d]
             k == [c EXCEPT !.cancelled = TRUE]
  <2>1. c \in Call /\ stack'[d] = k BY <1>3, <1>5
  <2> HIDE DEF c
  <2>2. /\ k \in Call /\ k.id = c.id /\ k.stream = c.stream /\ k.offset = c.offset
        /\ k.want = c.want /\ k.event = c.event /\ k.pc = c.pc
        /\ k.received = c.received /\ k.data = c.data
    BY <2>1, CancelledCall
  <2> HIDE DEF k
  <2> QED BY <2>1, <2>2 DEF c
<1>7. stack' \in Seq(Call) /\ Len(stack') = Depth
  <2>1. stack' = [d \in 1..Depth |-> stack'[d]] BY <1>4 DEF AllCancelled
  <2>2. stack' \in [1..Depth -> Call] BY <1>6, <2>1
  <2>3. stack' \in Seq(Call) BY <1>2, <2>2
  <2>4. DOMAIN stack' = 1..Depth BY <2>2
  <2>5. Len(stack') = Depth BY <1>2, <2>3, <2>4, LenProperties
  <2> QED BY <2>3, <2>5
<1>8. \A d \in 1..(Depth - 1) : d \in 1..Depth BY <1>2
<1>9. SameCalls BY <1>4, <1>6, <1>7, <1>8 DEF SameCalls, Depth
<1>10. TypeOK' /\ CursorInv' /\ IdInv' /\ CompleteAtEof'
  <2>1. /\ signalled \subseteq signalled' /\ signalled' \subseteq AllEvents /\ asked' \subseteq Request
        /\ phase' \in {"serving", "ended", "cancelled", "stopped"} /\ connected' \in BOOLEAN
    BY <1>1, <1>4 DEF ClipboardRotated, ReleaseStaBoundResources, TypeOK
  <2>2. \A g \in signals' : \/ g \in signals
                            \/ \E d \in 1..Depth : g = [id |-> stack[d].id, event |-> stack[d].event]
    BY DEF ClipboardRotated, ReleaseStaBoundResources
  <2> QED BY <1>9, <2>1, <2>2, SameCallsStep
<1>11. ReadAtCursor' BY <1>1, <1>4, <1>6, <1>7 DEF ReadAtCursor, Depth, streamVars
<1>12. WakeInv'
  <2>1. CASE ClipboardRotated
    <3>1. \A d \in 1..Depth : stack'[d].event \in signalled'
      BY <1>6, <2>1 DEF ClipboardRotated, AllEvents
    <3> QED BY <1>7, <3>1 DEF WakeInv, Depth
  <2>2. CASE ReleaseStaBoundResources
    <3>1. ASSUME NEW d \in 1..Depth PROVE \E g \in signals' : g.id = stack'[d].id
      <4>1. [id |-> stack[d].id, event |-> stack[d].event] \in signals'
        BY <2>2 DEF ReleaseStaBoundResources
      <4> QED BY <1>6, <4>1
    <3> QED BY <1>7, <3>1 DEF WakeInv, Depth
  <2> QED BY <2>1, <2>2
<1> QED BY <1>10, <1>11, <1>12 DEF IInv

\* DeliverChunk: the answer goes to a call for the same file and offset.
LEMMA DeliverStep ==
  ASSUME IInv, Deliver
  PROVE  IInv'
<1> USE DEF mainVars
<1>1. TypeOK /\ CursorInv /\ IdInv /\ WakeInv /\ ReadAtCursor BY DEF IInv
<1>2. PICK r \in asked : \E n \in 0..r.want : DeliverChunk(r, n) BY DEF Deliver
<1>21. PICK len \in 0..r.want : DeliverChunk(r, len) BY <1>2
<1>3. stack \in Seq(Call) /\ Depth \in Nat BY <1>1, LenProperties DEF TypeOK, Depth
<1>4. \A d \in 1..Depth : stack[d] \in Call BY <1>3, ElementOfSeq DEF Depth
<1> DEFINE waiting == {d \in 1..Depth : KeyOf(stack[d]) = MakeKey(r)}
           a == [file |-> r.file, offset |-> r.offset, len |-> len]
<1>5. /\ signals = {} /\ asked' = asked \ {r}
      /\ UNCHANGED <<streamVars, calls, signalled, connected, phase>>
  BY <1>21 DEF DeliverChunk
<1>6. /\ asked' \subseteq Request /\ signalled \subseteq signalled' /\ signalled' \subseteq AllEvents
      /\ connected' \in BOOLEAN /\ phase' \in {"serving", "ended", "cancelled", "stopped"}
  BY <1>1, <1>5 DEF TypeOK
<1>7. CASE UNCHANGED <<stack, signals>>
  <2>2. SameCalls BY <1>5, <1>7, Untouched
  <2>3. TypeOK' /\ CursorInv' /\ IdInv' /\ CompleteAtEof'
    BY <1>6, <1>7, <2>2, SameCallsStep
  <2>4. WakeInv' /\ ReadAtCursor' BY <1>5, <1>7, <2>2, AnswersKept
  <2> QED BY <2>3, <2>4 DEF IInv
<1>8. CASE \E front \in waiting :
             /\ stack' = [stack EXCEPT ![front].received = TRUE, ![front].data = a]
             /\ signals' = {[id |-> stack[front].id, event |-> stack[front].event]}
  <2>1. PICK front \in waiting :
             /\ stack' = [stack EXCEPT ![front].received = TRUE, ![front].data = a]
             /\ signals' = {[id |-> stack[front].id, event |-> stack[front].event]}
    BY <1>8
  <2>2. /\ front \in 1..Depth /\ stack[front] \in Call
        /\ file[stack[front].stream] = r.file /\ stack[front].offset = r.offset
    BY <1>4, <2>1 DEF KeyOf, MakeKey
  <2>3. r \in Request /\ FileSize \in Nat BY <1>1, StreamAssumption DEF TypeOK
  <2>4. r.file \in Files /\ r.offset \in 0..FileSize /\ r.want \in 1..FileSize BY <2>3 DEF Request
  <2>5. len \in 0..FileSize BY <2>3, <2>4
  <2>6. a \in Chunk /\ a.file = r.file /\ a.offset = r.offset BY <2>4, <2>5 DEF Chunk
  <2> HIDE DEF a, waiting
  <2> DEFINE c == [stack[front] EXCEPT !.received = TRUE, !.data = a]
  <2>7. /\ c \in Call /\ c.id = stack[front].id /\ c.stream = stack[front].stream
        /\ c.offset = stack[front].offset /\ c.want = stack[front].want
        /\ c.event = stack[front].event /\ c.pc = stack[front].pc /\ c.data = a
    BY <2>2, <2>6, AnsweredCall
  <2>8. stack' = [stack EXCEPT ![front] = c] BY <2>1
  <2> HIDE DEF c
  <2>9. /\ stack' \in Seq(Call) /\ Len(stack') = Depth
        /\ \A e \in 1..Depth : stack'[e] = IF e = front THEN c ELSE stack[e]
    BY <1>3, <2>2, <2>7, <2>8, Changed
  <2>10. \A d \in 1..(Depth - 1) : d \in 1..Depth BY <1>3
  <2>11. SameCalls BY <1>5, <2>7, <2>9, <2>10 DEF SameCalls, Depth
  <2>12. TypeOK' /\ CursorInv' /\ IdInv' /\ CompleteAtEof'
    BY <1>6, <2>1, <2>2, <2>11, SameCallsStep
  <2>13. WakeInv'
    <3>1. \E g \in signals' : g.id = stack'[front].id BY <2>1, <2>2, <2>7, <2>9
    <3>2. \A d \in 1..Depth : d # front => stack'[d] = stack[d] BY <2>9
    <3> QED BY <1>1, <1>5, <2>9, <3>1, <3>2 DEF WakeInv, Depth
  <2>14. ReadAtCursor'
    <3>1. \A d \in 1..Depth : d # front => stack'[d] = stack[d] BY <2>9
    <3>2. stack'[front] = c BY <2>2, <2>9
    <3> QED BY <1>1, <1>5, <2>2, <2>6, <2>7, <2>9, <3>1, <3>2 DEF ReadAtCursor, Depth, streamVars
  <2> QED BY <2>12, <2>13, <2>14 DEF IInv
<1> QED BY <1>21, <1>7, <1>8 DEF DeliverChunk

\* The innermost call leaves: what the other calls keep.
LEMMA CallLeaves ==
  ASSUME IInv, Depth > 0, stack' = SubSeq(stack, 1, Depth - 1),
         signalled' = signalled \ {Top.event}, reading' = reading \ {Top.stream},
         asked' \subseteq Request, UNCHANGED <<file, calls, mainVars>>,
         pos' \in [Streams -> 0..(FileSize + FileSize)], eof' \subseteq DOMAIN file,
         copied' \in [Streams -> -1..FileSize]
  PROVE  TypeOK' /\ IdInv' /\ WakeInv'
<1> USE DEF mainVars
<1>1. TypeOK /\ IdInv /\ WakeInv BY DEF IInv
<1>2. stack \in Seq(Call) BY <1>1 DEF TypeOK
<1>3. /\ Depth \in Nat /\ Depth \in 1..Depth /\ Top = stack[Depth]
      /\ stack' \in Seq(Call) /\ Depth' = Depth - 1
      /\ \A d \in 1..(Depth - 1) : d \in 1..Depth /\ d # Depth /\ stack'[d] = stack[d]
      /\ \A d \in 1..Depth : d = Depth \/ d \in 1..(Depth - 1)
  BY <1>2, Popped DEF Depth
<1> DEFINE n == Depth
<1>4. \A d, e \in 1..n : d # e => /\ stack[d].stream # stack[e].stream
                                   /\ stack[d].event # stack[e].event
  BY <1>1 DEF TypeOK
<1>5. TypeOK'
  <2>1. reading' = {stack'[d].stream : d \in 1..(n - 1)}
    <3>1. reading = {stack[d].stream : d \in 1..n} BY <1>1 DEF TypeOK
    <3>2. \A d \in 1..(n - 1) : stack'[d].stream \in reading'
      <4> TAKE d \in 1..(n - 1)
      <4>1. d \in 1..n /\ d # n /\ stack'[d] = stack[d] BY <1>3
      <4>2. stack[d].stream \in reading BY <3>1, <4>1
      <4>3. stack[d].stream # Top.stream BY <1>3, <1>4, <4>1
      <4> QED BY <4>1, <4>2, <4>3
    <3>3. ASSUME NEW t \in reading' PROVE \E d \in 1..(n - 1) : t = stack'[d].stream
      <4>1. t \in reading /\ t # stack[n].stream BY <1>3
      <4>2. PICK d \in 1..n : t = stack[d].stream BY <3>1, <4>1
      <4>3. d \in 1..(n - 1) /\ stack'[d] = stack[d] BY <1>3, <4>1, <4>2
      <4> QED BY <4>2, <4>3
    <3>4. {stack'[d].stream : d \in 1..(n - 1)} \subseteq reading' BY <3>2
    <3>5. reading' \subseteq {stack'[d].stream : d \in 1..(n - 1)} BY <3>3
    <3> QED BY <3>4, <3>5
  <2>2. signalled' \subseteq {stack'[d].event : d \in 1..(n - 1)}
    <3>1. signalled \subseteq {stack[d].event : d \in 1..n} BY <1>1 DEF TypeOK, AllEvents
    <3> QED BY <1>3, <1>4, <3>1
  <2>3. \A d, e \in 1..(n - 1) : d # e => /\ stack'[d].stream # stack'[e].stream
                                           /\ stack'[d].event # stack'[e].event
    BY <1>3, <1>4
  <2>4. \A d \in 1..(n - 1 - 1) : stack'[d].pc = "pump"
    <3>1. \A d \in 1..(n - 1) : stack[d].pc = "pump" BY <1>1 DEF TypeOK
    <3>2. \A d \in 1..(n - 1 - 1) : d \in 1..(n - 1)
      <4>1. n \in Nat BY <1>3
      <4> HIDE DEF n
      <4> QED BY <4>1
    <3> QED BY <1>3, <3>1, <3>2
  <2>5. Depth' = n - 1 BY <1>3
  <2>6. /\ DOMAIN file \subseteq Streams /\ \A t \in DOMAIN file : file[t] \in Files
        /\ calls \in 0..MaxCalls /\ connected \in BOOLEAN
        /\ phase \in {"serving", "ended", "cancelled", "stopped"}
        /\ signals \subseteq [id : 1..MaxCalls, event : Handles]
    BY <1>1 DEF TypeOK
  <2> HIDE DEF n
  <2> QED BY <1>3, <2>1, <2>2, <2>3, <2>4, <2>5, <2>6 DEF TypeOK, AllEvents
<1>6. IdInv'
  <2>1. \A d \in 1..(n - 1) : stack'[d].id <= calls BY <1>1, <1>3 DEF IdInv
  <2>2. \A d, e \in 1..(n - 1) : d # e => stack'[d].id # stack'[e].id BY <1>1, <1>3 DEF IdInv
  <2>3. \A g \in signals : /\ g.id <= calls
                            /\ \A d \in 1..(n - 1) : g.id = stack'[d].id => g.event = stack'[d].event
    BY <1>1, <1>3 DEF IdInv
  <2>4. Depth' = n - 1 BY <1>3
  <2> HIDE DEF n
  <2> QED BY <2>1, <2>2, <2>3, <2>4 DEF IdInv
<1>7. WakeInv'
  <2> SUFFICES ASSUME NEW d \in 1..(Depth - 1), stack'[d].received \/ stack'[d].cancelled
               PROVE  \/ stack'[d].event \in signalled'
                      \/ \E g \in signals' : g.id = stack'[d].id
    BY <1>3 DEF WakeInv
  <2>1. d \in 1..Depth /\ d # Depth /\ stack'[d] = stack[d] BY <1>3
  <2>2. stack[d].event # Top.event BY <1>3, <1>4, <2>1
  <2>3. stack[d].event \in signalled \/ \E g \in signals : g.id = stack[d].id
    BY <1>1, <2>1 DEF WakeInv
  <2> QED BY <2>1, <2>2, <2>3
<1> QED BY <1>5, <1>6, <1>7

\* A call that fails: its stream stays where it is.
LEMMA FailStep ==
  ASSUME IInv, Depth > 0, stack' = SubSeq(stack, 1, Depth - 1),
         signalled' = signalled \ {Top.event}, reading' = reading \ {Top.stream},
         asked' \subseteq Request, UNCHANGED <<file, pos, copied, eof, calls, mainVars>>
  PROVE  IInv'
<1>1. TypeOK /\ CursorInv /\ ReadAtCursor /\ CompleteAtEof BY DEF IInv
<1>2. /\ Depth' = Depth - 1
      /\ \A d \in 1..(Depth - 1) : d \in 1..Depth /\ d # Depth /\ stack'[d] = stack[d]
  BY <1>1, Popped DEF Depth, TypeOK
<1>3. TypeOK' /\ IdInv' /\ WakeInv'
  <2>1. /\ pos \in [Streams -> 0..(FileSize + FileSize)] /\ eof \subseteq DOMAIN file
        /\ copied \in [Streams -> -1..FileSize]
    BY <1>1 DEF TypeOK
  <2> QED BY <2>1, CallLeaves
<1>4. CursorInv' BY <1>1, <1>2 DEF CursorInv
<1>5. ReadAtCursor'
  <2> SUFFICES ASSUME NEW d \in 1..(Depth - 1)
               PROVE  LET s == stack'[d].stream IN
                      /\ copied'[s] # -1 => stack'[d].offset = pos'[s]
                      /\ stack'[d].received => /\ stack'[d].data.file = file'[s]
                                               /\ stack'[d].data.offset = stack'[d].offset
    BY <1>2 DEF ReadAtCursor
  <2>1. d \in 1..Depth /\ stack'[d] = stack[d] BY <1>2
  <2> QED BY <1>1, <2>1 DEF ReadAtCursor
<1>6. CompleteAtEof' BY <1>1 DEF CompleteAtEof
<1> QED BY <1>3, <1>4, <1>5, <1>6 DEF IInv

\* Read returns with bytes, or fails.
LEMMA ReturnStep ==
  ASSUME IInv, Depth > 0, NEW q \in BOOLEAN, ReturnRead(q), UNCHANGED <<asked, mainVars>>
  PROVE  IInv'
<1> DEFINE c == Top
           s == c.stream
           n == Got(c, q)
<1>1. TypeOK /\ CursorInv /\ ReadAtCursor /\ CompleteAtEof BY DEF IInv
<1>2. /\ stack' = SubSeq(stack, 1, Depth - 1) /\ signalled' = signalled \ {Top.event}
      /\ reading' = reading \ {Top.stream} /\ UNCHANGED <<file, calls>>
  BY DEF ReturnRead
<1>3. asked' \subseteq Request BY <1>1 DEF TypeOK
<1>4. CASE n = 0
  <2>1. UNCHANGED <<pos, eof, copied>> BY <1>4 DEF ReturnRead
  <2> QED BY <1>2, <1>3, <2>1, FailStep
<1>5. CASE n # 0
  <2>1. /\ pos' = [pos EXCEPT ![s] = @ + n]
        /\ eof' = IF ReachedEnd(s, n, c.want) THEN TellEof(s) ELSE eof
        /\ copied' = IF copied[s] = c.data.offset THEN [copied EXCEPT ![s] = @ + n] ELSE copied
    BY <1>5 DEF ReturnRead
  <2>2. stack \in Seq(Call) BY <1>1 DEF TypeOK
  <2>3. /\ c \in Call /\ Depth \in 1..Depth /\ c = stack[Depth] /\ Depth' = Depth - 1
        /\ \A d \in 1..(Depth - 1) : d \in 1..Depth /\ d # Depth /\ stack'[d] = stack[d]
    BY <1>2, <2>2, Popped DEF Depth
  <2>4. /\ FileSize \in Nat /\ pos \in [Streams -> 0..(FileSize + FileSize)]
        /\ copied \in [Streams -> -1..FileSize] /\ eof \subseteq DOMAIN file
    BY <1>1, StreamAssumption DEF TypeOK
  <2>5. /\ s \in Streams /\ s \in DOMAIN file /\ c.offset \in 0..FileSize
        /\ c.want \in 1..FileSize /\ c.data.len \in 0..FileSize /\ pos[s] <= FileSize
        /\ c.offset + c.want <= FileSize
    BY <1>1, <2>3 DEF CursorInv, Call, Chunk
  <2>6. c.received /\ n \in 1..c.want BY <1>5, <2>4, <2>5 DEF Got
  <2>7. c.data.offset = c.offset /\ (copied[s] # -1 => c.offset = pos[s])
    BY <1>1, <2>3, <2>6 DEF ReadAtCursor
  <2>8. copied[s] # -1 => copied[s] = pos[s] BY <1>1, <2>5 DEF CursorInv
  <2> HIDE DEF n, s, c
  <2>9. /\ pos[s] \in 0..FileSize /\ copied[s] \in -1..FileSize
        /\ pos[s] + n \in 0..(FileSize + FileSize)
    BY <2>4, <2>5, <2>6
  <2>10. /\ pos' \in [Streams -> 0..(FileSize + FileSize)] /\ pos'[s] = pos[s] + n
         /\ \A t \in Streams : t # s => pos'[t] = pos[t]
    BY <2>1, <2>4, <2>5, <2>9
  <2>11. /\ copied[s] = -1 => copied' = copied
         /\ copied[s] # -1 => /\ copied' = [copied EXCEPT ![s] = @ + n]
                               /\ pos[s] + n <= FileSize /\ copied[s] + n \in -1..FileSize
    BY <2>1, <2>4, <2>5, <2>6, <2>7, <2>8, <2>9
  <2>12. /\ copied' \in [Streams -> -1..FileSize]
         /\ copied[s] = -1 => copied'[s] = -1
         /\ copied[s] # -1 => copied'[s] = pos[s] + n /\ pos[s] + n <= FileSize
         /\ \A t \in Streams : t # s => copied'[t] = copied[t]
    BY <2>4, <2>5, <2>8, <2>11
  <2>13. eof' \subseteq eof \cup {s} /\ eof' \subseteq DOMAIN file BY <2>1, <2>4, <2>5 DEF TellEof
  <2>14. TypeOK' /\ IdInv' /\ WakeInv' BY <1>2, <1>3, <2>10, <2>12, <2>13, CallLeaves
  <2>15. ASSUME NEW d \in 1..(Depth - 1)
         PROVE  /\ stack'[d] = stack[d] /\ d \in 1..Depth /\ stack[d].stream \in Streams
                /\ stack[d].stream # s
                /\ pos'[stack[d].stream] = pos[stack[d].stream]
                /\ copied'[stack[d].stream] = copied[stack[d].stream]
    <3>1. stack'[d] = stack[d] /\ d \in 1..Depth /\ d # Depth BY <2>3
    <3>2. stack[d].stream # s /\ stack[d].stream \in Streams
      BY <1>1, <2>3, <3>1 DEF TypeOK, CursorInv, s
    <3> QED BY <2>10, <2>12, <3>1, <3>2
  <2>16. CursorInv'
    <3>1. \A t \in Streams : copied'[t] # -1 => copied'[t] = pos'[t]
      BY <1>1, <2>10, <2>12 DEF CursorInv
    <3> QED BY <1>1, <1>2, <2>3, <2>15, <3>1 DEF CursorInv
  <2>17. ReadAtCursor' BY <1>1, <1>2, <2>3, <2>15 DEF ReadAtCursor
  <2>18. CompleteAtEof'
    <3>1. s \notin eof
      <4>1. SUFFICES ASSUME copied[s] = FileSize PROVE FALSE BY <1>1 DEF CompleteAtEof
      <4> QED BY <2>4, <2>5, <2>7, <2>8, <4>1
    <3>2. \A t \in eof : copied'[t] = FileSize
      <4>1. \A t \in eof : t \in Streams BY <1>1 DEF TypeOK
      <4> QED BY <1>1, <2>12, <3>1, <4>1 DEF CompleteAtEof
    <3>3. s \in eof' => copied'[s] = FileSize
      BY <2>1, <2>4, <2>6, <2>9, <2>12, <3>1 DEF TellEof, ReachedEnd
    <3> QED BY <2>13, <3>2, <3>3 DEF CompleteAtEof
  <2> QED BY <2>14, <2>16, <2>17, <2>18 DEF IInv
<1> QED BY <1>4, <1>5

\* The waits and pumps of FetchChunk.
LEMMA FetchStep ==
  ASSUME IInv, FetchNext \/ WakeByMessage \/ ChunkTimeout
  PROVE  IInv'
<1>0. TRUE \in BOOLEAN /\ FALSE \in BOOLEAN BY Zenon
<1>1. TypeOK /\ CursorInv BY DEF IInv
<1>2. asked \subseteq Request /\ stack \in Seq(Call) BY <1>1 DEF TypeOK
<1>3. CASE SendChunkRequest
  <2>1. Depth > 0 BY <1>3 DEF SendChunkRequest
  <2>2. Top \in Call /\ Top = stack[Depth] /\ Depth \in 1..Depth BY <1>2, <2>1, Popped
  <2>3. CASE connected
    <3>1. Top.stream \in DOMAIN file BY <1>1, <2>2 DEF CursorInv
    <3>2. file[Top.stream] \in Files BY <1>1, <3>1 DEF TypeOK
    <3>3. [id |-> Top.id, file |-> file[Top.stream],
           offset |-> Top.offset, want |-> Top.want] \in Request
      BY <2>2, <3>2 DEF Call, Request
    <3>4. asked' \subseteq Request BY <1>2, <1>3, <2>3, <3>3 DEF SendChunkRequest
    <3>5. /\ stack' = [stack EXCEPT ![Depth].pc = "wait"]
          /\ UNCHANGED <<streamVars, calls, signalled, mainVars>>
      BY <1>3, <2>3 DEF SendChunkRequest
    <3> QED BY <2>1, <3>4, <3>5, WaitStep
  <2>4. CASE ~connected
    <3>1. /\ stack' = SubSeq(stack, 1, Depth - 1) /\ signalled' = signalled \ {Top.event}
          /\ reading' = reading \ {Top.stream} /\ asked' \subseteq Request
          /\ UNCHANGED <<file, pos, copied, eof, calls, mainVars>>
      BY <1>2, <1>3, <2>4 DEF SendChunkRequest
    <3> QED BY <2>1, <3>1, FailStep
  <2> QED BY <2>3, <2>4
<1>4. CASE WakeByMessage
  BY <1>2, <1>4, WaitStep DEF WakeByMessage
<1>5. CASE WakeByEvent
  BY <1>0, <1>5, ReturnStep DEF WakeByEvent
<1>6. CASE ChunkTimeout
  BY <1>0, <1>6, ReturnStep DEF ChunkTimeout
<1>7. CASE PumpQuit
  BY <1>0, <1>7, ReturnStep DEF PumpQuit
<1>8. CASE PumpEnd
  <2>1. CASE Top.cancelled \/ Top.received
    BY <1>0, <1>8, <2>1, ReturnStep DEF PumpEnd
  <2>2. CASE ~(Top.cancelled \/ Top.received)
    BY <1>2, <1>8, <2>2, WaitStep DEF PumpEnd
  <2> QED BY <2>1, <2>2
<1> QED BY <1>3, <1>4, <1>5, <1>6, <1>7, <1>8 DEF FetchNext

\* Steps of a consumer that start no call: what the calls in flight keep.
LEMMA SameStack ==
  ASSUME IInv, UNCHANGED <<reading, stack, calls, signalled, asked, mainVars>>,
         DOMAIN file' \subseteq Streams, \A s \in DOMAIN file' : file'[s] \in Files,
         pos' \in [Streams -> 0..(FileSize + FileSize)], eof' \subseteq DOMAIN file',
         copied' \in [Streams -> -1..FileSize]
  PROVE  TypeOK' /\ IdInv' /\ WakeInv'
<1> USE DEF mainVars
<1>1. TypeOK /\ IdInv /\ WakeInv BY DEF IInv
<1>2. TypeOK' BY <1>1 DEF TypeOK, AllEvents, Depth
<1>3. IdInv' BY <1>1 DEF IdInv, Depth
<1>4. WakeInv' BY <1>1 DEF WakeInv, Depth
<1> QED BY <1>2, <1>3, <1>4

\* Read at the end of the file.
LEMMA ReadAtEofStep ==
  ASSUME IInv, NEW s \in Streams, ReadAtEof(s)
  PROVE  IInv'
<1>1. TypeOK /\ CursorInv /\ ReadAtCursor /\ CompleteAtEof BY DEF IInv
<1>2. /\ s \in DOMAIN file /\ pos[s] >= FileSize /\ eof' = TellEof(s)
      /\ UNCHANGED <<file, pos, reading, copied, stack, calls, signalled, asked, mainVars>>
  BY DEF ReadAtEof
<1>3. /\ FileSize \in Nat /\ pos \in [Streams -> 0..(FileSize + FileSize)]
      /\ copied \in [Streams -> -1..FileSize] /\ eof \subseteq DOMAIN file
      /\ DOMAIN file \subseteq Streams /\ \A t \in DOMAIN file : file[t] \in Files
  BY <1>1, StreamAssumption DEF TypeOK
<1>4. eof' \subseteq DOMAIN file BY <1>2, <1>3 DEF TellEof
<1>5. TypeOK' /\ IdInv' /\ WakeInv' BY <1>2, <1>3, <1>4, SameStack
<1>6. CursorInv' BY <1>1, <1>2 DEF CursorInv, Depth
<1>7. ReadAtCursor' BY <1>1, <1>2 DEF ReadAtCursor, Depth
<1>8. CompleteAtEof'
  <2>1. copied[s] # -1 => copied[s] = FileSize BY <1>1, <1>2, <1>3 DEF CursorInv
  <2> QED BY <1>1, <1>2, <2>1 DEF CompleteAtEof, TellEof
<1> QED BY <1>5, <1>6, <1>7, <1>8 DEF IInv

\* Seek.
LEMMA SeekStep ==
  ASSUME IInv, NEW s \in Streams, NEW target \in 0..FileSize, Seek(s, target)
  PROVE  IInv'
<1>1. TypeOK /\ CursorInv /\ ReadAtCursor /\ CompleteAtEof BY DEF IInv
<1>2. /\ pos' = [pos EXCEPT ![s] = target] /\ copied' = [copied EXCEPT ![s] = -1]
      /\ eof' = eof \ {s}
      /\ UNCHANGED <<file, reading, stack, calls, signalled, asked, mainVars>>
  BY DEF Seek
<1>3. /\ FileSize \in Nat /\ pos \in [Streams -> 0..(FileSize + FileSize)]
      /\ copied \in [Streams -> -1..FileSize] /\ eof \subseteq DOMAIN file
      /\ DOMAIN file \subseteq Streams /\ \A t \in DOMAIN file : file[t] \in Files
  BY <1>1, StreamAssumption DEF TypeOK
<1>4. target \in 0..(FileSize + FileSize) /\ -1 \in -1..FileSize /\ target <= FileSize BY <1>3
<1>5. /\ pos' \in [Streams -> 0..(FileSize + FileSize)] /\ copied' \in [Streams -> -1..FileSize]
      /\ pos'[s] = target /\ copied'[s] = -1
      /\ \A t \in Streams : t # s => pos'[t] = pos[t] /\ copied'[t] = copied[t]
  BY <1>2, <1>3, <1>4
<1>6. TypeOK' /\ IdInv' /\ WakeInv' BY <1>2, <1>3, <1>5, SameStack
<1>7. CursorInv'
  <2>1. \A t \in Streams : copied'[t] # -1 => copied'[t] = pos'[t] BY <1>1, <1>5 DEF CursorInv
  <2>2. \A d \in 1..Depth : pos'[stack[d].stream] <= FileSize
    BY <1>1, <1>3, <1>4, <1>5 DEF CursorInv
  <2> QED BY <1>1, <1>2, <2>1, <2>2 DEF CursorInv, Depth
<1>8. ReadAtCursor'
  <2>1. \A d \in 1..Depth : stack[d].stream \in Streams BY <1>1, <1>3 DEF CursorInv
  <2> QED BY <1>1, <1>2, <1>5, <2>1 DEF ReadAtCursor, Depth
<1>9. CompleteAtEof' BY <1>1, <1>2, <1>3, <1>5 DEF CompleteAtEof
<1> QED BY <1>6, <1>7, <1>8, <1>9 DEF IInv

\* Clone: the new stream starts where the old one is.
LEMMA CloneStep ==
  ASSUME IInv, NEW s \in Streams, NEW t \in Streams, Clone(s, t)
  PROVE  IInv'
<1>1. TypeOK /\ CursorInv /\ ReadAtCursor /\ CompleteAtEof BY DEF IInv
<1>2. /\ s \in DOMAIN file /\ t \notin DOMAIN file
      /\ file' = [u \in DOMAIN file \cup {t} |-> IF u = t THEN file[s] ELSE file[u]]
      /\ pos' = [pos EXCEPT ![t] = pos[s]] /\ copied' = [copied EXCEPT ![t] = copied[s]]
      /\ UNCHANGED <<reading, eof, stack, calls, signalled, asked, mainVars>>
  BY DEF Clone
<1>3. /\ FileSize \in Nat /\ pos \in [Streams -> 0..(FileSize + FileSize)]
      /\ copied \in [Streams -> -1..FileSize] /\ eof \subseteq DOMAIN file
      /\ DOMAIN file \subseteq Streams /\ \A u \in DOMAIN file : file[u] \in Files
  BY <1>1, StreamAssumption DEF TypeOK
<1>4. /\ DOMAIN file' = DOMAIN file \cup {t} /\ \A u \in DOMAIN file' : file'[u] \in Files
      /\ \A u \in DOMAIN file : u # t /\ file'[u] = file[u]
  BY <1>2, <1>3
<1>5. /\ pos' \in [Streams -> 0..(FileSize + FileSize)] /\ copied' \in [Streams -> -1..FileSize]
      /\ pos'[t] = pos[s] /\ copied'[t] = copied[s]
      /\ \A u \in Streams : u # t => pos'[u] = pos[u] /\ copied'[u] = copied[u]
  BY <1>2, <1>3
<1>6. DOMAIN file' \subseteq Streams /\ eof' \subseteq DOMAIN file' BY <1>2, <1>3, <1>4
<1>7. TypeOK' /\ IdInv' /\ WakeInv' BY <1>2, <1>4, <1>5, <1>6, SameStack
<1>8. \A d \in 1..Depth : /\ stack[d].stream \in DOMAIN file /\ stack[d].stream \in Streams
                           /\ stack[d].stream # t
  BY <1>1, <1>2, <1>3 DEF CursorInv
<1>9. CursorInv'
  <2>1. \A u \in Streams : copied'[u] # -1 => copied'[u] = pos'[u] BY <1>1, <1>5 DEF CursorInv
  <2>2. \A d \in 1..Depth : /\ stack[d].stream \in DOMAIN file'
                             /\ pos'[stack[d].stream] <= FileSize
                             /\ stack[d].offset + stack[d].want <= FileSize
    BY <1>1, <1>4, <1>5, <1>8 DEF CursorInv
  <2> QED BY <1>2, <2>1, <2>2 DEF CursorInv, Depth
<1>10. ReadAtCursor' BY <1>1, <1>2, <1>4, <1>5, <1>8 DEF ReadAtCursor, Depth
<1>11. CompleteAtEof' BY <1>1, <1>2, <1>3, <1>5 DEF CompleteAtEof
<1> QED BY <1>7, <1>9, <1>10, <1>11 DEF IInv

\* Read up to SendFrame: a new call, of its own stream and event, for no more
\* than is left of the file.
LEMMA ReadStep ==
  ASSUME IInv, NEW s \in Streams, NEW cb \in 1..FileSize, Read(s, cb)
  PROVE  IInv'
<1> USE DEF mainVars
<1>1. TypeOK /\ CursorInv /\ IdInv /\ WakeInv /\ ReadAtCursor /\ CompleteAtEof BY DEF IInv
<1> DEFINE want == IF FileSize - pos[s] < cb THEN FileSize - pos[s] ELSE cb
           n == Depth
<1>2. /\ Dispatching /\ s \in DOMAIN file /\ pos[s] < FileSize /\ s \notin reading
      /\ calls < MaxCalls /\ reading' = reading \cup {s} /\ calls' = calls + 1
      /\ StageSlot(s, want)
      /\ UNCHANGED <<file, pos, eof, copied, signalled, asked, mainVars>>
  BY DEF Read
<1>3. /\ FileSize \in Nat /\ MaxCalls \in Nat /\ pos \in [Streams -> 0..(FileSize + FileSize)]
      /\ file[s] \in Files /\ calls \in 0..MaxCalls /\ stack \in Seq(Call)
  BY <1>1, <1>2, StreamAssumption DEF TypeOK
<1>4. /\ pos[s] \in 0..FileSize /\ want \in 1..FileSize /\ pos[s] + want <= FileSize
      /\ calls + 1 \in 1..MaxCalls
  BY <1>2, <1>3
<1> HIDE DEF want
<1>5. PICK h \in Handles \ {stack[d].event : d \in 1..n} :
        stack' = Append(stack, [id |-> calls + 1, stream |-> s, offset |-> pos[s], want |-> want,
                                pc |-> "send", event |-> h, received |-> FALSE,
                                cancelled |-> FALSE, data |-> NoData(s)])
  BY <1>2 DEF StageSlot
<1> DEFINE c == [id |-> calls + 1, stream |-> s, offset |-> pos[s], want |-> want,
                 pc |-> "send", event |-> h, received |-> FALSE,
                 cancelled |-> FALSE, data |-> NoData(s)]
<1>6. NoData(s) \in Chunk BY <1>3 DEF NoData, Chunk
<1>7. FALSE \in BOOLEAN BY Zenon
<1>8. c \in Call BY <1>4, <1>5, <1>6, <1>7 DEF Call
<1>9. /\ c.id = calls + 1 /\ c.stream = s /\ c.offset = pos[s] /\ c.want = want /\ c.event = h
      /\ ~c.received /\ ~c.cancelled
  OBVIOUS
<1>10. stack' = Append(stack, c) BY <1>5
<1> HIDE DEF c
<1>11. /\ stack' \in Seq(Call) /\ Depth' = n + 1 /\ n \in Nat /\ stack'[n + 1] = c
       /\ \A d \in 1..n : stack'[d] = stack[d] /\ d \in 1..(n + 1)
       /\ \A d \in 1..(n + 1) : d = n + 1 \/ d \in 1..n
  BY <1>3, <1>8, <1>10, Pushed DEF Depth
<1>12. /\ reading = {stack[d].stream : d \in 1..n} /\ signalled \subseteq {stack[d].event : d \in 1..n}
       /\ \A d, e \in 1..n : d # e => /\ stack[d].stream # stack[e].stream
                                      /\ stack[d].event # stack[e].event
  BY <1>1 DEF TypeOK, AllEvents
<1>13. \A d \in 1..n : stack[d].stream # s /\ stack[d].event # h BY <1>2, <1>5, <1>12
<1>14. \A d \in 1..n : stack[d].pc = "pump"
  <2>1. \A d \in 1..(n - 1) : stack[d].pc = "pump" BY <1>1 DEF TypeOK
  <2>2. n # 0 => stack[n].pc = "pump" BY <1>2 DEF Dispatching, Top
  <2>3. \A d \in 1..n : n # 0 /\ (d = n \/ d \in 1..(n - 1))
    <3>1. n \in Nat BY <1>11
    <3> HIDE DEF n
    <3> QED BY <3>1
  <2> QED BY <2>1, <2>2, <2>3
<1>15. n + 1 \in 1..(n + 1) /\ \A d \in 1..n : d # n + 1
  <2>1. n \in Nat BY <1>11
  <2> HIDE DEF n
  <2> QED BY <2>1
<1> HIDE DEF n
<1>16. TypeOK'
  <2>1. reading' = {stack'[d].stream : d \in 1..(n + 1)}
    <3>1. \A d \in 1..(n + 1) : stack'[d].stream \in reading' BY <1>2, <1>9, <1>11, <1>12
    <3>2. \A t \in reading : \E d \in 1..(n + 1) : t = stack'[d].stream BY <1>11, <1>12
    <3>3. s = stack'[n + 1].stream BY <1>9, <1>11
    <3>4. \A t \in reading' : \E d \in 1..(n + 1) : t = stack'[d].stream
      BY <1>2, <1>15, <3>2, <3>3
    <3> QED BY <3>1, <3>4
  <2>2. signalled' \subseteq {stack'[d].event : d \in 1..(n + 1)} BY <1>2, <1>11, <1>12
  <2>3. \A d, e \in 1..(n + 1) : d # e => /\ stack'[d].stream # stack'[e].stream
                                         /\ stack'[d].event # stack'[e].event
    BY <1>9, <1>11, <1>12, <1>13
  <2>4. \A d \in 1..(n + 1 - 1) : stack'[d].pc = "pump"
    <3>1. n + 1 - 1 = n BY <1>11
    <3> QED BY <1>11, <1>14, <3>1
  <2>5. /\ DOMAIN file \subseteq Streams /\ \A t \in DOMAIN file : file[t] \in Files
        /\ pos \in [Streams -> 0..(FileSize + FileSize)] /\ eof \subseteq DOMAIN file
        /\ copied \in [Streams -> -1..FileSize] /\ asked \subseteq Request
        /\ connected \in BOOLEAN
        /\ phase \in {"serving", "ended", "cancelled", "stopped"}
        /\ signals \subseteq [id : 1..MaxCalls, event : Handles]
    BY <1>1 DEF TypeOK
  <2>6. calls' \in 0..MaxCalls BY <1>2, <1>3, <1>4
  <2> QED BY <1>2, <1>11, <2>1, <2>2, <2>3, <2>4, <2>5, <2>6 DEF TypeOK, AllEvents
<1>17. IdInv'
  <2>1. /\ \A d \in 1..n : stack[d].id <= calls /\ stack[d].id \in Nat
        /\ \A d, e \in 1..n : d # e => stack[d].id # stack[e].id
        /\ \A g \in signals : g.id <= calls /\ g.id \in Nat
        /\ \A g \in signals, d \in 1..n : g.id = stack[d].id => g.event = stack[d].event
    <3>1. \A d \in 1..n : stack[d] \in Call BY <1>3, ElementOfSeq DEF n, Depth
    <3>2. \A d \in 1..n : stack[d].id \in Nat BY <3>1 DEF Call
    <3>3. \A g \in signals : g.id \in Nat BY <1>1 DEF TypeOK
    <3> QED BY <1>1, <3>2, <3>3 DEF IdInv, n
  <2>2. \A d \in 1..n : stack[d].id # calls + 1 /\ stack[d].id <= calls + 1 BY <1>3, <2>1
  <2>3. \A g \in signals : g.id # calls + 1 /\ g.id <= calls + 1 BY <1>3, <2>1
  <2>4. \A d \in 1..(n + 1) : stack'[d].id <= calls'
    <3>1. calls + 1 <= calls + 1 BY <1>3
    <3> QED BY <1>2, <1>9, <1>11, <2>2, <3>1
  <2>5. \A d, e \in 1..(n + 1) : d # e => stack'[d].id # stack'[e].id
    <3> SUFFICES ASSUME NEW d \in 1..(n + 1), NEW e \in 1..(n + 1), d # e
                 PROVE  stack'[d].id # stack'[e].id
      OBVIOUS
    <3>1. CASE d \in 1..n /\ e \in 1..n BY <1>11, <2>1, <3>1
    <3>2. CASE d = n + 1 /\ e \in 1..n BY <1>9, <1>11, <2>2, <3>2
    <3>3. CASE d \in 1..n /\ e = n + 1 BY <1>9, <1>11, <2>2, <3>3
    <3> QED BY <1>11, <3>1, <3>2, <3>3
  <2>6. \A g \in signals', d \in 1..(n + 1) : g.id = stack'[d].id => g.event = stack'[d].event
    <3> SUFFICES ASSUME NEW g \in signals, NEW d \in 1..(n + 1), g.id = stack'[d].id
                 PROVE  g.event = stack'[d].event
      BY <1>2
    <3>1. CASE d \in 1..n BY <1>11, <2>1, <3>1
    <3>2. CASE d = n + 1 BY <1>9, <1>11, <2>3, <3>2
    <3> QED BY <1>11, <3>1, <3>2
  <2> QED BY <1>2, <1>11, <2>3, <2>4, <2>5, <2>6 DEF IdInv
<1>18. WakeInv'
  <2>1. \A d \in 1..n : stack[d].received \/ stack[d].cancelled =>
          stack[d].event \in signalled \/ \E g \in signals : g.id = stack[d].id
    BY <1>1 DEF WakeInv, n
  <2>2. \A d \in 1..(n + 1) : stack'[d].received \/ stack'[d].cancelled =>
          stack'[d].event \in signalled \/ \E g \in signals : g.id = stack'[d].id
    BY <1>9, <1>11, <2>1
  <2> QED BY <1>2, <1>11, <2>2 DEF WakeInv
<1>19. CursorInv'
  <2>1. \A d \in 1..n : /\ stack[d].stream \in DOMAIN file /\ pos[stack[d].stream] <= FileSize
                        /\ stack[d].offset + stack[d].want <= FileSize
    BY <1>1 DEF CursorInv, n
  <2>2. pos[s] <= FileSize BY <1>3, <1>4
  <2>3. \A d \in 1..(n + 1) : /\ stack'[d].stream \in DOMAIN file
                              /\ pos[stack'[d].stream] <= FileSize
                              /\ stack'[d].offset + stack'[d].want <= FileSize
    BY <1>2, <1>4, <1>9, <1>11, <2>1, <2>2
  <2> QED BY <1>1, <1>2, <1>11, <2>3 DEF CursorInv
<1>20. ReadAtCursor'
  <2>1. \A d \in 1..n : /\ copied[stack[d].stream] # -1 => stack[d].offset = pos[stack[d].stream]
                        /\ stack[d].received => /\ stack[d].data.file = file[stack[d].stream]
                                                /\ stack[d].data.offset = stack[d].offset
    BY <1>1 DEF ReadAtCursor, n
  <2>2. \A d \in 1..(n + 1) :
          /\ copied[stack'[d].stream] # -1 => stack'[d].offset = pos[stack'[d].stream]
          /\ stack'[d].received => /\ stack'[d].data.file = file[stack'[d].stream]
                                   /\ stack'[d].data.offset = stack'[d].offset
    BY <1>9, <1>11, <2>1
  <2> QED BY <1>2, <1>11, <2>2 DEF ReadAtCursor
<1>21. CompleteAtEof' BY <1>1, <1>2 DEF CompleteAtEof
<1> QED BY <1>16, <1>17, <1>18, <1>19, <1>20, <1>21 DEF IInv
-----------------------------------------------------------------------------
(* The theorems. *)

\* The invariant holds at start-up and is kept by every step.
LEMMA InvHolds == Spec => []IInv
<1>1. Init => IInv
  <2> SUFFICES ASSUME Init PROVE IInv OBVIOUS
  <2>1. FileSize \in Nat /\ MaxCalls \in Nat BY StreamAssumption
  <2>2. Depth = 0 /\ 1..Depth = {} BY DEF Init, Depth
  <2>3. DOMAIN file \subseteq Streams /\ \A s \in DOMAIN file : file[s] \in Files
    BY StreamAssumption DEF Init
  <2>4. pos \in [Streams -> 0..(FileSize + FileSize)] /\ copied \in [Streams -> -1..FileSize]
    BY <2>1 DEF Init
  <2>5. stack \in Seq(Call) BY DEF Init
  <2>6. connected \in BOOLEAN BY Zenon DEF Init
  <2>7. /\ reading = {} /\ {stack[d].stream : d \in 1..Depth} = {} BY <2>2 DEF Init
  <2>8. 1..(Depth - 1) = {} BY <2>2
  <2>9. calls \in 0..MaxCalls BY <2>1 DEF Init
  <2>10. TypeOK BY <2>2, <2>3, <2>4, <2>5, <2>6, <2>7, <2>8, <2>9 DEF Init, TypeOK
  <2>11. CursorInv BY <2>2 DEF Init, CursorInv
  <2>12. IdInv BY <2>2 DEF Init, IdInv
  <2>13. WakeInv /\ ReadAtCursor BY <2>2 DEF WakeInv, ReadAtCursor
  <2>14. CompleteAtEof BY DEF Init, CompleteAtEof
  <2> QED BY <2>10, <2>11, <2>12, <2>13, <2>14 DEF IInv
<1>2. ASSUME IInv, [Next]_vars PROVE IInv'
  <2>1. CASE FetchNext \/ WakeByMessage \/ ChunkTimeout BY <1>2, <2>1, FetchStep
  <2>2. CASE ConsumerNext
    <3>1. PICK s \in Streams :
            \/ ReadAtEof(s)
            \/ \E cb \in 1..FileSize : Read(s, cb)
            \/ \E target \in 0..FileSize : Seek(s, target)
            \/ \E t \in Streams : Clone(s, t)
      BY <2>2 DEF ConsumerNext
    <3>2. CASE ReadAtEof(s) BY <1>2, <3>2, ReadAtEofStep
    <3>3. CASE \E cb \in 1..FileSize : Read(s, cb) BY <1>2, <3>3, ReadStep
    <3>4. CASE \E target \in 0..FileSize : Seek(s, target) BY <1>2, <3>4, SeekStep
    <3>5. CASE \E t \in Streams : Clone(s, t) BY <1>2, <3>5, CloneStep
    <3> QED BY <3>1, <3>2, <3>3, <3>4, <3>5
  <2>3. CASE ClipboardRotated \/ ReleaseStaBoundResources BY <1>2, <2>3, CancelStep
  <2>4. CASE Deliver BY <1>2, <2>4, DeliverStep
  <2>5. CASE SetEvents \/ Disconnect \/ Reconnect \/ ServeEnds \/ StaStop
    BY <1>2, <2>5, MainStep
  <2>6. CASE UNCHANGED vars
    <3>1. UNCHANGED <<file, pos, reading, copied, eof, stack, calls, signalled, asked,
                      connected, phase, signals>>
      BY <2>6 DEF vars, streamVars, mainVars
    <3>2. TypeOK' BY <1>2, <3>1 DEF IInv, TypeOK, AllEvents, Depth
    <3>3. CursorInv' /\ IdInv' /\ WakeInv'
      BY <1>2, <3>1 DEF IInv, CursorInv, IdInv, WakeInv, Depth
    <3>4. ReadAtCursor' /\ CompleteAtEof'
      BY <1>2, <3>1 DEF IInv, ReadAtCursor, CompleteAtEof, Depth
    <3> QED BY <3>2, <3>3, <3>4 DEF IInv
  <2> QED BY <1>2, <2>1, <2>2, <2>3, <2>4, <2>5, <2>6 DEF Next
<1> QED BY <1>1, <1>2, PTL DEF Spec

\* Every call in flight has a stream and an event of its own, and only the
\* innermost one can be anywhere but in its pump.
THEOREM TypeCorrect == Spec => []TypeOK
<1>1. IInv => TypeOK BY DEF IInv
<1> QED BY <1>1, InvHolds, PTL

\* A read gets the bytes of its own file at its own offset, and its stream is
\* still there unless the consumer seeks, whatever is read, cloned, cancelled
\* or answered in the meantime (VirtualFileStream::Read, reading_).
THEOREM ReadsAtCursor == Spec => []ReadAtCursor
<1>1. IInv => ReadAtCursor BY DEF IInv
<1> QED BY <1>1, InvHolds, PTL

\* A consumer that only reads and is told end of file has every byte.
THEOREM EofIsComplete == Spec => []CompleteAtEof
<1>1. IInv => CompleteAtEof BY DEF IInv
<1> QED BY <1>1, InvHolds, PTL

\* A call that is answered or cancelled while it waits has its event set, or
\* the main thread is about to set it: setting it after the unlock loses no
\* wake-up, though the handle may meanwhile be another call's.
THEOREM NoWakeupIsLost == Spec => []NoLostWakeup
<1>1. IInv => NoLostWakeup BY DEF IInv, WakeInv, NoLostWakeup
<1> QED BY <1>1, InvHolds, PTL
=============================================================================
