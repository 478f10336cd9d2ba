------------------------ MODULE WinPipeServerProofs ------------------------
(***************************************************************************)
(* Proofs about WinPipeServer, for any number of pipe instances and frames *)
(* and any pipe buffer: its type invariant, the FIFO order of frames, and  *)
(* that the published handle is open.                                      *)
(***************************************************************************)
EXTENDS WinPipeServer, SequenceTheorems, TLAPS

(* Sequences of frames and their order. *)

Increasing(s) == \A i, j \in 1..Len(s) : i < j => s[i].n < s[j].n

Precedes(s, t) == \A i \in 1..Len(s), j \in 1..Len(t) : s[i].n < t[j].n

Below(s, n) == \A i \in 1..Len(s) : s[i].n < n

Above(s, n) == \A i \in 1..Len(s) : n < s[i].n

\* What is appended to a sequence stands behind the others.
LEMMA Appended ==
  ASSUME NEW s \in Seq(FrameSet), NEW e \in FrameSet
  PROVE  /\ Append(s, e) \in Seq(FrameSet) /\ Len(s) \in Nat
         /\ \A i \in 1..Len(Append(s, e)) :
              \/ i \in 1..Len(s) /\ Append(s, e)[i] = s[i]
              \/ i = Len(s) + 1 /\ Append(s, e)[i] = e
<1>1. /\ Append(s, e) \in Seq(FrameSet) /\ Len(Append(s, e)) = Len(s) + 1
      /\ \A i \in 1..Len(s) : Append(s, e)[i] = s[i]
      /\ Append(s, e)[Len(s) + 1] = e
  BY AppendProperties
<1>2. Len(s) \in Nat BY LenProperties
<1> QED BY <1>1, <1>2

\* A later frame may be appended.
LEMMA AppendIncreasing ==
  ASSUME NEW s \in Seq(FrameSet), NEW e \in FrameSet, Increasing(s), Below(s, e.n)
  PROVE  Increasing(Append(s, e))
<1> DEFINE a == Append(s, e)
<1>1. /\ Len(s) \in Nat
      /\ \A i \in 1..Len(a) : \/ i \in 1..Len(s) /\ a[i] = s[i]
                              \/ i = Len(s) + 1 /\ a[i] = e
  BY Appended
<1> HIDE DEF a
<1>2. ASSUME NEW i \in 1..Len(a), NEW j \in 1..Len(a), i < j PROVE a[i].n < a[j].n
  <2>1. i \in 1..Len(s) /\ a[i] = s[i] BY <1>1, <1>2
  <2>2. CASE j \in 1..Len(s) /\ a[j] = s[j] BY <1>2, <2>1, <2>2 DEF Increasing
  <2>3. CASE a[j] = e BY <2>1, <2>3 DEF Below
  <2> QED BY <1>1, <2>2, <2>3
<1> QED BY <1>2 DEF Increasing, a

\* A frame is appended behind a sequence, or to one that stays in front.
LEMMA AppendPrecedes ==
  ASSUME NEW s \in Seq(FrameSet), NEW t \in Seq(FrameSet), NEW e \in FrameSet, Precedes(s, t)
  PROVE  /\ Below(s, e.n) => Precedes(s, Append(t, e))
         /\ Above(t, e.n) => Precedes(Append(s, e), t)
<1>1. ASSUME Below(s, e.n) PROVE Precedes(s, Append(t, e))
  BY <1>1, Appended DEF Below, Precedes
<1>2. ASSUME Above(t, e.n) PROVE Precedes(Append(s, e), t)
  BY <1>2, Appended DEF Above, Precedes
<1> QED BY <1>1, <1>2

\* A frame below a bound is appended below it.
LEMMA AppendBelow ==
  ASSUME NEW s \in Seq(FrameSet), NEW e \in FrameSet, NEW n, Below(s, n), e.n < n
  PROVE  Below(Append(s, e), n)
BY Appended DEF Below

\* The first frame is taken off; what is left is behind it.
LEMMA Taken ==
  ASSUME NEW s \in Seq(FrameSet), s # <<>>
  PROVE  /\ Head(s) \in FrameSet /\ Head(s) = s[1] /\ 1 \in 1..Len(s)
         /\ Tail(s) \in Seq(FrameSet)
         /\ \A i \in 1..Len(Tail(s)) : i + 1 \in 1..Len(s) /\ Tail(s)[i] = s[i + 1]
<1>1. Len(s) \in Nat /\ Len(s) # 0 BY EmptySeq, LenProperties
<1>2. /\ Head(s) \in FrameSet /\ Tail(s) \in Seq(FrameSet) /\ Len(Tail(s)) = Len(s) - 1
      /\ \A i \in 1..Len(Tail(s)) : Tail(s)[i] = s[i + 1]
  BY HeadTailProperties
<1>3. Head(s) = s[1] OBVIOUS
<1> QED BY <1>1, <1>2, <1>3

\* An increasing sequence stays one, above the frame taken off it.
LEMMA TailIncreasing ==
  ASSUME NEW s \in Seq(FrameSet), s # <<>>, Increasing(s)
  PROVE  Increasing(Tail(s)) /\ Above(Tail(s), Head(s).n)
<1>1. ASSUME NEW i \in 1..Len(Tail(s)), NEW j \in 1..Len(Tail(s)), i < j
      PROVE  Tail(s)[i].n < Tail(s)[j].n
  <2>1. /\ i + 1 \in 1..Len(s) /\ Tail(s)[i] = s[i + 1]
        /\ j + 1 \in 1..Len(s) /\ Tail(s)[j] = s[j + 1]
    BY Taken
  <2>2. i + 1 < j + 1 BY <1>1
  <2> QED BY <2>1, <2>2 DEF Increasing
<1>2. ASSUME NEW i \in 1..Len(Tail(s)) PROVE Head(s).n < Tail(s)[i].n
  <2>1. /\ i + 1 \in 1..Len(s) /\ Tail(s)[i] = s[i + 1] /\ Head(s) = s[1] /\ 1 \in 1..Len(s)
    BY Taken
  <2>2. 1 < i + 1 OBVIOUS
  <2> QED BY <2>1, <2>2 DEF Increasing
<1> QED BY <1>1, <1>2 DEF Increasing, Above

\* Taking off the first frame of either sequence keeps them in order.
LEMMA TailPrecedes ==
  ASSUME NEW s \in Seq(FrameSet), NEW t \in Seq(FrameSet), Precedes(s, t)
  PROVE  /\ t # <<>> => Precedes(s, Tail(t)) /\ Below(s, Head(t).n)
         /\ s # <<>> => Precedes(Tail(s), t) /\ Above(t, Head(s).n)
<1>1. ASSUME t # <<>> PROVE Precedes(s, Tail(t)) /\ Below(s, Head(t).n)
  BY <1>1, Taken DEF Precedes, Below
<1>2. ASSUME s # <<>> PROVE Precedes(Tail(s), t) /\ Above(t, Head(s).n)
  BY <1>2, Taken DEF Precedes, Above
<1> QED BY <1>1, <1>2

\* A bound of a sequence bounds its first frame and what is left.
LEMMA TailBelow ==
  ASSUME NEW s \in Seq(FrameSet), s # <<>>, NEW n, Below(s, n)
  PROVE  Below(Tail(s), n) /\ Head(s).n < n
BY Taken DEF Below

\* An empty sequence is in order with everything.
LEMMA EmptyOrder ==
  /\ <<>> \in Seq(FrameSet) /\ Increasing(<<>>)
  /\ \A n : Below(<<>>, n) /\ Above(<<>>, n)
  /\ \A s : Precedes(s, <<>>) /\ Precedes(<<>>, s)
BY EmptySeq DEF Increasing, Below, Above, Precedes

\* Two sequences in order, one behind the other.
LEMMA ConcatIncreasing ==
  ASSUME NEW s \in Seq(FrameSet), NEW t \in Seq(FrameSet), Increasing(s), Increasing(t),
         Precedes(s, t)
  PROVE  /\ s \o t \in Seq(FrameSet) /\ Increasing(s \o t)
         /\ \A u : Precedes(s, u) /\ Precedes(t, u) => Precedes(s \o t, u)
<1> DEFINE c == s \o t
<1>1. /\ c \in Seq(FrameSet) /\ Len(c) = Len(s) + Len(t)
      /\ \A i \in 1..Len(c) : c[i] = IF i <= Len(s) THEN s[i] ELSE t[i - Len(s)]
  BY ConcatProperties
<1>2. Len(s) \in Nat /\ Len(t) \in Nat BY LenProperties
<1> HIDE DEF c
<1>3. ASSUME NEW i \in 1..Len(c)
      PROVE  \/ i \in 1..Len(s) /\ c[i] = s[i]
             \/ i > Len(s) /\ i - Len(s) \in 1..Len(t) /\ c[i] = t[i - Len(s)]
  BY <1>1, <1>2
<1>4. ASSUME NEW i \in 1..Len(c), NEW j \in 1..Len(c), i < j PROVE c[i].n < c[j].n
  <2>1. CASE i \in 1..Len(s) /\ c[i] = s[i] /\ j \in 1..Len(s) /\ c[j] = s[j]
    BY <1>4, <2>1 DEF Increasing
  <2>2. CASE /\ i \in 1..Len(s) /\ c[i] = s[i]
             /\ j - Len(s) \in 1..Len(t) /\ c[j] = t[j - Len(s)]
    BY <2>2 DEF Precedes
  <2>3. CASE /\ i - Len(s) \in 1..Len(t) /\ c[i] = t[i - Len(s)]
             /\ j - Len(s) \in 1..Len(t) /\ c[j] = t[j - Len(s)]
    <3>1. i - Len(s) < j - Len(s) BY <1>2, <1>4
    <3> QED BY <2>3, <3>1 DEF Increasing
  <2>4. ~(i > Len(s) /\ j \in 1..Len(s)) BY <1>2, <1>4
  <2> QED BY <1>3, <2>1, <2>2, <2>3, <2>4
<1>5. ASSUME NEW u, Precedes(s, u), Precedes(t, u) PROVE Precedes(c, u)
  BY <1>3, <1>5 DEF Precedes
<1> QED BY <1>1, <1>4, <1>5 DEF Increasing, c

(* The inductive invariant, in parts. *)

FlagInv ==
  /\ admitted \in BOOLEAN
  /\ stop \in BOOLEAN /\ stop_event \in BOOLEAN /\ handleOpen \in BOOLEAN
  /\ stopper \in {"no", "stored", "signalled", "done"}

\* From CreatePipe to its end Run holds an open handle, published only while a
\* client is served.
HandleInv ==
  /\ active_pipe \in 0..MaxPipes /\ instance \in 0..MaxPipes
  /\ sender \in 0..MaxPipes /\ target \in 0..MaxPipes
  /\ run \in {"create", "connect", "onconnect", "ready", "serve", "read", "handle", "reply",
              "clear", "flush", "join", "done"}
  /\ client \in {"away", "here", "gone"}
  /\ run \notin {"create", "join", "done"} => handleOpen /\ instance > 0
  /\ active_pipe # 0 => /\ active_pipe = instance
                        /\ run \in {"onconnect", "ready", "serve", "read", "handle", "reply", "clear"}

\* The frames that may still be enqueued: a push, replies, and the READY of an
\* instance that is not served yet.
Pending ==
  (IF sender # 0 THEN 1 ELSE 0) + (IF inbox = "GET" THEN 1 ELSE 0)
    + (IF request = "GET" THEN 1 ELSE 0)
    + (IF run \in {"connect", "onconnect", "ready"} THEN 1 ELSE 0)

CountInv ==
  /\ enqueued \in Nat /\ request \in Requests /\ inbox \in Requests
  /\ run = "reply" => request = "GET"
  /\ enqueued + Pending <= MaxFrames + instance

InHand == writer \in {"route", "write"}

\* What the client got, what is in the pipe, what the writer has in hand and
\* what is queued were enqueued in this order.
OrderInv ==
  /\ Increasing(got) /\ Increasing(wire) /\ Increasing(outbound)
  /\ Precedes(got, wire) /\ Precedes(got, outbound) /\ Precedes(wire, outbound)
  /\ Below(got, enqueued + 1) /\ Below(wire, enqueued + 1) /\ Below(outbound, enqueued + 1)
  /\ InHand => /\ Below(got, popped.n) /\ Below(wire, popped.n)
               /\ Above(outbound, popped.n) /\ popped.n < enqueued + 1

QueueInv ==
  /\ outbound \in Seq(FrameSet) /\ wire \in Seq(FrameSet) /\ got \in Seq(FrameSet)
  /\ popped \in FrameSet
  /\ writer \in {"check", "dozing", "asleep", "route", "write", "exit"}
  /\ OrderInv

IInv == FlagInv /\ HandleInv /\ CountInv /\ QueueInv

\* The invariant holds at the start.
LEMMA InvInit == Init => IInv
<1> SUFFICES ASSUME Init PROVE IInv OBVIOUS
<1>1. FlagInv
  <2>1. /\ stop \in BOOLEAN /\ stop_event \in BOOLEAN /\ handleOpen \in BOOLEAN
        /\ admitted \in BOOLEAN
    BY Zenon DEF Init
  <2>2. stopper = "no" BY DEF Init
  <2> QED BY <2>1, <2>2 DEF FlagInv
<1>2. HandleInv BY BoundsAssumption DEF Init, HandleInv
<1>3. CountInv BY BoundsAssumption DEF Init, CountInv, Pending, Requests
<1>4. QueueInv
  <2>1. NoFrame \in FrameSet BY BoundsAssumption DEF NoFrame, FrameSet, Kind, FrameNo
  <2>2. outbound = <<>> /\ wire = <<>> /\ got = <<>> /\ popped = NoFrame /\ writer = "check"
    BY DEF Init
  <2> QED BY <2>1, <2>2, EmptyOrder DEF QueueInv, OrderInv, InHand
<1> QED BY <1>1, <1>2, <1>3, <1>4 DEF IInv

\* The flags stay flags.
LEMMA FlagStep == ASSUME FlagInv, [Next]_vars PROVE FlagInv'
<1>1. CASE StopBegin
  <2>1. stop' \in BOOLEAN BY <1>1, Zenon DEF StopBegin
  <2>2. stopper' = "stored" /\ UNCHANGED <<stop_event, handleOpen, admitted>>
    BY <1>1 DEF StopBegin, senderVars
  <2> QED BY <2>1, <2>2 DEF FlagInv
<1>2. CASE StopSignal
  <2>1. stop_event' \in BOOLEAN BY <1>2, Zenon DEF StopSignal
  <2>2. stopper' = "signalled" /\ UNCHANGED <<stop, handleOpen, admitted>>
    BY <1>2 DEF StopSignal, senderVars
  <2> QED BY <2>1, <2>2 DEF FlagInv
<1>3. CASE StopNotify BY <1>3 DEF StopNotify, FlagInv, senderVars
<1>4. CASE CreatePipe \/ ConnectAborted \/ FlushAndClose
  <2>1. handleOpen' \in BOOLEAN BY <1>4, Zenon DEF CreatePipe, ConnectAborted, FlushAndClose
  <2>2. UNCHANGED <<serverVars, admitted>>
    BY <1>4 DEF CreatePipe, ConnectAborted, FlushAndClose, senderVars
  <2> QED BY <2>1, <2>2 DEF FlagInv, serverVars
<1>5. CASE UNCHANGED <<serverVars, handleOpen, admitted>> BY <1>5 DEF FlagInv, serverVars
<1>6. CASE RunNext
  <2>1. CASE HandleShutdown BY <1>1, <2>1 DEF HandleShutdown
  <2>2. CASE \/ ConnectClient \/ OnConnect \/ OnConnectEnqueue \/ ServeLoop \/ ReadFrame
             \/ ReadFrameFails \/ HandleFrame \/ HandleEnqueue \/ ClearActive \/ LeaveLoop \/ Join
    BY <1>5, <2>2 DEF ConnectClient, OnConnect, OnConnectEnqueue, ServeLoop, ReadFrame,
       ReadFrameFails, HandleFrame, HandleEnqueue, ClearActive, LeaveLoop, Join, senderVars
  <2> QED BY <1>4, <1>6, <2>1, <2>2 DEF RunNext
<1>7. CASE WriterNext
  BY <1>5, <1>7 DEF WriterNext, WriterCheck, WriterSleep, WriterRoute, WriteFrame,
     WriteFrameRefused, WriteFrameFails, WriterDone, senderVars
<1>8. CASE SendNext
  <2>1. admitted' \in BOOLEAN
    <3>1. CASE SendFrameAdmit
      <4>1. CASE stop BY <3>1, <4>1 DEF SendFrameAdmit, FlagInv
      <4>2. CASE ~stop BY <3>1, <4>2, Zenon DEF SendFrameAdmit
      <4> QED BY <4>1, <4>2
    <3>2. CASE SendFrameEnqueue BY <3>2, Zenon DEF SendFrameEnqueue
    <3> QED BY <1>8, <3>1, <3>2 DEF SendNext
  <2>2. UNCHANGED <<serverVars, handleOpen>>
    BY <1>8 DEF SendNext, SendFrameAdmit, SendFrameEnqueue
  <2> QED BY <2>1, <2>2 DEF FlagInv, serverVars
<1>9. CASE SendFrameCheck \/ ClientConnect \/ ClientSend \/ ClientRead \/ ClientClose
  BY <1>5, <1>9 DEF SendFrameCheck, ClientConnect, ClientSend, ClientRead, ClientClose, senderVars
<1>10. CASE UNCHANGED vars BY <1>5, <1>10 DEF vars, senderVars
<1> QED BY <1>1, <1>2, <1>3, <1>6, <1>7, <1>8, <1>9, <1>10 DEF Next, StopNext

\* The handle is opened and closed by Run alone, and published in between.
LEMMA HandleStep == ASSUME HandleInv, FlagInv, [Next]_vars PROVE HandleInv'
<1> USE BoundsAssumption DEF HandleInv, senderVars
<1>1. CASE UNCHANGED <<active_pipe, instance, sender, target, run, client, handleOpen>>
  BY <1>1
<1>2. CASE CreatePipe BY <1>2 DEF CreatePipe, writerVars
<1>3. CASE ConnectClient BY <1>3 DEF ConnectClient, writerVars, clientVars
<1>4. CASE ConnectAborted BY <1>4 DEF ConnectAborted, writerVars
<1>5. CASE OnConnect \/ OnConnectEnqueue
  BY <1>5 DEF OnConnect, OnConnectEnqueue, writerVars, clientVars
<1>6. CASE ServeLoop BY <1>6 DEF ServeLoop, writerVars, clientVars
<1>7. CASE ReadFrame BY <1>7 DEF ReadFrame, writerVars
<1>8. CASE ReadFrameFails BY <1>8 DEF ReadFrameFails, writerVars, clientVars
<1>9. CASE HandleShutdown
  BY <1>1, <1>9 DEF HandleShutdown, StopBegin, writerVars, clientVars
<1>10. CASE HandleFrame \/ HandleEnqueue
  BY <1>10 DEF HandleFrame, HandleEnqueue, writerVars, clientVars
<1>11. CASE ClearActive BY <1>11 DEF ClearActive, writerVars, clientVars
<1>12. CASE FlushAndClose BY <1>12 DEF FlushAndClose, writerVars
<1>13. CASE LeaveLoop \/ Join BY <1>13 DEF LeaveLoop, Join, writerVars, clientVars
<1>14. CASE RunNext
  BY <1>2, <1>3, <1>4, <1>5, <1>6, <1>7, <1>8, <1>9, <1>10, <1>11, <1>12, <1>13, <1>14
     DEF RunNext
<1>15. CASE WriterCheck \/ WriterSleep
  BY <1>1, <1>15 DEF WriterCheck, WriterSleep, clientVars
<1>16. CASE WriterRoute BY <1>16 DEF WriterRoute, clientVars
<1>17. CASE WriteFrame \/ WriteFrameRefused \/ WriteFrameFails
  BY <1>17 DEF WriteFrame, WriteFrameRefused, WriteFrameFails, WriterDone, clientVars
<1>18. CASE StopBegin \/ StopSignal \/ StopNotify
  BY <1>1, <1>18 DEF StopBegin, StopSignal, StopNotify, writerVars, clientVars
<1>19. CASE SendFrameCheck \/ SendFrameAdmit \/ SendFrameEnqueue
  BY <1>19 DEF SendFrameCheck, SendFrameAdmit, SendFrameEnqueue, writerVars, clientVars
<1>20. CASE ClientConnect \/ ClientSend \/ ClientRead \/ ClientClose
  BY <1>20 DEF ClientConnect, ClientSend, ClientRead, ClientClose, writerVars
<1>21. CASE UNCHANGED vars BY <1>1, <1>21 DEF vars, writerVars, clientVars
<1> QED
  BY <1>14, <1>15, <1>16, <1>17, <1>18, <1>19, <1>20, <1>21
     DEF Next, WriterNext, StopNext, SendNext

\* What is enqueued is no longer pending.
LEMMA Accounted ==
  ASSUME NEW e \in Nat, NEW f \in Nat, NEW p \in Nat, NEW q \in Nat, NEW m \in Nat,
         f <= e + 1, p = q + 1, e + p <= m
  PROVE  f + q <= m
OBVIOUS

\* Every frame is accounted for before it is enqueued.
LEMMA CountStep == ASSUME HandleInv, CountInv, [Next]_vars PROVE CountInv'
<1> USE BoundsAssumption DEF CountInv, Pending, HandleInv, senderVars
<1>1. CASE UNCHANGED <<enqueued, request, inbox, sender, run, instance>> BY <1>1
<1>2. CASE CreatePipe BY <1>2 DEF CreatePipe, Requests
<1>3. CASE ConnectClient BY <1>3 DEF ConnectClient, clientVars
<1>4. CASE ConnectAborted BY <1>4 DEF ConnectAborted, Requests
<1>5. CASE OnConnect BY <1>5 DEF OnConnect, clientVars
<1>6. CASE ServeLoop BY <1>6 DEF ServeLoop, clientVars
<1>7. CASE ReadFrame BY <1>7 DEF ReadFrame, Requests
<1>8. CASE ReadFrameFails BY <1>8 DEF ReadFrameFails, clientVars
<1>9. CASE HandleShutdown BY <1>1, <1>9 DEF HandleShutdown, StopBegin, clientVars
<1>10. CASE HandleFrame
  <2>1. /\ run = "handle" /\ UNCHANGED <<enqueued, inbox, sender, instance>>
        /\ \/ request = "GET" /\ run' = "reply" /\ UNCHANGED request
           \/ run' = "serve" /\ request' = "none"
    BY <1>10 DEF HandleFrame, clientVars
  <2> QED BY <2>1 DEF Requests
<1>11. CASE ClearActive BY <1>11 DEF ClearActive, clientVars
<1>12. CASE FlushAndClose BY <1>12 DEF FlushAndClose, Requests
<1>13. CASE LeaveLoop \/ Join BY <1>13 DEF LeaveLoop, Join, clientVars
<1>14. CASE OnConnectEnqueue \/ HandleEnqueue \/ SendFrameEnqueue
  <2>1. enqueued' = enqueued + 1 /\ enqueued \in Nat /\ UNCHANGED <<inbox, instance>>
    BY <1>14 DEF OnConnectEnqueue, HandleEnqueue, SendFrameEnqueue, EnqueueOutbound, clientVars
  <2>2. /\ Pending = Pending' + 1 /\ Pending \in Nat /\ Pending' \in Nat
        /\ request' \in Requests /\ (run' = "reply" => request' = "GET")
    <3>1. CASE OnConnectEnqueue
      <4>1. run = "ready" /\ run' = "serve" /\ UNCHANGED <<request, inbox, sender>>
        BY <3>1 DEF OnConnectEnqueue, clientVars
      <4> QED BY <4>1
    <3>2. CASE HandleEnqueue
      <4>1. /\ run = "reply" /\ run' = "serve" /\ request = "GET" /\ request' = "none"
            /\ UNCHANGED <<inbox, sender>>
        BY <3>2 DEF HandleEnqueue, clientVars
      <4> QED BY <4>1 DEF Requests
    <3>3. CASE SendFrameEnqueue
      <4>1. sender # 0 /\ sender' = 0 /\ UNCHANGED <<run, request, inbox>>
        BY <3>3 DEF SendFrameEnqueue, clientVars
      <4> QED BY <4>1
    <3> QED BY <1>14, <3>1, <3>2, <3>3
  <2>3. inbox' \in Requests BY <2>1
  <2>4. enqueued + Pending <= MaxFrames + instance /\ instance \in Nat OBVIOUS
  <2> HIDE DEF Pending, CountInv, HandleInv
  <2>5. enqueued' + Pending' <= MaxFrames + instance'
    <3>1. enqueued' \in Nat /\ enqueued' <= enqueued + 1 BY <2>1
    <3> QED BY <2>1, <2>2, <2>4, <3>1, MaxFrames + instance \in Nat, Accounted
  <2> QED BY <2>1, <2>2, <2>3, <2>5 DEF CountInv
<1>15. CASE RunNext
  BY <1>2, <1>3, <1>4, <1>5, <1>6, <1>7, <1>8, <1>9, <1>10, <1>11, <1>12, <1>13, <1>14, <1>15
     DEF RunNext
<1>16. CASE WriterNext
  BY <1>1, <1>16 DEF WriterNext, WriterCheck, WriterSleep, WriterRoute, WriteFrame,
     WriteFrameRefused, WriteFrameFails, WriterDone, clientVars
<1>17. CASE StopBegin \/ StopSignal \/ StopNotify
  BY <1>1, <1>17 DEF StopBegin, StopSignal, StopNotify, clientVars
<1>18. CASE SendFrameCheck BY <1>18 DEF SendFrameCheck, Room, clientVars
<1>19. CASE SendFrameAdmit BY <1>19 DEF SendFrameAdmit, clientVars
<1>20. CASE ClientSend BY <1>20 DEF ClientSend, Room, Requests
<1>21. CASE ClientConnect \/ ClientRead \/ ClientClose
  BY <1>1, <1>21 DEF ClientConnect, ClientRead, ClientClose
<1>22. CASE UNCHANGED vars BY <1>1, <1>22 DEF vars, clientVars
<1> QED
  BY <1>14, <1>15, <1>16, <1>17, <1>18, <1>19, <1>20, <1>21, <1>22 DEF Next, StopNext, SendNext

\* A frame is enqueued behind everything on its way.
LEMMA EnqueueKeeps ==
  ASSUME FlagInv, HandleInv, CountInv, QueueInv, Pending >= 1,
         NEW kind \in Kind, NEW pipe \in 0..MaxPipes, NEW big \in BOOLEAN,
         EnqueueOutbound(kind, pipe, big), UNCHANGED <<wire, got, popped>>
  PROVE  QueueInv'
<1> DEFINE e == [kind |-> kind, pipe |-> pipe, big |-> big, n |-> enqueued + 1]
<1>1. /\ enqueued' = enqueued + 1 /\ outbound' = Append(outbound, e)
      /\ writer' = IF writer = "asleep" THEN "check" ELSE writer
  BY DEF EnqueueOutbound, Notify
<1>2. enqueued \in Nat /\ enqueued + 1 \in FrameNo
  BY BoundsAssumption DEF CountInv, HandleInv, FrameNo, Pending
<1>3. e \in FrameSet /\ e.n = enqueued + 1 BY <1>2 DEF FrameSet
<1> HIDE DEF e
<1>4. /\ outbound \in Seq(FrameSet) /\ wire \in Seq(FrameSet) /\ got \in Seq(FrameSet)
      /\ OrderInv
  BY DEF QueueInv
<1>5. outbound' \in Seq(FrameSet) BY <1>1, <1>3, <1>4, Appended
<1>6. Increasing(outbound') /\ Precedes(got, outbound') /\ Precedes(wire, outbound')
  BY <1>1, <1>3, <1>4, AppendIncreasing, AppendPrecedes DEF OrderInv
<1>7. /\ Below(got, enqueued' + 1) /\ Below(wire, enqueued' + 1)
      /\ Below(outbound', enqueued' + 1)
  <2>1. ASSUME NEW s \in Seq(FrameSet), Below(s, enqueued + 1) PROVE Below(s, enqueued' + 1)
    <3>1. ASSUME NEW i \in 1..Len(s) PROVE s[i].n < enqueued' + 1
      <4>1. s[i] \in FrameSet BY ElementOfSeq
      <4>2. s[i].n \in Nat BY <4>1 DEF FrameSet, FrameNo
      <4> QED BY <1>1, <1>2, <2>1, <4>2 DEF Below
    <3> QED BY <3>1 DEF Below
  <2>2. e.n < enqueued' + 1 BY <1>1, <1>2, <1>3
  <2> QED BY <1>1, <1>3, <1>4, <2>1, <2>2, AppendBelow DEF OrderInv
<1>8. ASSUME InHand'
      PROVE  /\ Below(got, popped.n) /\ Below(wire, popped.n)
             /\ Above(outbound', popped.n) /\ popped.n < enqueued' + 1
  <2>1. /\ Below(got, popped.n) /\ Below(wire, popped.n)
        /\ Above(outbound, popped.n) /\ popped.n < enqueued + 1
    BY <1>1, <1>4, <1>8 DEF OrderInv, InHand
  <2>2. popped.n \in Nat BY DEF QueueInv, FrameSet, FrameNo
  <2>3. popped.n < enqueued' + 1 BY <1>1, <1>2, <2>1, <2>2
  <2>4. Above(outbound', popped.n)
    BY <1>1, <1>3, <1>4, <2>1, Appended DEF Above
  <2> QED BY <2>1, <2>3, <2>4
<1> QED BY <1>1, <1>4, <1>5, <1>6, <1>7, <1>8 DEF QueueInv, OrderInv

\* The queues are left alone, or the pipe loses what it held.
LEMMA QueueKept ==
  ASSUME QueueInv, UNCHANGED <<outbound, popped, enqueued>>,
         writer' = writer \/ (writer = "asleep" /\ writer' = "check"),
         wire' \in {wire, <<>>}, got' \in {got, <<>>}
  PROVE  QueueInv'
<1>1. wire' \in Seq(FrameSet) /\ got' \in Seq(FrameSet) BY EmptyOrder DEF QueueInv
<1>2. InHand' = InHand BY DEF InHand
<1>3. OrderInv' BY <1>2, EmptyOrder DEF QueueInv, OrderInv
<1> QED BY <1>1, <1>3 DEF QueueInv

\* The writer takes the first frame in hand.
LEMMA CheckKeeps == ASSUME QueueInv, CountInv, WriterCheck PROVE QueueInv'
<1>1. /\ writer = "check" /\ UNCHANGED <<enqueued, wire, got>>
      /\ outbound \in Seq(FrameSet) /\ wire \in Seq(FrameSet) /\ got \in Seq(FrameSet)
      /\ OrderInv
  BY DEF WriterCheck, serverVars, clientVars, QueueInv
<1>2. CASE outbound = <<>>
  <2>1. UNCHANGED <<popped, outbound>> /\ writer' \in {"exit", "dozing"}
    BY <1>2 DEF WriterCheck
  <2>2. ~InHand' BY <2>1 DEF InHand
  <2>3. OrderInv' BY <1>1, <2>1, <2>2 DEF OrderInv
  <2> QED BY <1>1, <1>2, <2>1, <2>3 DEF QueueInv
<1>3. CASE outbound # <<>>
  <2>1. popped' = Head(outbound) /\ outbound' = Tail(outbound) /\ writer' = "route"
    BY <1>3 DEF WriterCheck
  <2>2. popped' \in FrameSet /\ outbound' \in Seq(FrameSet) BY <1>1, <1>3, <2>1, Taken
  <2>3. Increasing(outbound') /\ Above(outbound', popped'.n)
    BY <1>1, <1>3, <2>1, TailIncreasing DEF OrderInv
  <2>4. /\ Precedes(got, outbound') /\ Precedes(wire, outbound')
        /\ Below(got, popped'.n) /\ Below(wire, popped'.n)
    BY <1>1, <1>3, <2>1, TailPrecedes DEF OrderInv
  <2>5. Below(outbound', enqueued + 1) /\ popped'.n < enqueued + 1
    BY <1>1, <1>3, <2>1, TailBelow DEF OrderInv
  <2>6. OrderInv' BY <1>1, <2>3, <2>4, <2>5 DEF OrderInv
  <2> QED BY <1>1, <2>1, <2>2, <2>6 DEF QueueInv
<1> QED BY <1>2, <1>3

\* The writer puts down the frame in hand: it is dropped, or goes into the pipe.
LEMMA PutDownKeeps ==
  ASSUME QueueInv, InHand, writer' \in {"check", "write"}, UNCHANGED <<outbound, enqueued, got>>,
         \/ writer' = "check" /\ popped' = NoFrame /\ wire' = wire
         \/ writer' = "check" /\ popped' = NoFrame /\ wire' = Append(wire, popped)
         \/ writer' = "write" /\ UNCHANGED <<popped, wire>>
  PROVE  QueueInv'
<1>1. NoFrame \in FrameSet BY BoundsAssumption DEF NoFrame, FrameSet, Kind, FrameNo
<1>2. /\ outbound \in Seq(FrameSet) /\ wire \in Seq(FrameSet) /\ got \in Seq(FrameSet)
      /\ popped \in FrameSet /\ OrderInv
  BY DEF QueueInv
<1>3. CASE writer' = "check" /\ popped' = NoFrame /\ wire' = wire
  <2>1. ~InHand' BY <1>3 DEF InHand
  <2>2. OrderInv' BY <1>2, <1>3, <2>1 DEF OrderInv
  <2> QED BY <1>1, <1>2, <1>3, <2>2 DEF QueueInv
<1>4. CASE writer' = "check" /\ popped' = NoFrame /\ wire' = Append(wire, popped)
  <2>1. ~InHand' BY <1>4 DEF InHand
  <2>2. wire' \in Seq(FrameSet) BY <1>2, <1>4, Appended
  <2>3. Increasing(wire') BY <1>2, <1>4, AppendIncreasing DEF OrderInv
  <2>4. Precedes(got, wire') /\ Precedes(wire', outbound)
    BY <1>2, <1>4, AppendPrecedes DEF OrderInv
  <2>5. Below(wire', enqueued + 1) BY <1>2, <1>4, AppendBelow DEF OrderInv
  <2>6. OrderInv' BY <1>2, <2>1, <2>3, <2>4, <2>5 DEF OrderInv
  <2> QED BY <1>1, <1>2, <1>4, <2>2, <2>6 DEF QueueInv
<1>5. CASE writer' = "write" /\ UNCHANGED <<popped, wire>>
  <2>1. OrderInv' BY <1>2, <1>5 DEF OrderInv
  <2> QED BY <1>2, <1>5, <2>1 DEF QueueInv
<1> QED BY <1>3, <1>4, <1>5

\* The client reads the first frame in the pipe.
LEMMA ClientReadKeeps == ASSUME QueueInv, ClientRead PROVE QueueInv'
<1>1. /\ wire # <<>> /\ got' = Append(got, Head(wire)) /\ wire' = Tail(wire)
      /\ UNCHANGED <<outbound, popped, enqueued, writer, stop>>
  BY DEF ClientRead, writerVars, serverVars
<1>2. /\ outbound \in Seq(FrameSet) /\ wire \in Seq(FrameSet) /\ got \in Seq(FrameSet)
      /\ OrderInv
  BY DEF QueueInv
<1>3. Head(wire) \in FrameSet /\ wire' \in Seq(FrameSet) BY <1>1, <1>2, Taken
<1>4. got' \in Seq(FrameSet) BY <1>1, <1>2, <1>3, Appended
<1>5. Increasing(wire') /\ Above(wire', Head(wire).n)
  BY <1>1, <1>2, TailIncreasing DEF OrderInv
<1>6. Precedes(got, wire') /\ Below(got, Head(wire).n)
  BY <1>1, <1>2, TailPrecedes DEF OrderInv
<1>7. Precedes(wire', outbound) /\ Above(outbound, Head(wire).n)
  BY <1>1, <1>2, TailPrecedes DEF OrderInv
<1>8. Increasing(got') BY <1>1, <1>2, <1>3, <1>6, AppendIncreasing DEF OrderInv
<1>9. Precedes(got', wire') BY <1>1, <1>2, <1>3, <1>5, <1>6, AppendPrecedes
<1>10. Precedes(got', outbound) BY <1>1, <1>2, <1>3, <1>7, AppendPrecedes DEF OrderInv
<1>11. ASSUME NEW n, Below(got, n), Below(wire, n) PROVE Below(got', n) /\ Below(wire', n)
  BY <1>1, <1>2, <1>3, <1>11, TailBelow, AppendBelow
<1>12. InHand' = InHand BY <1>1 DEF InHand
<1>13. Below(got', enqueued + 1) /\ Below(wire', enqueued + 1) BY <1>2, <1>11 DEF OrderInv
<1>14. InHand => Below(got', popped.n) /\ Below(wire', popped.n) BY <1>2, <1>11 DEF OrderInv
<1>15. OrderInv'
  BY <1>1, <1>2, <1>5, <1>7, <1>8, <1>9, <1>10, <1>12, <1>13, <1>14 DEF OrderInv
<1> QED BY <1>1, <1>3, <1>4, <1>15 DEF QueueInv

\* Whatever a step does, the frames on their way stay in order.
LEMMA QueueStep ==
  ASSUME FlagInv, HandleInv, CountInv, QueueInv, [Next]_vars
  PROVE  QueueInv'
<1>1. CASE UNCHANGED <<outbound, popped, enqueued, writer, wire, got>>
  BY <1>1, QueueKept DEF QueueInv
<1>2. CASE CreatePipe
  BY <1>2, QueueKept DEF CreatePipe, serverVars, writerVars, QueueInv
<1>3. CASE FlushAndClose \/ ConnectAborted
  BY <1>3, QueueKept DEF FlushAndClose, ConnectAborted, writerVars, QueueInv
<1>4. CASE OnConnectEnqueue
  <2>1. /\ run = "ready" /\ EnqueueOutbound("READY", instance, FALSE)
        /\ UNCHANGED <<wire, got, popped>>
    BY <1>4 DEF OnConnectEnqueue, clientVars
  <2>2. Pending >= 1 BY <2>1 DEF Pending
  <2> QED BY <2>1, <2>2, EnqueueKeeps DEF Kind, HandleInv
<1>5. CASE HandleEnqueue
  <2>1. PICK big \in BOOLEAN : EnqueueOutbound("reply", instance, big)
    BY <1>5 DEF HandleEnqueue
  <2>2. run = "reply" /\ UNCHANGED <<wire, got, popped>>
    BY <1>5 DEF HandleEnqueue, clientVars
  <2>3. Pending >= 1 BY <2>2 DEF Pending, CountInv
  <2> QED BY <2>1, <2>2, <2>3, EnqueueKeeps DEF Kind, HandleInv
<1>6. CASE LeaveLoop
  BY <1>6, QueueKept DEF LeaveLoop, Notify, serverVars, clientVars, QueueInv
<1>7. CASE StopBegin
  BY <1>7, QueueKept DEF StopBegin, writerVars, clientVars
<1>8. CASE RunNext
  <2>1. CASE HandleShutdown BY <1>7, <2>1 DEF HandleShutdown
  <2>2. CASE \/ ConnectClient \/ OnConnect \/ ServeLoop \/ ReadFrame \/ ReadFrameFails
             \/ HandleFrame \/ ClearActive \/ Join
    BY <1>1, <2>2 DEF ConnectClient, OnConnect, ServeLoop, ReadFrame, ReadFrameFails,
       HandleFrame, ClearActive, Join, writerVars, clientVars
  <2> QED BY <1>2, <1>3, <1>4, <1>5, <1>6, <1>8, <2>1, <2>2 DEF RunNext
<1>9. CASE WriterNext
  <2>1. CASE WriterCheck BY <2>1, CheckKeeps
  <2>2. CASE WriterSleep
    <3>1. /\ writer' = "asleep" /\ writer = "dozing"
          /\ UNCHANGED <<outbound, popped, enqueued, wire, got>>
      BY <2>2 DEF WriterSleep, clientVars
    <3>2. OrderInv' BY <3>1 DEF QueueInv, OrderInv, InHand
    <3> QED BY <3>1, <3>2 DEF QueueInv
  <2>3. CASE WriterRoute
    BY <2>3, PutDownKeeps DEF WriterRoute, InHand, serverVars, clientVars
  <2>4. CASE WriteFrame
    BY <2>4, PutDownKeeps DEF WriteFrame, WriterDone, InHand, serverVars
  <2>5. CASE WriteFrameRefused \/ WriteFrameFails
    BY <2>5, PutDownKeeps DEF WriteFrameRefused, WriteFrameFails, WriterDone, InHand, clientVars
  <2> QED BY <1>9, <2>1, <2>2, <2>3, <2>4, <2>5 DEF WriterNext
<1>10. CASE StopSignal BY <1>1, <1>10 DEF StopSignal, writerVars, clientVars
<1>11. CASE StopNotify
  BY <1>11, QueueKept DEF StopNotify, Notify, clientVars, QueueInv
<1>12. CASE SendFrameEnqueue
  <2>1. PICK big \in BOOLEAN : EnqueueOutbound("push", sender, big)
    BY <1>12 DEF SendFrameEnqueue
  <2>2. sender # 0 /\ UNCHANGED <<wire, got, popped>>
    BY <1>12 DEF SendFrameEnqueue, clientVars
  <2>3. Pending >= 1 BY <2>2 DEF Pending
  <2> QED BY <2>1, <2>2, <2>3, EnqueueKeeps DEF Kind, HandleInv
<1>13. CASE ClientClose
  BY <1>13, QueueKept DEF ClientClose, serverVars, writerVars, QueueInv
<1>14. CASE SendFrameCheck \/ SendFrameAdmit \/ ClientConnect \/ ClientSend
  BY <1>1, <1>14 DEF SendFrameCheck, SendFrameAdmit, ClientConnect, ClientSend, writerVars,
     clientVars
<1>15. CASE UNCHANGED vars BY <1>1, <1>15 DEF vars, serverVars, writerVars, clientVars
<1> QED BY <1>7, <1>8, <1>9, <1>10, <1>11, <1>12, <1>13, <1>14, <1>15, ClientReadKeeps
        DEF Next, StopNext, SendNext

(* The results. *)

\* The invariant holds throughout.
LEMMA InvHolds == Spec => []IInv
<1>1. IInv /\ [Next]_vars => IInv'
  BY FlagStep, HandleStep, CountStep, QueueStep DEF IInv
<1> QED BY <1>1, InvInit, PTL DEF Spec

\* For any number of instances and frames and any pipe buffer the server's state
\* is well formed, and no more frames are enqueued than READYs, replies and
\* pushes were begun (Run, ServeOneClient, SendFrame).
THEOREM TypeCorrect == Spec => []TypeOK
<1>1. IInv => TypeOK
  <2> SUFFICES ASSUME IInv PROVE TypeOK OBVIOUS
  <2>1. enqueued \in 0..(MaxFrames + MaxPipes)
    BY BoundsAssumption DEF IInv, CountInv, HandleInv, Pending
  <2> QED BY <2>1 DEF IInv, FlagInv, HandleInv, CountInv, QueueInv, TypeOK
<1> QED BY <1>1, InvHolds, PTL

\* The handle the writer may copy is the one Run holds, and open
\* (ServeOneClient, ClearActive before the close).
THEOREM PublishedIsOpen == Spec => []ActiveIsOpen
<1>1. IInv => ActiveIsOpen BY DEF IInv, HandleInv, ActiveIsOpen
<1> QED BY <1>1, InvHolds, PTL

\* No client gets a frame twice or behind one enqueued later, across
\* disconnects, dropped frames and any interleaving of the senders
\* (EnqueueOutbound, WriterThreadMain, WriteFrame).
THEOREM FramesInOrder == Spec => []FifoOrder
<1>1. IInv => FifoOrder
  <2> SUFFICES ASSUME IInv PROVE FifoOrder OBVIOUS
  <2> DEFINE hand == IF writer \in {"route", "write"} THEN <<popped>> ELSE <<>>
             a == got \o wire
             b == a \o hand
  <2>1. /\ outbound \in Seq(FrameSet) /\ wire \in Seq(FrameSet) /\ got \in Seq(FrameSet)
        /\ popped \in FrameSet /\ OrderInv
    BY DEF IInv, QueueInv
  <2>2. /\ hand \in Seq(FrameSet) /\ Increasing(hand)
        /\ Precedes(got, hand) /\ Precedes(wire, hand) /\ Precedes(hand, outbound)
    <3>1. CASE InHand
      <4>1. hand = <<popped>> BY <3>1 DEF InHand
      <4>2. /\ hand \in Seq(FrameSet) /\ Len(hand) = 1 /\ hand[1] = popped BY <2>1, <4>1
      <4> HIDE DEF hand
      <4>3. 1..Len(hand) = {1} BY <4>2
      <4> QED BY <2>1, <3>1, <4>2, <4>3 DEF OrderInv, Increasing, Precedes, Below, Above
    <3>2. CASE ~InHand BY <3>2, EmptyOrder DEF InHand
    <3> QED BY <3>1, <3>2
  <2> HIDE DEF hand
  <2>3. /\ a \in Seq(FrameSet) /\ Increasing(a) /\ Precedes(a, hand) /\ Precedes(a, outbound)
    BY <2>1, <2>2, ConcatIncreasing DEF OrderInv
  <2> HIDE DEF a
  <2>4. b \in Seq(FrameSet) /\ Increasing(b) /\ Precedes(b, outbound)
    BY <2>1, <2>2, <2>3, ConcatIncreasing
  <2> HIDE DEF b
  <2>5. Increasing(b \o outbound) BY <2>1, <2>4, ConcatIncreasing DEF OrderInv
  <2>6. Pipeline = b \o outbound BY DEF Pipeline, a, b, hand
  <2> QED BY <2>5, <2>6 DEF FifoOrder, Increasing
<1> QED BY <1>1, InvHolds, PTL
=============================================================================
