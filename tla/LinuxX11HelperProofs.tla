------------------------ MODULE LinuxX11HelperProofs ------------------------
(***************************************************************************)
(* Proofs about LinuxX11Helper, for every set of texts and keys, every     *)
(* capacity of the socket and any number of frames, copies and pastes:     *)
(* type correctness, and that echo suppression swallows no copy of the     *)
(* user's, whether dataChanged comes inside setMimeData or later.          *)
(*                                                                         *)
(* What the main thread knows of an echo is spread over three threads: the *)
(* worker caches a text before the closure that sets it runs, and the      *)
(* suppressor is told of it only then, or only after the slot has run.     *)
(* EchoInv says how far each of them may be ahead of the others, and       *)
(* SlotInv what is on the clipboard while the slot runs.                   *)
(***************************************************************************)
EXTENDS LinuxX11Helper, SequenceTheorems, TLAPS

\* What is posted to the main thread.
Posting ==
  [op : {"quit", "image"}] \cup [op : {"text"}, text : Text] \cup [op : {"delayed"}, key : Key]

\* The type of what TypeOK leaves open.
QueueInv ==
  /\ posted \in Seq(Posting)
  /\ mime \in [kind : {"none", "text", "image", "delayed", "foreign"},
               text : Text \cup {NoText}, key : Key \cup {NoKey}]
  /\ mime.kind = "delayed" => mime.key \in Key
  /\ mime.kind \in {"text", "foreign"} => mime.text \in Text

\* No setText is on its way to the main thread.
NoTextPosted == \A i \in 1..Len(posted) : posted[i].op # "text"

\* What the suppressor remembers or is about to be told was set by the parent;
\* and a user's copy whose dataChanged was handled is cached, unless a text of
\* the parent's is about to replace it.
EchoInv ==
  /\ last_set_text \in everSet \cup {NoText}
  /\ \A i \in 1..Len(posted) : posted[i].op = "text" => posted[i].text \in everSet
  /\ mime.kind = "foreign" /\ mime.text \notin everSet /\ changed = 0 /\ NoTextPosted
       => cached_clipboard_text = mime.text

\* The worker runs only once the server has started.
StartInv == (main = "start") => (worker = "none")

IInv == TypeOK /\ StartInv /\ QueueInv /\ EchoInv

\* Inside setMimeData its closure is still the first in the queue, and the mime
\* on the clipboard is the one it has set; and the slot renders no mime but a
\* delayed one.
SlotInv ==
  /\ task = "idle" => slot = "no"
  /\ task \in {"slot", "record"} => slot = "inside"
  /\ task \in {"idle", "slot", "record", "wait"} => sending = NoFrame
  /\ slot = "inside" =>
       /\ posted # <<>>
       /\ \/ posted[1].op = "text" /\ mime.kind = "text"
          \/ posted[1].op = "image" /\ mime.kind = "image"
          \/ posted[1].op = "delayed" /\ mime.kind = "delayed"
  /\ slot # "no" /\ (task = "wait" \/ sending.type = "DATA_REQUEST") => mime.kind = "delayed"
-----------------------------------------------------------------------------
(* The queue of the main thread. *)

\* A sequence and what is appended to it.
LEMMA Appended ==
  ASSUME NEW s \in Seq(Posting), NEW e \in Posting
  PROVE  /\ Append(s, e) \in Seq(Posting) /\ Len(s) \in Nat
         /\ Len(Append(s, e)) = Len(s) + 1 /\ Append(s, e)[Len(s) + 1] = e
         /\ \A i \in 1..Len(s) : i \in 1..Len(Append(s, e)) /\ Append(s, e)[i] = s[i]
         /\ \A i \in 1..Len(Append(s, e)) :
              \/ i \in 1..Len(s) /\ Append(s, e)[i] = s[i]
              \/ i = Len(s) + 1 /\ Append(s, e)[i] = e
<1>1. /\ Append(s, e) \in Seq(Posting) /\ Len(Append(s, e)) = Len(s) + 1
      /\ \A i \in 1..Len(s) : Append(s, e)[i] = s[i]
      /\ Append(s, e)[Len(s) + 1] = e
  BY AppendProperties
<1>2. Len(s) \in Nat BY LenProperties
<1> QED BY <1>1, <1>2

\* The first element and what is left behind it.
LEMMA Taken ==
  ASSUME NEW s \in Seq(Posting), s # <<>>
  PROVE  /\ Head(s) \in Posting /\ Head(s) = s[1] /\ 1 \in 1..Len(s)
         /\ Tail(s) \in Seq(Posting)
         /\ \A i \in 1..Len(Tail(s)) : i + 1 \in 1..Len(s) /\ Tail(s)[i] = s[i + 1]
         /\ \A i \in 1..Len(s) : i = 1 \/ (i - 1 \in 1..Len(Tail(s)) /\ s[i] = Tail(s)[i - 1])
<1>1. Len(s) \in Nat /\ Len(s) # 0 BY EmptySeq, LenProperties
<1>2. /\ Head(s) \in Posting /\ Tail(s) \in Seq(Posting) /\ Len(Tail(s)) = Len(s) - 1
      /\ \A i \in 1..Len(Tail(s)) : Tail(s)[i] = s[i + 1]
  BY HeadTailProperties
<1>3. Head(s) = s[1] OBVIOUS
<1> QED BY <1>1, <1>2, <1>3

\* The texts on their way to the main thread are none but those that were.
TextsKept ==
  /\ posted' \in Seq(Posting)
  /\ \A i \in 1..Len(posted') :
       posted'[i].op = "text" => \E j \in 1..Len(posted) : posted'[i] = posted[j]
  /\ NoTextPosted' => NoTextPosted

\* QuitAppSafely posts no text.
LEMMA PostQuitKeeps ==
  ASSUME QueueInv, PostQuit
  PROVE  TextsKept
<1> DEFINE q == [op |-> "quit"]
<1>1. posted \in Seq(Posting) BY DEF QueueInv
<1>2. q \in Posting /\ q.op # "text" BY DEF Posting
<1>3. CASE posted' = posted BY <1>1, <1>3 DEF TextsKept, NoTextPosted
<1>4. CASE posted' = Append(posted, q)
  <2>1. /\ Append(posted, q) \in Seq(Posting)
        /\ \A i \in 1..Len(posted) : /\ i \in 1..Len(Append(posted, q))
                                     /\ Append(posted, q)[i] = posted[i]
        /\ \A i \in 1..Len(Append(posted, q)) :
              \/ i \in 1..Len(posted) /\ Append(posted, q)[i] = posted[i]
              \/ Append(posted, q)[i] = q
    BY <1>1, <1>2, Appended
  <2>2. NoTextPosted' => NoTextPosted BY <1>4, <2>1 DEF NoTextPosted
  <2>3. \A i \in 1..Len(posted') :
          posted'[i].op = "text" => \E j \in 1..Len(posted) : posted'[i] = posted[j]
    BY <1>2, <1>4, <2>1
  <2> QED BY <1>4, <2>1, <2>2, <2>3 DEF TextsKept
<1> QED BY <1>3, <1>4 DEF PostQuit

\* A posting that is no text is taken off the queue.
LEMMA TakenKeeps ==
  ASSUME QueueInv, posted # <<>>, posted' = Tail(posted)
  PROVE  /\ posted' \in Seq(Posting) /\ Head(posted) \in Posting
         /\ \A i \in 1..Len(posted') : \E j \in 1..Len(posted) : posted'[i] = posted[j]
         /\ Head(posted).op # "text" => TextsKept
         /\ 1 \in 1..Len(posted) /\ Head(posted) = posted[1]
<1>1. posted \in Seq(Posting) BY DEF QueueInv
<1>2. /\ Head(posted) \in Posting /\ Head(posted) = posted[1] /\ 1 \in 1..Len(posted)
      /\ Tail(posted) \in Seq(Posting)
      /\ \A i \in 1..Len(Tail(posted)) : i + 1 \in 1..Len(posted)
                                         /\ Tail(posted)[i] = posted[i + 1]
      /\ \A i \in 1..Len(posted) : i = 1 \/ (i - 1 \in 1..Len(Tail(posted))
                                             /\ posted[i] = Tail(posted)[i - 1])
  BY <1>1, Taken
<1>3. \A i \in 1..Len(posted') : \E j \in 1..Len(posted) : posted'[i] = posted[j]
  BY <1>2
<1>4. ASSUME Head(posted).op # "text", NoTextPosted' PROVE NoTextPosted
  BY <1>2, <1>4 DEF NoTextPosted
<1> QED BY <1>2, <1>3, <1>4 DEF TextsKept

\* A step that leaves the clipboard alone and posts no text keeps EchoInv.
LEMMA ClipUnchanged ==
  ASSUME QueueInv, EchoInv, UNCHANGED clipVars, TextsKept
  PROVE  QueueInv' /\ EchoInv'
<1>1. UNCHANGED <<cached_clipboard_text, last_set_text, announced_mime, mime, changed, everSet>>
  BY DEF clipVars, stateVars, echoVars, qtVars, historyVars
<1>2. QueueInv' BY <1>1 DEF QueueInv, TextsKept
<1>3. \A i \in 1..Len(posted') : posted'[i].op = "text" => posted'[i].text \in everSet
  BY DEF TextsKept, EchoInv
<1> QED BY <1>1, <1>2, <1>3 DEF EchoInv, TextsKept
-----------------------------------------------------------------------------
(* Type correctness, and the clipboard left alone, step by step. *)

\* The steps of the worker that are not a handler's.
LEMMA WorkerKeeps ==
  ASSUME IInv, WorkerNext \/ ReplyWrite(Fits(reply)) \/ AcceptFails, UNCHANGED clipVars
  PROVE  IInv'
<1> USE DEF TypeOK, ServerTypeOK, sessionVars, mainVars, parentVars, clipVars, stateVars,
            echoVars, qtVars, historyVars
<1>1. TypeOK /\ StartInv /\ QueueInv /\ EchoInv BY DEF IInv
<1>2. TypeOK'
  <2>1. CASE WorkerStart BY <1>1, <2>1 DEF WorkerStart
  <2>2. CASE Accept
    <3>1. backlog' \in BOOLEAN BY <1>1, <2>2, Zenon DEF Accept
    <3> QED BY <1>1, <2>2, <3>1 DEF Accept
  <2>3. CASE Register BY <1>1, <2>3 DEF Register, Reply
  <2>4. CASE ReplyLock BY <1>1, <2>4 DEF ReplyLock
  <2>5. CASE CheckStop BY <1>1, <2>5 DEF CheckStop
  <2>6. CASE ReadFrame
    <3>1. Head(toHelper) \in Request /\ Tail(toHelper) \in Seq(Request)
      BY <1>1, <2>6, HeadTailProperties DEF ReadFrame
    <3> QED BY <1>1, <2>6, <3>1 DEF ReadFrame
  <2>7. CASE ReadEnds BY <1>1, <2>7 DEF ReadEnds
  <2>8. CASE ClearClient
    <3>1. client' \in BOOLEAN BY <1>1, <2>8, Zenon DEF ClearClient
    <3> QED BY <1>1, <2>8, <3>1 DEF ClearClient
  <2>9. CASE Disconnect BY <1>1, <2>9 DEF Disconnect
  <2>10. CASE ReplyWrite(Fits(reply))
    BY <1>1, <2>10, BoundAssumption DEF ReplyWrite, WriteFrame, Written
  <2>11. CASE AcceptFails BY <1>1, <2>11 DEF AcceptFails
  <2> QED BY <2>1, <2>2, <2>3, <2>4, <2>5, <2>6, <2>7, <2>8, <2>9, <2>10, <2>11 DEF WorkerNext
<1>3. TextsKept
  <2>1. CASE Disconnect BY <1>1, <2>1, PostQuitKeeps DEF Disconnect
  <2>2. CASE posted' = posted BY <1>1, <2>2 DEF TextsKept, QueueInv, NoTextPosted
  <2> QED
    BY <2>1, <2>2 DEF WorkerNext, WorkerStart, Accept, Register, ReplyLock, CheckStop, ReadFrame,
       ReadEnds, ClearClient, ReplyWrite, AcceptFails
<1>5. StartInv'
  BY <1>1 DEF StartInv, WorkerNext, WorkerStart, Accept, Register, ReplyLock, CheckStop, ReadFrame,
     ReadEnds, ClearClient, Disconnect, ReplyWrite, AcceptFails
<1> QED BY <1>1, <1>2, <1>3, <1>5, ClipUnchanged DEF IInv

\* The main thread outside the clipboard, and the watchdog.
LEMMA LifecycleKeeps ==
  ASSUME IInv, LifecycleNext \/ SendWrite(Fits(sending)) \/ PollLoop, UNCHANGED clipVars
  PROVE  IInv'
<1> USE DEF TypeOK, ServerTypeOK, sessionVars, mainVars, parentVars, clipVars, stateVars,
            echoVars, qtVars, historyVars
<1>1. TypeOK /\ StartInv /\ QueueInv /\ EchoInv BY DEF IInv
<1>2. TypeOK'
  <2>1. CASE ServerStart
    <3>1. CASE listening' = TRUE /\ worker' = "start"
      <4>1. listening' \in BOOLEAN BY <3>1, Zenon
      <4> QED BY <1>1, <2>1, <3>1, <4>1 DEF ServerStart, StartInv
    <3>2. CASE UNCHANGED <<listening, worker>> BY <1>1, <2>1, <3>2 DEF ServerStart
    <3> QED BY <2>1, <3>1, <3>2, Zenon DEF ServerStart
  <2>2. CASE WatchdogStart BY <1>1, <2>2 DEF WatchdogStart
  <2>3. CASE SignalNotified
    <3>1. signalled' \in BOOLEAN BY <1>1, <2>3, Zenon DEF SignalNotified
    <3> QED BY <1>1, <2>3, <3>1 DEF SignalNotified
  <2>4. CASE Quit BY <1>1, <2>4 DEF Quit
  <2>5. CASE ExecReturns BY <1>1, <2>5 DEF ExecReturns
  <2>6. CASE StopWatchdog BY <1>1, <2>6 DEF StopWatchdog
  <2>7. CASE StopListening
    <3>1. listening' \in BOOLEAN /\ backlog' \in BOOLEAN BY <1>1, <2>7, Zenon DEF StopListening
    <3> QED BY <1>1, <2>7, <3>1 DEF StopListening
  <2>8. CASE StopClient BY <1>1, <2>8 DEF StopClient
  <2>9. CASE Exit BY <1>1, <2>9 DEF Exit
  <2>10. CASE SendLock BY <1>1, <2>10 DEF SendLock
  <2>11. CASE SendWrite(Fits(sending))
    BY <1>1, <2>11, BoundAssumption DEF SendWrite, WriteFrame
  <2>12. CASE PollLoop BY <1>1, <2>12 DEF PollLoop
  <2> QED
    BY <2>1, <2>2, <2>3, <2>4, <2>5, <2>6, <2>7, <2>8, <2>9, <2>10, <2>11, <2>12
       DEF LifecycleNext
<1>3. TextsKept
  <2>1. CASE PostQuit BY <1>1, <2>1, PostQuitKeeps
  <2>2. CASE posted' = posted BY <1>1, <2>2 DEF TextsKept, QueueInv, NoTextPosted
  <2>3. CASE Quit BY <1>1, <2>3, TakenKeeps DEF Quit
  <2> QED
    BY <2>1, <2>2, <2>3 DEF LifecycleNext, ServerStart, WatchdogStart, SignalNotified,
       ExecReturns, StopWatchdog, StopListening, StopClient, Exit, SendLock, SendWrite, PollLoop
<1>5. StartInv'
  BY <1>1 DEF StartInv, LifecycleNext, ServerStart, WatchdogStart, SignalNotified, Quit,
     ExecReturns, StopWatchdog, StopListening, StopClient, Exit, SendLock, SendWrite, PollLoop
<1> QED BY <1>1, <1>2, <1>3, <1>5, ClipUnchanged DEF IInv

\* The parent and the signals.
LEMMA ParentKeeps ==
  ASSUME IInv, ParentNext \/ \E f \in Request : ParentSends(f), UNCHANGED clipVars
  PROVE  IInv'
<1> USE DEF TypeOK, ServerTypeOK, sessionVars, mainVars, parentVars, clipVars, stateVars,
            echoVars, qtVars, historyVars
<1>1. TypeOK /\ StartInv /\ QueueInv /\ EchoInv BY DEF IInv
<1>2. TypeOK'
  <2>1. CASE ParentConnects BY <1>1, <2>1 DEF ParentConnects
  <2>2. CASE ParentReads BY <1>1, <2>2, BoundAssumption DEF ParentReads
  <2>3. CASE Signal BY <1>1, <2>3 DEF Signal
  <2>4. CASE \E dies \in BOOLEAN : ParentLeaves(dies)
    BY <1>1, <2>4, BoundAssumption DEF ParentLeaves
  <2>5. CASE \E f \in Request : ParentSends(f)
    <3>1. PICK f \in Request : ParentSends(f) BY <2>5
    <3>2. Append(toHelper, f) \in Seq(Request) BY <1>1, <3>1, AppendProperties
    <3> QED BY <1>1, <3>1, <3>2, BoundAssumption DEF ParentSends
  <2> QED BY <2>1, <2>2, <2>3, <2>4, <2>5 DEF ParentNext
<1>3. posted' = posted
  BY DEF ParentNext, ParentConnects, ParentReads, Signal, ParentLeaves, ParentSends
<1>4. TextsKept BY <1>1, <1>3 DEF TextsKept, QueueInv, NoTextPosted
<1>5. StartInv'
  BY <1>1 DEF StartInv, ParentNext, ParentConnects, ParentReads, Signal, ParentLeaves, ParentSends
<1> QED BY <1>1, <1>2, <1>4, <1>5, ClipUnchanged DEF IInv

\* Dispatcher::Handle.  A text is cached and posted in the same step in which
\* it is known to have been set by the parent.
LEMMA HandleKeeps ==
  ASSUME IInv, Handle
  PROVE  IInv'
<1> USE DEF sessionVars, mainVars, parentVars, clipVars, stateVars, echoVars, qtVars,
            historyVars
<1>1. TypeOK /\ StartInv /\ QueueInv /\ EchoInv BY DEF IInv
<1>2. /\ worker = "handle" /\ request \in Request \cup {NoFrame}
      /\ worker' \in {"check", "reply"}
      /\ UNCHANGED <<stop, listening, client, backlog, conn, toHelper, mainVars, parentVars,
                     clientMutex, watch, signalled, toParent, echoVars, qtVars, user>>
  BY <1>1 DEF Handle, HandleSetClipboardText, HandleSetClipboardImage, HandleAnnounceDelayed,
     HandleProvideData, HandleGetClipboard, HandleRefused, HandleShutdown, Handled, Handling,
     TypeOK, ServerTypeOK
<1>3. ASSUME request' = NoFrame, reply' \in Reply \cup {NoFrame},
             current_hash' \in Key \cup {NoKey}, pending_data' \in {NoKey, current_hash'},
             cached_clipboard_text' \in Text \cup {NoText}, everSet' \subseteq Text
      PROVE  TypeOK' /\ StartInv'
  BY <1>1, <1>2, <1>3 DEF TypeOK, ServerTypeOK, StartInv
<1>4. ASSUME TextsKept, UNCHANGED <<cached_clipboard_text, everSet>>
      PROVE  QueueInv' /\ EchoInv'
  <2>1. QueueInv' BY <1>1, <1>2, <1>4 DEF QueueInv, TextsKept
  <2>2. \A i \in 1..Len(posted') : posted'[i].op = "text" => posted'[i].text \in everSet
    BY <1>1, <1>4 DEF TextsKept, EchoInv
  <2> QED BY <1>1, <1>2, <1>4, <2>1, <2>2 DEF EchoInv, TextsKept
<1>5. ASSUME NEW c \in Posting, c.op # "text", posted' = Append(posted, c)
      PROVE  TextsKept
  <2>1. /\ Append(posted, c) \in Seq(Posting)
        /\ \A i \in 1..Len(posted) : /\ i \in 1..Len(Append(posted, c))
                                     /\ Append(posted, c)[i] = posted[i]
        /\ \A i \in 1..Len(Append(posted, c)) :
              \/ i \in 1..Len(posted) /\ Append(posted, c)[i] = posted[i]
              \/ Append(posted, c)[i] = c
    BY <1>1, Appended DEF QueueInv
  <2> QED BY <1>5, <2>1 DEF TextsKept, NoTextPosted
<1>6. ASSUME posted' = posted PROVE TextsKept
  BY <1>1, <1>6 DEF TextsKept, QueueInv, NoTextPosted
<1>7. CASE HandleSetClipboardText
  <2> DEFINE t == request.text
             c == [op |-> "text", text |-> t]
  <2>1. t \in Text BY <1>2, <1>7 DEF HandleSetClipboardText, Handling, Request, NoFrame
  <2>2. c \in Posting /\ c.op = "text" /\ c.text = t BY <2>1 DEF Posting
  <2>3. /\ cached_clipboard_text' = t /\ everSet' = everSet \cup {t}
        /\ posted' = Append(posted, c) /\ request' = NoFrame /\ reply' = NoFrame
        /\ UNCHANGED <<current_hash, pending_data>>
    BY <1>7 DEF HandleSetClipboardText, InvokeOnMain, Handled
  <2> HIDE DEF t, c
  <2>4. TypeOK' /\ StartInv'
    <3>1. everSet' \subseteq Text BY <1>1, <2>1, <2>3 DEF TypeOK
    <3> QED BY <1>1, <1>3, <2>1, <2>3, <3>1 DEF TypeOK
  <2>5. /\ Append(posted, c) \in Seq(Posting) /\ Len(posted) + 1 \in 1..Len(Append(posted, c))
        /\ Append(posted, c)[Len(posted) + 1] = c
        /\ \A i \in 1..Len(Append(posted, c)) :
              \/ i \in 1..Len(posted) /\ Append(posted, c)[i] = posted[i]
              \/ Append(posted, c)[i] = c
    BY <1>1, <2>2, Appended DEF QueueInv
  <2>6. QueueInv' BY <1>1, <1>2, <2>3, <2>5 DEF QueueInv
  <2>7. ~NoTextPosted' BY <2>2, <2>3, <2>5 DEF NoTextPosted
  <2>8. \A i \in 1..Len(posted') : posted'[i].op = "text" => posted'[i].text \in everSet'
    BY <1>1, <2>2, <2>3, <2>5 DEF EchoInv
  <2>9. EchoInv' BY <1>1, <1>2, <2>3, <2>7, <2>8 DEF EchoInv
  <2> QED BY <2>4, <2>6, <2>9 DEF IInv
<1>8. CASE HandleSetClipboardImage
  <2>1. TextsKept
    <3>1. [op |-> "image"] \in Posting BY DEF Posting
    <3> QED BY <1>5, <1>6, <1>8, <3>1 DEF HandleSetClipboardImage, InvokeOnMain
  <2> QED
    BY <1>1, <1>3, <1>4, <1>8, <2>1 DEF HandleSetClipboardImage, Handled, IInv, TypeOK
<1>9. CASE HandleAnnounceDelayed
  <2>1. request.key \in Key BY <1>2, <1>9 DEF HandleAnnounceDelayed, Handling, Request, NoFrame
  <2>2. TextsKept
    <3>1. [op |-> "delayed", key |-> request.key] \in Posting BY <2>1 DEF Posting
    <3> QED BY <1>5, <1>9, <3>1 DEF HandleAnnounceDelayed, InvokeOnMain
  <2> QED
    BY <1>1, <1>3, <1>4, <1>9, <2>1, <2>2 DEF HandleAnnounceDelayed, Handled, IInv, TypeOK
<1>10. CASE HandleProvideData
  BY <1>1, <1>3, <1>4, <1>6, <1>10 DEF HandleProvideData, Handled, IInv, TypeOK
<1>11. CASE HandleGetClipboard
  <2>1. [type |-> "CONTENT", text |-> cached_clipboard_text] \in Reply
    BY <1>1 DEF Reply, TypeOK
  <2> QED BY <1>1, <1>3, <1>4, <1>6, <1>11, <2>1 DEF HandleGetClipboard, Handled, IInv, TypeOK
<1>12. CASE HandleRefused
  <2>1. [type |-> "ERROR"] \in Reply BY DEF Reply
  <2> QED BY <1>1, <1>3, <1>4, <1>6, <1>12, <2>1 DEF HandleRefused, Handled, IInv, TypeOK
<1>13. CASE HandleShutdown
  <2>1. TextsKept BY <1>1, <1>13, PostQuitKeeps DEF HandleShutdown
  <2> QED BY <1>1, <1>3, <1>4, <1>13, <2>1 DEF HandleShutdown, Handled, IInv, TypeOK
<1> QED BY <1>7, <1>8, <1>9, <1>10, <1>11, <1>12, <1>13 DEF Handle

\* The closures of the main thread that put a mime of ours on the clipboard.
LEMMA SetMimeKeeps ==
  ASSUME IInv, SetClipboardText \/ SetClipboardImage \/ AnnounceDelayed
  PROVE  IInv'
<1> USE DEF sessionVars, mainVars, parentVars, stateVars, historyVars
<1>1. TypeOK /\ StartInv /\ QueueInv /\ EchoInv BY DEF IInv
<1>2. /\ task = "idle" /\ posted # <<>>
      /\ UNCHANGED <<sessionVars, main, sending, parentVars, clientMutex, watch, signalled,
                     toParent, stateVars, historyVars>>
  BY DEF SetClipboardText, SetClipboardImage, AnnounceDelayed, SetMimeData, Closure, MainIdle
<1>3. Head(posted) \in Posting /\ Head(posted) = posted[1] /\ 1 \in 1..Len(posted)
  BY <1>1, <1>2, Taken DEF QueueInv
<1>4. StartInv' BY <1>1, <1>2 DEF StartInv
<1>5. /\ posted' \in {posted, Tail(posted)} /\ changed' \in {changed, changed + 1}
      /\ task' \in {"idle", "slot"} /\ slot' \in {slot, "inside"}
  BY <1>2 DEF SetClipboardText, SetClipboardImage, AnnounceDelayed, SetMimeData
<1>6. posted' \in Seq(Posting) BY <1>1, <1>2, <1>5, Taken DEF QueueInv
<1>7. \A i \in 1..Len(posted') : posted'[i].op = "text" => posted'[i].text \in everSet'
  <2>1. \A i \in 1..Len(posted') : \E j \in 1..Len(posted) : posted'[i] = posted[j]
    BY <1>1, <1>2, <1>5, TakenKeeps
  <2> QED BY <1>1, <1>2, <2>1 DEF EchoInv
<1>8. ASSUME announced_mime' => mime'.kind \in {"image", "delayed"},
             last_set_text' \in everSet \cup {NoText},
             mime' \in [kind : {"text", "image", "delayed"}, text : Text \cup {NoText},
                       key : Key \cup {NoKey}],
             mime'.kind = "delayed" => mime'.key \in Key, mime'.kind = "text" => mime'.text \in Text
      PROVE  IInv'
  <2>1. changed' \in Nat /\ everSet \subseteq Text BY <1>1, <1>5 DEF TypeOK
  <2>2. TypeOK' BY <1>1, <1>2, <1>5, <1>8, <2>1 DEF TypeOK, ServerTypeOK
  <2>3. QueueInv' BY <1>6, <1>8 DEF QueueInv
  <2>4. EchoInv' BY <1>2, <1>7, <1>8 DEF EchoInv
  <2> QED BY <1>4, <2>2, <2>3, <2>4 DEF IInv
<1>9. last_set_text \in everSet \cup {NoText} BY <1>1 DEF EchoInv
<1>10. CASE SetClipboardText
  <2> DEFINE t == Head(posted).text
  <2>1. t \in Text /\ t \in everSet
    BY <1>1, <1>3, <1>10 DEF SetClipboardText, Closure, Posting, EchoInv
  <2>2. mime' = [kind |-> "text", text |-> t, key |-> NoKey]
    BY <1>10 DEF SetClipboardText, SetMimeData, NoMime
  <2>3. last_set_text' \in {last_set_text, t} /\ announced_mime' = FALSE
    BY <1>10 DEF SetClipboardText, SetMimeData, RecordEagerSetText
  <2> HIDE DEF t
  <2> QED BY <1>8, <1>9, <2>1, <2>2, <2>3
<1>11. CASE SetClipboardImage
  <2>1. mime' = [kind |-> "image", text |-> NoText, key |-> NoKey]
    BY <1>11 DEF SetClipboardImage, SetMimeData, NoMime
  <2>2. last_set_text' = last_set_text
    BY <1>11 DEF SetClipboardImage, SetMimeData, RecordAnnouncedMime
  <2> QED BY <1>8, <1>9, <2>1, <2>2
<1>12. CASE AnnounceDelayed
  <2> DEFINE k == Head(posted).key
  <2>1. k \in Key BY <1>3, <1>12 DEF AnnounceDelayed, Closure, Posting
  <2>2. mime' = [kind |-> "delayed", text |-> NoText, key |-> k]
    BY <1>12 DEF AnnounceDelayed, SetMimeData, NoMime
  <2>3. last_set_text' = last_set_text
    BY <1>12 DEF AnnounceDelayed, SetMimeData, RecordAnnouncedMime
  <2> HIDE DEF k
  <2> QED BY <1>8, <1>9, <2>1, <2>2, <2>3
<1> QED BY <1>10, <1>11, <1>12

\* The closure ends after the slot.
LEMMA RecordKeeps ==
  ASSUME IInv, SlotInv, SetMimeDataReturns
  PROVE  IInv'
<1> USE DEF sessionVars, mainVars, parentVars, stateVars, historyVars
<1>1. TypeOK /\ StartInv /\ QueueInv /\ EchoInv BY DEF IInv
<1>2. /\ posted # <<>> /\ posted' = Tail(posted)
      /\ \/ posted[1].op = "text" /\ mime.kind = "text"
         \/ posted[1].op = "image" /\ mime.kind = "image"
         \/ posted[1].op = "delayed" /\ mime.kind = "delayed"
      /\ UNCHANGED <<sessionVars, main, sending, parentVars, clientMutex, watch, signalled,
                     toParent, stateVars, mime, changed, historyVars>>
  BY DEF SetMimeDataReturns, SlotInv
<1>3. /\ posted' \in Seq(Posting) /\ Head(posted) \in Posting /\ Head(posted) = posted[1]
      /\ 1 \in 1..Len(posted)
      /\ \A i \in 1..Len(posted') : \E j \in 1..Len(posted) : posted'[i] = posted[j]
  BY <1>1, <1>2, TakenKeeps
<1>4. task = "record" /\ task' = "idle" /\ slot' = "no" BY DEF SetMimeDataReturns
<1>5. /\ last_set_text' \in everSet \cup {NoText}
      /\ announced_mime' => mime.kind \in {"image", "delayed"}
  <2>1. CASE Head(posted).op = "text"
    <3>1. last_set_text' = Head(posted).text /\ announced_mime' = FALSE
      BY <2>1 DEF SetMimeDataReturns, RecordEagerSetText
    <3>2. Head(posted).text \in everSet BY <1>1, <1>3, <2>1 DEF EchoInv
    <3> QED BY <3>1, <3>2
  <2>2. CASE Head(posted).op # "text"
    <3>1. last_set_text' = last_set_text BY <2>2 DEF SetMimeDataReturns, RecordAnnouncedMime
    <3> QED BY <1>1, <1>2, <1>3, <2>2, <3>1 DEF EchoInv
  <2> QED BY <2>1, <2>2
<1>6. TypeOK' /\ StartInv'
  <2>1. everSet \subseteq Text BY <1>1 DEF TypeOK
  <2> QED BY <1>1, <1>2, <1>4, <1>5, <2>1 DEF TypeOK, ServerTypeOK, StartInv
<1>7. QueueInv' BY <1>1, <1>2, <1>3 DEF QueueInv
<1>8. \A i \in 1..Len(posted') : posted'[i].op = "text" => posted'[i].text \in everSet'
  BY <1>1, <1>2, <1>3 DEF EchoInv
<1>9. EchoInv' BY <1>2, <1>5, <1>8 DEF EchoInv
<1> QED BY <1>6, <1>7, <1>9 DEF IInv

\* The slot takes a text: if it is a user's copy, it is no text of the parent's
\* and so not taken for an echo.
LEMMA TakeKeeps ==
  ASSUME IInv, task # "write", NEW t \in Text, NEW where \in {"event", "inside"},
         TakeText(t, where), mime.kind = "foreign" => t = mime.text,
         changed' \in Nat,
         UNCHANGED <<sessionVars, main, parentVars, clientMutex, posted, watch, signalled,
                     toParent, current_hash, pending_data, announced_mime, mime, everSet, user>>
  PROVE  IInv'
<1> USE DEF sessionVars, mainVars, parentVars
<1>1. TypeOK /\ StartInv /\ QueueInv /\ EchoInv BY DEF IInv
<1>2. StartInv' /\ QueueInv' BY <1>1 DEF StartInv, QueueInv
<1>3. NoTextPosted' <=> NoTextPosted BY DEF NoTextPosted
<1>4. ASSUME UNCHANGED sending \/ sending' \in Reply, task' \in {"idle", "record", "send"},
             slot' \in {"no", "event", "inside"}, last_set_text' \in Text \cup {NoText},
             cached_clipboard_text' \in Text \cup {NoText}
      PROVE  TypeOK'
  BY <1>1, <1>4 DEF TypeOK, ServerTypeOK
<1>5. CASE ConsumeEagerSetTextEcho(t)
  <2>1. /\ last_set_text' = NoText /\ UNCHANGED <<sending, cached_clipboard_text>>
        /\ task' \in {"idle", "record"} /\ slot' \in {"no", "inside"}
    BY <1>5 DEF TakeText, SlotReturns
  <2>2. TypeOK'
    <3>1. cached_clipboard_text \in Text \cup {NoText} BY <1>1 DEF TypeOK
    <3> QED BY <1>4, <2>1, <3>1
  <2>3. t \in everSet
    BY <1>1, <1>5, ContentAssumption DEF ConsumeEagerSetTextEcho, EchoInv
  <2>4. EchoInv' BY <1>1, <2>1, <2>3 DEF EchoInv
  <2> QED BY <1>2, <2>2, <2>4 DEF IInv
<1>6. CASE ~ConsumeEagerSetTextEcho(t)
  <2> DEFINE f == [type |-> "CHANGED", text |-> t]
  <2>1. /\ cached_clipboard_text' = t /\ task' = "send" /\ sending' = f /\ slot' = where
        /\ UNCHANGED last_set_text
    BY <1>6 DEF TakeText, Send
  <2>2. f \in Reply BY DEF Reply
  <2> HIDE DEF f
  <2>3. TypeOK' BY <1>1, <1>4, <2>1, <2>2 DEF TypeOK
  <2>4. EchoInv' BY <1>1, <2>1 DEF EchoInv
  <2> QED BY <1>2, <2>3, <2>4 DEF IInv
<1> QED BY <1>5, <1>6

\* OnClipboardChanged, for an event or inside setMimeData.
LEMMA ChangedKeeps ==
  ASSUME IInv, SlotInv, OnClipboardChanged
  PROVE  IInv'
<1> USE DEF sessionVars, mainVars, parentVars
<1>1. TypeOK /\ StartInv /\ QueueInv /\ EchoInv BY DEF IInv
<1>2. PICK where \in {"event", "inside"} :
        /\ OnDataChanged(where)
        /\ \/ where = "event" /\ task = "idle" /\ changed > 0 /\ changed' = changed - 1
           \/ where = "inside" /\ task = "slot" /\ changed' = changed
  BY DEF OnClipboardChanged, MainIdle
<1>3. UNCHANGED <<sessionVars, main, parentVars, clientMutex, posted, watch, signalled,
                  toParent, current_hash, pending_data, announced_mime, mime, everSet, user>>
  BY <1>2 DEF OnDataChanged
<1>4. changed' \in Nat BY <1>1, <1>2 DEF TypeOK
<1>6. StartInv' /\ QueueInv' BY <1>1, <1>3 DEF StartInv, QueueInv
<1>7. NoTextPosted' <=> NoTextPosted BY <1>3 DEF NoTextPosted
<1>8. ASSUME UNCHANGED <<last_set_text, cached_clipboard_text>>,
             UNCHANGED sending \/ sending' \in Reply, task' \in {"idle", "record", "send"},
             slot' \in {"no", "event", "inside"}, mime.kind # "foreign"
      PROVE  IInv'
  <2>1. TypeOK' BY <1>1, <1>2, <1>3, <1>4, <1>8 DEF TypeOK, ServerTypeOK
  <2>2. EchoInv' BY <1>1, <1>3, <1>7, <1>8 DEF EchoInv
  <2> QED BY <1>6, <2>1, <2>2 DEF IInv
<1>9. CASE IsAnnouncedMime \/ ~HasText
  <2>1. /\ UNCHANGED <<sending, last_set_text, cached_clipboard_text>>
        /\ task' \in {"idle", "record"} /\ slot' \in {"no", "inside"}
    BY <1>2, <1>9 DEF OnDataChanged, SlotReturns
  <2>2. mime.kind # "foreign" BY <1>1, <1>9 DEF IsAnnouncedMime, HasText, TypeOK
  <2> QED BY <1>8, <2>1, <2>2
<1>10. CASE ~(IsAnnouncedMime \/ ~HasText) /\ mime.kind = "delayed"
  <2>1. RenderText(where) BY <1>2, <1>10 DEF OnDataChanged
  <2>2. CASE \E t \in Text : TakeText(t, where)
    <3>1. PICK t \in Text : TakeText(t, where) BY <2>2
    <3>2. task # "write" BY <1>2
    <3> QED BY <1>3, <1>4, <1>10, <3>1, <3>2, TakeKeeps
  <2>3. CASE RequestData /\ slot' = where /\ UNCHANGED <<last_set_text, cached_clipboard_text>>
    <3>1. sending' \in Reply /\ task' = "send"
      BY <1>1, <1>10, <2>3 DEF RequestData, Send, Reply, QueueInv
    <3> QED BY <1>8, <1>10, <2>3, <3>1
  <2> QED BY <2>1, <2>2, <2>3 DEF RenderText
<1>11. CASE ~(IsAnnouncedMime \/ ~HasText) /\ mime.kind # "delayed"
  <2>1. TakeText(mime.text, where) BY <1>2, <1>11 DEF OnDataChanged
  <2>2. mime.text \in Text BY <1>1, <1>11 DEF HasText, QueueInv
  <2>3. task # "write" BY <1>2
  <2> QED BY <1>3, <1>4, <2>1, <2>2, <2>3, TakeKeeps
<1> QED BY <1>9, <1>10, <1>11

\* A paste, and what the main thread does after it has sent a frame.
LEMMA PasteKeeps ==
  ASSUME IInv, SlotInv, Paste \/ SendReturns \/ WaitReturns
  PROVE  IInv'
<1> USE DEF sessionVars, mainVars, parentVars, stateVars, echoVars, qtVars, historyVars
<1>1. TypeOK /\ StartInv /\ QueueInv /\ EchoInv BY DEF IInv
<1>2. ASSUME UNCHANGED <<sessionVars, main, parentVars, clientMutex, posted, watch, signalled,
                         toParent, stateVars, echoVars, mime, changed, everSet>>,
             task # "write", task' \in {"idle", "send", "record", "wait"},
             sending' \in Reply \cup {NoFrame}, user' \in 0..MaxUser,
             slot' \in {"no", "event", "inside"}
      PROVE  IInv'
  <2>1. StartInv' /\ QueueInv' BY <1>1, <1>2 DEF StartInv, QueueInv
  <2>2. EchoInv' BY <1>1, <1>2 DEF EchoInv, NoTextPosted
  <2>3. TypeOK' BY <1>1, <1>2 DEF TypeOK, ServerTypeOK
  <2> QED BY <2>1, <2>2, <2>3 DEF IInv
<1>3. CASE Paste
  <2>1. user' \in 0..MaxUser BY <1>1, <1>3, ContentAssumption DEF Paste, TypeOK
  <2>2. mime.key \in Key BY <1>1, <1>3 DEF QueueInv, Paste
  <2>3. UNCHANGED <<task, sending>> \/ (task' = "send" /\ sending' \in Reply \cup {NoFrame})
    BY <1>1, <1>3, <2>2 DEF Paste, RequestData, Send, Reply, TypeOK
  <2> QED BY <1>1, <1>2, <1>3, <2>1, <2>3 DEF Paste, MainIdle, TypeOK
<1>4. CASE SendReturns
  <2>1. task' \in {"idle", "record", "wait"} /\ slot' \in {"no", "event", "inside"}
    BY <1>1, <1>4 DEF SendReturns, SlotReturns, TypeOK
  <2> QED BY <1>1, <1>2, <1>4, <2>1 DEF SendReturns, TypeOK
<1>5. CASE WaitReturns
  <2>1. CASE slot = "no" /\ task' = "idle" /\ UNCHANGED <<sending, slot, last_set_text,
                                                          cached_clipboard_text>>
    BY <1>1, <1>2, <1>5, <2>1 DEF WaitReturns, TypeOK
  <2>2. CASE slot # "no" /\ \E t \in Text : TakeText(t, slot)
    <3>1. PICK t \in Text : TakeText(t, slot) BY <2>2
    <3>2. slot \in {"event", "inside"} /\ changed \in Nat BY <1>1, <2>2 DEF TypeOK
    <3>3. mime.kind = "delayed" BY <1>5, <2>2 DEF WaitReturns, SlotInv
    <3>4. /\ task = "wait" /\ changed' = changed
          /\ UNCHANGED <<sessionVars, main, parentVars, clientMutex, posted, watch, signalled,
                         toParent, current_hash, pending_data, announced_mime, mime, everSet, user>>
      BY <1>5 DEF WaitReturns
    <3> QED BY <3>1, <3>2, <3>3, <3>4, TakeKeeps
  <2> QED BY <1>5, <2>1, <2>2 DEF WaitReturns
<1> QED BY <1>3, <1>4, <1>5

\* Another application copies: its dataChanged is on its way.
LEMMA AppCopiesKeeps ==
  ASSUME IInv, NEW t \in Text, AppCopies(t)
  PROVE  IInv'
<1>1. TypeOK /\ StartInv /\ QueueInv /\ EchoInv BY DEF IInv
<1>2. /\ changed' = changed + 1 /\ announced_mime' = FALSE
      /\ mime' = [kind |-> "foreign", text |-> t, key |-> NoKey]
      /\ UNCHANGED <<serverVars, stateVars, last_set_text, slot, everSet>>
  BY DEF AppCopies, NoMime
<1>3. changed' \in Nat /\ changed' # 0 BY <1>1, <1>2 DEF TypeOK
<1>4. user' \in 0..MaxUser BY <1>1, ContentAssumption DEF AppCopies, TypeOK
<1>5. TypeOK'
  BY <1>1, <1>2, <1>3, <1>4
     DEF TypeOK, ServerTypeOK, serverVars, sessionVars, mainVars, parentVars, stateVars
<1>6. StartInv' /\ QueueInv'
  BY <1>1, <1>2 DEF StartInv, QueueInv, serverVars, sessionVars, mainVars
<1>7. EchoInv' BY <1>1, <1>2, <1>3 DEF EchoInv, serverVars
<1> QED BY <1>5, <1>6, <1>7 DEF IInv

-----------------------------------------------------------------------------
(* The slot. *)

\* The first closure in the queue stays the first.
HeadKept == posted # <<>> => posted' # <<>> /\ posted'[1] = posted[1]

\* What is posted goes to the end of the queue.
LEMMA PostingKeepsHead ==
  ASSUME posted \in Seq(Posting), posted' = posted \/ (\E e : posted' = Append(posted, e))
  PROVE  HeadKept
<1>1. CASE posted' = posted BY <1>1 DEF HeadKept
<1>2. CASE \E e : posted' = Append(posted, e)
  <2>1. PICK e : posted' = Append(posted, e) BY <1>2
  <2>2. posted \in Seq(Posting \cup {e}) /\ e \in Posting \cup {e}
    <3>1. /\ Len(posted) \in Nat /\ posted \in [1..Len(posted) -> Posting] BY LenProperties
    <3>2. posted \in [1..Len(posted) -> Posting \cup {e}] BY <3>1
    <3> QED BY <3>1, <3>2, SeqDef
  <2>3. /\ Append(posted, e) # <<>>
        /\ \A i \in 1..Len(posted) : Append(posted, e)[i] = posted[i]
    BY <2>2, AppendProperties
  <2>4. posted # <<>> => 1 \in 1..Len(posted) BY EmptySeq, LenProperties
  <2> QED BY <2>1, <2>3, <2>4 DEF HeadKept
<1> QED BY <1>1, <1>2

\* A step outside the slot.
LEMMA SlotKept ==
  ASSUME SlotInv, HeadKept, UNCHANGED <<slot, mime, sending>>,
         task' = task \/ (task \in {"send", "write"} /\ task' \in {"write", "sent"})
  PROVE  SlotInv'
BY DEF SlotInv, HeadKept

\* Every step keeps SlotInv.
LEMMA SlotStep == ASSUME IInv, SlotInv, [Next]_vars PROVE SlotInv'
<1> USE DEF sessionVars, mainVars, parentVars, clipVars, stateVars, echoVars, qtVars, historyVars
<1>1. posted \in Seq(Posting) BY DEF IInv, QueueInv
<1>2. ASSUME PostQuit \/ posted' = posted \/ (\E e : posted' = Append(posted, e))
      PROVE  HeadKept
  BY <1>1, <1>2, PostingKeepsHead DEF PostQuit
<1>3. CASE Worker
  <2>1. CASE (WorkerNext \/ ReplyWrite(Fits(reply))) /\ UNCHANGED clipVars
    BY <1>2, <2>1, SlotKept DEF WorkerNext, WorkerStart, Accept, Register, ReplyLock, CheckStop,
       ReadFrame, ReadEnds, ClearClient, Disconnect, ReplyWrite
  <2>2. CASE Handle
    BY <1>2, <2>2, SlotKept DEF Handle, HandleSetClipboardText, HandleSetClipboardImage,
       HandleAnnounceDelayed, HandleProvideData, HandleGetClipboard, HandleRefused,
       HandleShutdown, Handled, InvokeOnMain
  <2> QED BY <1>3, <2>1, <2>2 DEF Worker
<1>4. CASE (LifecycleNext \/ SendWrite(Fits(sending)) \/ PollLoop) /\ UNCHANGED clipVars
  <2>1. CASE Quit
    <3>1. slot = "no" /\ UNCHANGED <<slot, mime, task, sending>>
      BY <1>4, <2>1 DEF Quit, MainIdle, SlotInv
    <3> QED BY <3>1 DEF SlotInv
  <2>2. CASE SendLock \/ SendWrite(Fits(sending))
    BY <1>2, <1>4, <2>2, SlotKept DEF SendLock, SendWrite
  <2>3. CASE \/ ServerStart \/ WatchdogStart \/ SignalNotified \/ ExecReturns \/ StopWatchdog
             \/ StopListening \/ StopClient \/ Exit \/ PollLoop
    BY <1>2, <1>4, <2>3, SlotKept DEF ServerStart, WatchdogStart, SignalNotified, ExecReturns,
       StopWatchdog, StopListening, StopClient, Exit, PollLoop
  <2> QED BY <1>4, <2>1, <2>2, <2>3 DEF LifecycleNext
<1>5. CASE SetClipboardText \/ SetClipboardImage \/ AnnounceDelayed
  <2>1. task = "idle" /\ slot = "no" /\ posted # <<>> /\ Head(posted) = posted[1]
    BY <1>1, <1>5, Taken DEF SetClipboardText, SetClipboardImage, AnnounceDelayed, Closure,
       MainIdle, SlotInv
  <2>2. CASE task' = task /\ slot' = slot
    BY <1>5, <2>1, <2>2
       DEF SetClipboardText, SetClipboardImage, AnnounceDelayed, SetMimeData, SlotInv
  <2>3. CASE task' = "slot" /\ slot' = "inside" /\ posted' = posted
    <3>1. \/ posted[1].op = "text" /\ mime'.kind = "text"
          \/ posted[1].op = "image" /\ mime'.kind = "image"
          \/ posted[1].op = "delayed" /\ mime'.kind = "delayed"
      BY <1>5, <2>1
         DEF SetClipboardText, SetClipboardImage, AnnounceDelayed, SetMimeData, Closure, NoMime
    <3>2. sending' = NoFrame
      BY <1>5, <2>1 DEF SetClipboardText, SetClipboardImage, AnnounceDelayed, SetMimeData, SlotInv
    <3> QED BY <2>1, <2>3, <3>1, <3>2 DEF SlotInv, NoFrame
  <2> QED BY <1>5, <2>2, <2>3
          DEF SetClipboardText, SetClipboardImage, AnnounceDelayed, SetMimeData
<1>6. CASE SetMimeDataReturns BY <1>6 DEF SetMimeDataReturns, SlotInv
<1>7. ASSUME NEW t, NEW where \in {"event", "inside"}, TakeText(t, where),
             UNCHANGED <<posted, mime>>, where = "inside" => slot = "inside",
             task \in {"idle", "slot", "wait"}
      PROVE  SlotInv'
  <2>1. sending = NoFrame BY <1>7 DEF SlotInv
  <2>2. CASE ConsumeEagerSetTextEcho(t)
    BY <1>7, <2>1, <2>2 DEF TakeText, SlotReturns, SlotInv, NoFrame
  <2>3. CASE ~ConsumeEagerSetTextEcho(t)
    BY <1>7, <2>1, <2>3 DEF TakeText, Send, SlotInv
  <2> QED BY <2>2, <2>3
<1>8. CASE OnClipboardChanged
  <2>1. PICK where \in {"event", "inside"} :
          /\ OnDataChanged(where) /\ task \in {"idle", "slot"}
          /\ where = "inside" => slot = "inside"
    BY <1>8 DEF OnClipboardChanged, MainIdle, SlotInv
  <2>2. UNCHANGED <<posted, mime>> BY <2>1 DEF OnDataChanged
  <2>3. CASE IsAnnouncedMime \/ ~HasText
    BY <2>1, <2>2, <2>3 DEF OnDataChanged, SlotReturns, SlotInv, NoFrame
  <2>4. CASE ~(IsAnnouncedMime \/ ~HasText) /\ mime.kind = "delayed"
    <3>1. RenderText(where) BY <2>1, <2>4 DEF OnDataChanged
    <3>2. CASE \E t \in Text : TakeText(t, where) BY <1>7, <2>1, <2>2, <3>2
    <3>3. CASE RequestData /\ slot' = where
      BY <2>1, <2>2, <2>4, <3>3 DEF RequestData, Send, SlotInv
    <3> QED BY <3>1, <3>2, <3>3 DEF RenderText
  <2>5. CASE ~(IsAnnouncedMime \/ ~HasText) /\ mime.kind # "delayed"
    BY <1>7, <2>1, <2>2, <2>5 DEF OnDataChanged
  <2> QED BY <2>3, <2>4, <2>5
<1>9. CASE Paste
  BY <1>9 DEF Paste, MainIdle, RequestData, Send, SlotInv
<1>10. CASE SendReturns
  BY <1>10 DEF SendReturns, SlotReturns, SlotInv, NoFrame, IInv, TypeOK
<1>11. CASE WaitReturns
  <2>1. CASE slot = "no" /\ task' = "idle" /\ UNCHANGED <<sending, slot>>
    BY <1>11, <2>1 DEF WaitReturns, SlotInv
  <2>2. CASE slot # "no" /\ \E t \in Text : TakeText(t, slot)
    <3>1. slot \in {"event", "inside"} BY <2>2 DEF IInv, TypeOK
    <3> QED BY <1>7, <1>11, <2>2, <3>1 DEF WaitReturns
  <2> QED BY <1>11, <2>1, <2>2 DEF WaitReturns
<1>12. CASE Main
  BY <1>4, <1>5, <1>6, <1>8, <1>10, <1>11, <1>12 DEF Main
<1>13. CASE (AcceptFails \/ PollLoop \/ ParentNext) /\ UNCHANGED clipVars
  BY <1>2, <1>13, SlotKept DEF AcceptFails, PollLoop, ParentNext, ParentConnects, ParentReads,
     Signal, ParentLeaves
<1>14. CASE \E f \in Request : ParentRequests(f)
  BY <1>2, <1>14, SlotKept DEF ParentRequests, ParentSends
<1>15. CASE \E t \in Text : AppCopies(t)
  BY <1>15 DEF AppCopies, MainIdle, SlotInv, serverVars
<1>16. CASE UNCHANGED vars BY <1>2, <1>16, SlotKept DEF vars, serverVars
<1> QED BY <1>3, <1>9, <1>12, <1>13, <1>14, <1>15, <1>16 DEF Next
-----------------------------------------------------------------------------
\* The initial states satisfy the invariant and every step keeps it.
LEMMA InvHolds == Spec => [](IInv /\ SlotInv)
<1>1. Init => IInv /\ SlotInv
  <2> SUFFICES ASSUME Init PROVE IInv /\ SlotInv OBVIOUS
  <2>1. /\ stop \in BOOLEAN /\ listening \in BOOLEAN /\ client \in BOOLEAN
        /\ signalled \in BOOLEAN /\ backlog \in BOOLEAN /\ alive \in BOOLEAN
    BY Zenon DEF Init, ServerInit
  <2>2. toHelper \in Seq(Request) BY EmptySeq DEF Init, ServerInit
  <2>3. TypeOK /\ StartInv
    BY <2>1, <2>2, BoundAssumption, ContentAssumption
       DEF Init, ServerInit, TypeOK, ServerTypeOK, StartInv, NoMime
  <2>4. QueueInv BY EmptySeq DEF Init, ServerInit, QueueInv, NoMime
  <2>5. EchoInv BY EmptySeq DEF Init, ServerInit, EchoInv, NoMime, NoTextPosted
  <2>6. SlotInv BY DEF Init, ServerInit, SlotInv
  <2> QED BY <2>3, <2>4, <2>5, <2>6 DEF IInv
<1>2. IInv /\ SlotInv /\ [Next]_vars => IInv' /\ SlotInv'
  <2> SUFFICES ASSUME IInv, SlotInv, [Next]_vars PROVE IInv' BY SlotStep
  <2>1. CASE Worker BY <2>1, WorkerKeeps, HandleKeeps DEF Worker
  <2>2. CASE Main
    BY <2>2, LifecycleKeeps, SetMimeKeeps, RecordKeeps, ChangedKeeps, PasteKeeps DEF Main
  <2>3. CASE Paste BY <2>3, PasteKeeps
  <2>4. CASE (AcceptFails \/ PollLoop \/ ParentNext) /\ UNCHANGED clipVars
    BY <2>4, WorkerKeeps, LifecycleKeeps, ParentKeeps
  <2>5. CASE \E f \in Request : ParentRequests(f) BY <2>5, ParentKeeps DEF ParentRequests
  <2>6. CASE \E t \in Text : AppCopies(t) BY <2>6, AppCopiesKeeps
  <2>7. CASE UNCHANGED vars
    <3>1. TypeOK' /\ StartInv' /\ QueueInv'
      BY <2>7 DEF IInv, vars, serverVars, sessionVars, mainVars, parentVars, clipVars, stateVars,
         echoVars, qtVars, historyVars, TypeOK, ServerTypeOK, StartInv, QueueInv
    <3>2. EchoInv'
      BY <2>7 DEF IInv, vars, serverVars, clipVars, stateVars, echoVars, qtVars, historyVars,
         EchoInv, NoTextPosted
    <3> QED BY <3>1, <3>2 DEF IInv
  <2> QED BY <2>1, <2>2, <2>3, <2>4, <2>5, <2>6, <2>7 DEF Next
<1> QED BY <1>1, <1>2, PTL DEF Spec

\* Type correctness of the helper: client_mutex_ is held by a writer and by
\* nobody else, and client_fd_ is set exactly while a connection is served.
THEOREM TypeCorrect == Spec => []TypeOK
<1>1. IInv => TypeOK BY DEF IInv
<1> QED BY <1>1, InvHolds, PTL

\* Once all is quiet, a copy of the user's that the parent never set is what
\* GET_CLIPBOARD returns: the EchoSuppressor swallows none.
THEOREM ForeignTextIsCached == Spec => []ForeignTextCached
<1>1. IInv => ForeignTextCached
  <2> SUFFICES ASSUME IInv, Quiet, mime.kind = "foreign", mime.text \notin everSet
               PROVE  cached_clipboard_text = mime.text
    BY DEF ForeignTextCached
  <2>1. posted = <<>> /\ changed = 0 BY DEF Quiet
  <2>2. NoTextPosted BY <2>1, EmptySeq DEF NoTextPosted
  <2> QED BY <2>1, <2>2 DEF IInv, EchoInv
<1> QED BY <1>1, InvHolds, PTL
=============================================================================
