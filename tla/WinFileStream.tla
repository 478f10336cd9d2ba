--------------------------- MODULE WinFileStream ---------------------------
(***************************************************************************)
(* Pasting files on the Windows helper: the streams Explorer reads         *)
(* (VirtualFileStream, windows/src/virtual_file_provider.cpp) and the      *)
(* provider that fetches each chunk from the parent                        *)
(* (DispatcherChunkProvider, windows/src/dispatch.cpp).                    *)
(*                                                                         *)
(* The STA runs Read, which blocks in FetchChunk; FetchChunk pumps, so a   *)
(* call on another stream, or on the same one, runs inside it: the calls   *)
(* in flight are a stack and only the innermost moves.  The main thread    *)
(* runs DeliverChunk for the parent's answers and, at the end, CancelAll.  *)
(*                                                                         *)
(* pending_ is the stack seen by key: a slot is queued before its request  *)
(* is sent and erased when its call leaves, so the queue of a key holds    *)
(* the calls in flight for it, the outermost first.  A chunk is abstracted *)
(* to the file and offset it was read at and its length.                   *)
(***************************************************************************)
EXTENDS Integers, Sequences

CONSTANTS
  Files,             \* (transfer_id, file_id) pairs
  Streams,           \* stream objects
  Opened,            \* the ways GetData can have handed out streams on files
  FileSize,          \* bytes in a file
  MaxCalls,          \* bound: FetchChunk calls
  Handles            \* values an event handle can take

ASSUME StreamAssumption ==
  /\ FileSize \in Nat /\ MaxCalls \in Nat
  /\ \A o \in Opened : /\ DOMAIN o \subseteq Streams
                        /\ o \in [DOMAIN o -> Files]

VARIABLES
  file,       \* the streams that exist, each with its file
  pos, reading,
  copied,     \* history: bytes a consumer has copied in order; -1 once it seeks
  eof,        \* history: the streams told S_FALSE whose consumer never sought
  stack,      \* the FetchChunk calls in flight, outermost first
  calls,      \* calls begun
  signalled,  \* event handles in the signalled state
  asked,      \* requests the parent has not answered
  connected,  \* whether SendFrame finds a client
  phase,      \* main thread: "serving", "ended", "cancelled", "stopped"
  signals     \* main thread: SetEvent calls still to make, after the unlock

streamVars == <<file, pos, reading, copied, eof>>
mainVars == <<connected, phase, signals>>
vars == <<streamVars, stack, calls, signalled, asked, mainVars>>

Request == [id : 1..MaxCalls, file : Files, offset : 0..FileSize, want : 1..FileSize]

\* A parent's answer: len bytes of a file from an offset.  Length 0 stands for
\* an error as well as for an empty chunk: Read fails on both.
Chunk == [file : Files, offset : 0..FileSize, len : 0..FileSize]

\* A call of FetchChunk with its PendingChunk.  data is meaningful once
\* received is set.
Call == [id : 1..MaxCalls, stream : Streams, offset : 0..FileSize, want : 1..FileSize,
         pc : {"send", "wait", "pump"}, event : Handles,
         received : BOOLEAN, cancelled : BOOLEAN, data : Chunk]

Depth == Len(stack)
Top == stack[Depth]

\* The STA can dispatch a call or a message: in PumpMessages until WM_QUIT ends
\* it, or pumping in FetchChunk.
Dispatching == IF Depth = 0 THEN phase # "stopped" ELSE Top.pc = "pump"
-----------------------------------------------------------------------------
(* FetchChunk *)

\* Mutant: the offset is not part of the key.
MakeKeyWithoutOffset(r) == <<r.file, 0>>

MakeKey(r) == <<r.file, r.offset>>

KeyOf(c) == MakeKey([file |-> file[c.stream], offset |-> c.offset])

NoData(s) == [file |-> file[s], offset |-> 0, len |-> 0]

\* CreateEventW returns a handle value that is not in use.
StageSlot(s, want) ==
  \E h \in Handles \ {stack[d].event : d \in 1..Depth} :
    stack' = Append(stack, [id |-> calls + 1, stream |-> s, offset |-> pos[s], want |-> want,
                            pc |-> "send", event |-> h, received |-> FALSE,
                            cancelled |-> FALSE, data |-> NoData(s)])

\* The bytes a call hands to Read: none after WM_QUIT (E_ABORT), a cancellation
\* (STG_E_REVERTED) or a timeout (E_FAIL); never more than were asked for.
Got(c, got_quit) ==
  IF got_quit \/ ~c.received THEN 0
  ELSE IF c.data.len < c.want THEN c.data.len ELSE c.want

\* Mutant: end of file is told by a short fill.
ReachedEndShort(s, n, want) == n < want \/ pos[s] + n >= FileSize

\* End of file is told by the position.
ReachedEnd(s, n, want) == pos[s] + n >= FileSize

TellEof(s) == IF copied[s] = -1 THEN eof ELSE eof \cup {s}

\* Mutant: reading_ is not reset when the call fails.
ReturnReadNoReset(got_quit) ==
  LET c == Top
      s == c.stream
      n == Got(c, got_quit) IN
  /\ stack' = SubSeq(stack, 1, Depth - 1)
  /\ signalled' = signalled \ {c.event}
  /\ reading' = IF n > 0 THEN reading \ {s} ELSE reading
  /\ IF n = 0 THEN UNCHANGED <<pos, eof, copied>>
     ELSE /\ pos' = [pos EXCEPT ![s] = @ + n]
          /\ eof' = IF ReachedEnd(s, n, c.want) THEN TellEof(s) ELSE eof
          /\ copied' = IF copied[s] = c.data.offset THEN [copied EXCEPT ![s] = @ + n]
                       ELSE copied
  /\ UNCHANGED <<file, calls>>

\* The innermost call erases its slot, closes its event and returns to Read,
\* which fails on an empty chunk and advances pos_ otherwise.
ReturnRead(got_quit) ==
  LET c == Top
      s == c.stream
      n == Got(c, got_quit) IN
  /\ stack' = SubSeq(stack, 1, Depth - 1)
  /\ signalled' = signalled \ {c.event}
  /\ reading' = reading \ {s}
  /\ IF n = 0 THEN UNCHANGED <<pos, eof, copied>>
     ELSE /\ pos' = [pos EXCEPT ![s] = @ + n]
          /\ eof' = IF ReachedEnd(s, n, c.want) THEN TellEof(s) ELSE eof
          /\ copied' = IF copied[s] = c.data.offset THEN [copied EXCEPT ![s] = @ + n]
                       ELSE copied
  /\ UNCHANGED <<file, calls>>

\* SendFrame: without a client the call fails at once.
SendChunkRequest ==
  /\ Depth > 0 /\ Top.pc = "send"
  /\ IF connected
     THEN /\ asked' = asked \cup {[id |-> Top.id, file |-> file[Top.stream],
                                   offset |-> Top.offset, want |-> Top.want]}
          /\ stack' = [stack EXCEPT ![Depth].pc = "wait"]
          /\ UNCHANGED <<streamVars, calls, signalled>>
     ELSE /\ stack' = SubSeq(stack, 1, Depth - 1)
          /\ reading' = reading \ {Top.stream}
          /\ signalled' = signalled \ {Top.event}
          /\ UNCHANGED <<file, pos, eof, copied, calls, asked>>
  /\ UNCHANGED <<mainVars>>

\* MsgWaitForMultipleObjects returns for the event.
WakeByEvent ==
  /\ Depth > 0 /\ Top.pc = "wait" /\ Top.event \in signalled
  /\ ReturnRead(FALSE)
  /\ UNCHANGED <<asked, mainVars>>

\* It returns for a message.
WakeByMessage ==
  /\ Depth > 0 /\ Top.pc = "wait" /\ Top.event \notin signalled
  /\ stack' = [stack EXCEPT ![Depth].pc = "pump"]
  /\ UNCHANGED <<streamVars, calls, signalled, asked, mainVars>>

\* Mutant: after the pump the slot is not looked at again and the event is reset.
PumpEndWithoutRecheck ==
  /\ Depth > 0 /\ Top.pc = "pump"
  /\ stack' = [stack EXCEPT ![Depth].pc = "wait"]
  /\ signalled' = signalled \ {Top.event}
  /\ UNCHANGED <<streamVars, calls, asked, mainVars>>

\* The queue is empty: the slot is looked at again, under the lock.
PumpEnd ==
  /\ Depth > 0 /\ Top.pc = "pump"
  /\ IF Top.cancelled \/ Top.received
     THEN ReturnRead(FALSE)
     ELSE /\ stack' = [stack EXCEPT ![Depth].pc = "wait"]
          /\ UNCHANGED <<streamVars, calls, signalled>>
  /\ UNCHANGED <<asked, mainVars>>

\* WM_QUIT, re-posted for the pump outside.
PumpQuit ==
  /\ Depth > 0 /\ Top.pc = "pump" /\ phase = "stopped"
  /\ ReturnRead(TRUE)
  /\ UNCHANGED <<asked, mainVars>>

\* kChunkTimeoutMs is over; an answer may have come in at the last moment.
ChunkTimeout ==
  /\ Depth > 0 /\ Top.pc = "wait"
  /\ ReturnRead(FALSE)
  /\ UNCHANGED <<asked, mainVars>>
-----------------------------------------------------------------------------
(* VirtualFileStream *)

ReadAtEof(s) ==
  /\ Dispatching /\ s \in DOMAIN file
  /\ pos[s] >= FileSize
  /\ eof' = TellEof(s)
  /\ UNCHANGED <<file, pos, reading, copied, stack, calls, signalled, asked, mainVars>>

\* Read up to FetchChunk's SendFrame: the request is clipped to the file.  A
\* Read of a stream that is being read returns STG_E_INUSE and changes nothing.
Read(s, cb) ==
  /\ Dispatching /\ s \in DOMAIN file
  /\ pos[s] < FileSize /\ s \notin reading
  /\ calls < MaxCalls
  /\ reading' = reading \cup {s}
  /\ calls' = calls + 1
  /\ StageSlot(s, IF FileSize - pos[s] < cb THEN FileSize - pos[s] ELSE cb)
  /\ UNCHANGED <<file, pos, eof, copied, signalled, asked, mainVars>>

\* Seek is not guarded by reading_: it may move pos_ under a Read in flight,
\* which then adds its length to the new position.
Seek(s, target) ==
  /\ Dispatching /\ s \in DOMAIN file
  /\ pos' = [pos EXCEPT ![s] = target]
  /\ copied' = [copied EXCEPT ![s] = -1]
  /\ eof' = eof \ {s}
  /\ UNCHANGED <<file, reading, stack, calls, signalled, asked, mainVars>>

Clone(s, t) ==
  /\ Dispatching /\ s \in DOMAIN file /\ t \notin DOMAIN file
  /\ file' = [u \in DOMAIN file \cup {t} |-> IF u = t THEN file[s] ELSE file[u]]
  /\ pos' = [pos EXCEPT ![t] = pos[s]]
  /\ copied' = [copied EXCEPT ![t] = copied[s]]
  /\ UNCHANGED <<reading, eof, stack, calls, signalled, asked, mainVars>>
-----------------------------------------------------------------------------
(* CancelAll, DeliverChunk and the threads that call them *)

AllCancelled == [d \in 1..Depth |-> [stack[d] EXCEPT !.cancelled = TRUE]]
AllEvents == {stack[d].event : d \in 1..Depth}

\* OnClipboardChanged on the STA: another application has taken the clipboard
\* from the data object we published last.
ClipboardRotated ==
  /\ Dispatching /\ phase \in {"serving", "ended"}
  /\ stack' = AllCancelled
  /\ signalled' = signalled \cup AllEvents
  /\ UNCHANGED <<streamVars, calls, asked, mainVars>>

\* DeliverChunk up to the unlock: the answer, len bytes, is stored in the front
\* slot of its key, which stays queued; without a waiter it is dropped.
DeliverChunk(r, len) ==
  LET waiting == {d \in 1..Depth : KeyOf(stack[d]) = MakeKey(r)} IN
  /\ phase = "serving" /\ connected /\ signals = {}
  /\ asked' = asked \ {r}
  /\ \/ waiting = {} /\ UNCHANGED <<stack, signals>>
     \/ \E front \in waiting :
          /\ \A d \in waiting : front <= d
          /\ stack' = [stack EXCEPT
                         ![front].received = TRUE,
                         ![front].data = [file |-> r.file, offset |-> r.offset, len |-> len]]
          /\ signals' = {[id |-> stack[front].id, event |-> stack[front].event]}
  /\ UNCHANGED <<streamVars, calls, signalled, connected, phase>>

\* Mutant: the event of a cancelled call is not set.
SetEventDelivered(g) ==
  /\ g \in signals
  /\ signals' = signals \ {g}
  /\ signalled' = IF g.event \in AllEvents /\ phase = "serving"
                  THEN signalled \cup {g.event} ELSE signalled
  /\ UNCHANGED <<streamVars, stack, calls, asked, connected, phase>>

\* SetEvent after the unlock: the handle may be closed by now, and its value
\* in use again.
SetEvent(g) ==
  /\ g \in signals
  /\ signals' = signals \ {g}
  /\ signalled' = IF g.event \in AllEvents THEN signalled \cup {g.event} ELSE signalled
  /\ UNCHANGED <<streamVars, stack, calls, asked, connected, phase>>

\* DeliverChunk found slot->event already reset by a call that has left.
SkipEvent(g) ==
  /\ g \in signals /\ phase = "serving"
  /\ \A d \in 1..Depth : stack[d].id # g.id
  /\ signals' = signals \ {g}
  /\ UNCHANGED <<streamVars, stack, calls, signalled, asked, connected, phase>>

\* The client leaves, or connects again (PipeServer).  The parent may answer
\* what it was asked over an earlier connection, or never.
Disconnect ==
  /\ phase = "serving" /\ connected /\ signals = {}
  /\ connected' = FALSE
  /\ UNCHANGED <<streamVars, stack, calls, signalled, asked, phase, signals>>

Reconnect ==
  /\ phase = "serving" /\ ~connected
  /\ connected' = TRUE
  /\ UNCHANGED <<streamVars, stack, calls, signalled, asked, phase, signals>>

\* PipeServer::Run returned.
ServeEnds ==
  /\ phase = "serving" /\ signals = {}
  /\ connected' = FALSE
  /\ asked' = {}
  /\ phase' = "ended"
  /\ UNCHANGED <<streamVars, stack, calls, signalled, signals>>

\* ReleaseStaBoundResources, step 1: CancelAll up to the unlock.
ReleaseStaBoundResources ==
  /\ phase = "ended"
  /\ stack' = AllCancelled
  /\ signals' = {[id |-> stack[d].id, event |-> stack[d].event] : d \in 1..Depth}
  /\ phase' = "cancelled"
  /\ UNCHANGED <<streamVars, calls, signalled, asked, connected>>

\* StaWorker::Stop: WM_QUIT reaches the pumps.
StaStop ==
  /\ phase = "cancelled" /\ signals = {}
  /\ phase' = "stopped"
  /\ UNCHANGED <<streamVars, stack, calls, signalled, asked, connected, signals>>
-----------------------------------------------------------------------------
Init ==
  /\ file \in Opened
  /\ pos = [s \in Streams |-> 0] /\ reading = {}
  /\ eof = {} /\ copied = [s \in Streams |-> 0]
  /\ stack = <<>> /\ calls = 0 /\ signalled = {} /\ asked = {}
  /\ connected = TRUE /\ phase = "serving" /\ signals = {}

FetchNext == SendChunkRequest \/ WakeByEvent \/ PumpEnd \/ PumpQuit

Deliver == \E r \in asked : \E len \in 0..r.want : DeliverChunk(r, len)

SetEvents == \E g \in signals : SetEvent(g) \/ SkipEvent(g)

ConsumerNext ==
  \E s \in Streams :
    \/ ReadAtEof(s)
    \/ \E cb \in 1..FileSize : Read(s, cb)
    \/ \E target \in 0..FileSize : Seek(s, target)
    \/ \E t \in Streams : Clone(s, t)

Next ==
  \/ FetchNext \/ WakeByMessage \/ ChunkTimeout \/ ConsumerNext
  \/ ClipboardRotated \/ Deliver \/ SetEvents
  \/ Disconnect \/ Reconnect \/ ServeEnds \/ ReleaseStaBoundResources \/ StaStop

Spec == Init /\ [][Next]_vars

\* Fairness: the STA and the main thread run; nothing is assumed of the
\* parent, the consumers, or the timeout.
ThreadsFair ==
  WF_vars(FetchNext) /\ WF_vars(SetEvents) /\ WF_vars(ReleaseStaBoundResources)

FairSpec == Spec /\ ThreadsFair
-----------------------------------------------------------------------------
(* Properties *)

\* Type invariant.  Every call in flight has a stream of its own, marked
\* reading_, and an event of its own.
TypeOK ==
  /\ DOMAIN file \subseteq Streams /\ \A s \in DOMAIN file : file[s] \in Files
  /\ pos \in [Streams -> 0..(FileSize + FileSize)] /\ eof \subseteq DOMAIN file
  /\ copied \in [Streams -> -1..FileSize]
  /\ stack \in Seq(Call) /\ calls \in 0..MaxCalls
  /\ signalled \subseteq AllEvents /\ asked \subseteq Request
  /\ connected \in BOOLEAN
  /\ phase \in {"serving", "ended", "cancelled", "stopped"}
  /\ signals \subseteq [id : 1..MaxCalls, event : Handles]
  /\ reading = {stack[d].stream : d \in 1..Depth}
  /\ \A d, e \in 1..Depth : d # e => stack[d].stream # stack[e].stream
                                  /\ stack[d].event # stack[e].event
  /\ \A d \in 1..(Depth - 1) : stack[d].pc = "pump"

\* A Read in flight gets the bytes it asked for, its own file's at its own
\* offset, and its stream is still at that offset unless the consumer itself
\* seeks, however many other reads, late answers and clones there are:
\* reading_ "protects pos_ against the same-thread, same-stream re-entry".
ReadAtCursor ==
  \A d \in 1..Depth :
    LET s == stack[d].stream IN
    /\ copied[s] # -1 => stack[d].offset = pos[s]
    /\ stack[d].received => /\ stack[d].data.file = file[s]
                            /\ stack[d].data.offset = stack[d].offset

\* No silent truncation: a consumer that only reads and is told end of file
\* has got every byte of the file, whatever short or empty chunks came.
CompleteAtEof ==
  \A s \in eof : copied[s] = FileSize

\* A call that has been answered or cancelled is not left waiting: its event
\* is set, or the main thread is about to set it.
NoLostWakeup ==
  \A d \in 1..Depth :
    stack[d].pc = "wait" /\ (stack[d].received \/ stack[d].cancelled) =>
      \/ stack[d].event \in signalled
      \/ \E g \in signals : g.id = stack[d].id

\* CancelAll at teardown ends every call without waiting for a timeout, so
\* that the RunSync calls that follow it are not held up.
TeardownDrains == phase = "cancelled" ~> stack = <<>>
=============================================================================
