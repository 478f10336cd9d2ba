--------------------------- MODULE WinPipeServer ---------------------------
(***************************************************************************)
(* The named-pipe server of the Windows helper (windows/src/               *)
(* pipe_server.cpp): the accept-and-serve loop (Run, on the main thread),  *)
(* the writer thread that drains outbound_, SendFrame as the STA calls it, *)
(* and Stop as the watchdog, the console handler or a SHUTDOWN frame calls *)
(* it.  The client (the parent process) and its end of the pipe are        *)
(* external: client, inbox, wire, got.                                     *)
(*                                                                         *)
(* A pipe instance is its number; 0 is the null handle.  A frame is        *)
(* abstracted to its kind, its place in the order of EnqueueOutbound calls,*)
(* the instance its sender saw active and whether it is larger than        *)
(* kMaxFrameSize, and is written whole or not at all.                      *)
(***************************************************************************)
EXTENDS Naturals, Sequences

CONSTANTS
  MaxPipes,   \* bound: pipe instances created
  MaxFrames,  \* bound: replies and pushes, beside one READY per instance
  WireCap     \* frames the pipe buffer holds before a write stays pending

ASSUME BoundsAssumption ==
  MaxPipes \in Nat \ {0} /\ MaxFrames \in Nat \ {0} /\ WireCap \in Nat \ {0}

VARIABLES
  stop, stop_event,
  stopper,      \* progress of Stop(): "no", "stored", "signalled", "done"
  active_pipe,
  outbound, enqueued,
  run,          \* program counter of Run / ServeOneClient
  request,      \* the frame being handled
  writer,       \* program counter of WriterThreadMain
  popped, target, \* the writer's local frame and handle
  sender,       \* the STA in SendFrame: 0, or the instance it saw active
  admitted,     \* whether it has passed EnqueueOutbound's test of stop_
  instance,     \* instances created so far; the last one is Run's handle
  handleOpen,   \* whether that handle is still open
  client, inbox, wire, got

serverVars == <<stop, stop_event, stopper>>
writerVars == <<writer, popped, target>>
clientVars == <<client, inbox, wire, got>>
senderVars == <<sender, admitted>>
vars == <<serverVars, active_pipe, outbound, enqueued, run, request, writerVars,
          senderVars, instance, handleOpen, clientVars>>

Kind == {"READY", "reply", "push"}
FrameNo == 1..(MaxFrames + MaxPipes)
FrameSet == [kind : Kind, pipe : 0..MaxPipes, big : BOOLEAN, n : FrameNo]
NoFrame == [kind |-> "push", pipe |-> 0, big |-> FALSE, n |-> 1]
Requests == {"none", "plain", "GET", "SHUTDOWN", "oversized"}

\* The bound on frames: what is on its way to EnqueueOutbound counts.
Room ==
  enqueued + (IF sender # 0 THEN 1 ELSE 0) + (IF inbox = "GET" THEN 1 ELSE 0)
           + (IF request = "GET" THEN 1 ELSE 0) < MaxFrames
-----------------------------------------------------------------------------
(* EnqueueOutbound *)

\* The writer holds outbound_mu_ from the test of its wait condition until it
\* blocks on the condition variable.
MutexFree == writer # "dozing"

\* notify_one / notify_all reach a writer that is blocked, and no other.
Notify == writer' = IF writer = "asleep" THEN "check" ELSE writer

\* Mutant: the writer is not woken.
EnqueueSilently(kind, pipe, big) ==
  /\ MutexFree
  /\ enqueued' = enqueued + 1
  /\ outbound' = Append(outbound, [kind |-> kind, pipe |-> pipe, big |-> big,
                                  n |-> enqueued + 1])
  /\ UNCHANGED writer

\* The push and notify_one.  stop_ was tested before, without the mutex: the
\* writer may have left meanwhile.
EnqueueOutbound(kind, pipe, big) ==
  /\ MutexFree
  /\ enqueued' = enqueued + 1
  /\ outbound' = Append(outbound, [kind |-> kind, pipe |-> pipe, big |-> big,
                                  n |-> enqueued + 1])
  /\ Notify
-----------------------------------------------------------------------------
(* Stop *)

StopBegin ==
  /\ stopper = "no"
  /\ stop' = TRUE
  /\ stopper' = "stored"
  /\ UNCHANGED <<stop_event, active_pipe, outbound, enqueued, run, request, writerVars,
                 senderVars, instance, handleOpen, clientVars>>

StopSignal ==
  /\ stopper = "stored"
  /\ stop_event' = TRUE
  /\ stopper' = "signalled"
  /\ UNCHANGED <<stop, active_pipe, outbound, enqueued, run, request, writerVars, senderVars,
                 instance, handleOpen, clientVars>>

\* notify_all, without outbound_mu_.
StopNotify ==
  /\ stopper = "signalled"
  /\ Notify
  /\ stopper' = "done"
  /\ UNCHANGED <<stop, stop_event, active_pipe, outbound, enqueued, run, request, popped,
                 target, senderVars, instance, handleOpen, clientVars>>
-----------------------------------------------------------------------------
(* Run and ServeOneClient *)

\* The loop test and CreatePipe.
CreatePipe ==
  /\ run = "create" /\ ~stop /\ instance < MaxPipes
  /\ instance' = instance + 1
  /\ handleOpen' = TRUE
  /\ client' = "away" /\ inbox' = "none" /\ wire' = <<>> /\ got' = <<>>
  /\ run' = "connect"
  /\ UNCHANGED <<serverVars, active_pipe, outbound, enqueued, request, writerVars, senderVars>>

\* ConnectClient returned for a client.
ConnectClient ==
  /\ run = "connect" /\ client # "away"
  /\ active_pipe' = instance
  /\ run' = "onconnect"
  /\ UNCHANGED <<serverVars, outbound, enqueued, request, writerVars, senderVars, instance,
                 handleOpen, clientVars>>

\* ConnectClient failed, or returned for stop_event_: the handle is closed, on
\* a client that may have just connected too.
ConnectAborted ==
  /\ run = "connect"
  /\ handleOpen' = FALSE
  /\ client' = "gone" /\ wire' = <<>> /\ inbox' = "none"
  /\ run' = "create"
  /\ UNCHANGED <<serverVars, active_pipe, outbound, enqueued, request, writerVars, senderVars,
                 instance, got>>

\* on_connect_, and EnqueueOutbound's test of stop_ for its READY.
OnConnect ==
  /\ run = "onconnect"
  /\ run' = IF stop THEN "serve" ELSE "ready"
  /\ UNCHANGED <<serverVars, active_pipe, outbound, enqueued, request, writerVars, senderVars,
                 instance, handleOpen, clientVars>>

OnConnectEnqueue ==
  /\ run = "ready"
  /\ EnqueueOutbound("READY", instance, FALSE)
  /\ run' = "serve"
  /\ UNCHANGED <<serverVars, active_pipe, request, popped, target, senderVars, instance,
                 handleOpen, clientVars>>

\* ServeOneClient's loop test; it also publishes the pipe when it is entered.
ServeLoop ==
  /\ run = "serve"
  /\ run' = IF stop THEN "clear" ELSE "read"
  /\ UNCHANGED <<serverVars, active_pipe, outbound, enqueued, request, writerVars, senderVars,
                 instance, handleOpen, clientVars>>

ReadFrame ==
  /\ run = "read" /\ inbox \notin {"none", "oversized"}
  /\ request' = inbox
  /\ inbox' = "none"
  /\ run' = "handle"
  /\ UNCHANGED <<serverVars, active_pipe, outbound, enqueued, writerVars, senderVars, instance,
                 handleOpen, client, wire, got>>

\* Mutant: the read does not wait for stop_event_.
ReadFrameFailsOnIoOnly ==
  /\ run = "read"
  /\ (inbox = "none" /\ client = "gone") \/ inbox = "oversized"
  /\ run' = "clear"
  /\ UNCHANGED <<serverVars, active_pipe, outbound, enqueued, request, writerVars, senderVars,
                 instance, handleOpen, clientVars>>

\* The client is gone, sent an oversized frame, or stop_event_ is set.
ReadFrameFails ==
  /\ run = "read"
  /\ (inbox = "none" /\ client = "gone") \/ inbox = "oversized" \/ stop_event
  /\ run' = "clear"
  /\ UNCHANGED <<serverVars, active_pipe, outbound, enqueued, request, writerVars, senderVars,
                 instance, handleOpen, clientVars>>

\* SHUTDOWN calls Stop on this thread.
HandleShutdown == run = "handle" /\ request = "SHUTDOWN" /\ StopBegin

\* Mutant: an empty reply is enqueued too.
HandleFrameAlways ==
  /\ run = "handle"
  /\ request = "SHUTDOWN" => stopper = "done"
  /\ IF ~stop THEN run' = "reply" /\ UNCHANGED request
     ELSE run' = "serve" /\ request' = "none"
  /\ UNCHANGED <<serverVars, active_pipe, outbound, enqueued, writerVars, senderVars, instance,
                 handleOpen, clientVars>>

\* The handler returned: without a reply, with one EnqueueOutbound refuses for
\* stop_, or with one it goes on to enqueue.
HandleFrame ==
  /\ run = "handle"
  /\ request = "SHUTDOWN" => stopper = "done"
  /\ IF request = "GET" /\ ~stop THEN run' = "reply" /\ UNCHANGED request
     ELSE run' = "serve" /\ request' = "none"
  /\ UNCHANGED <<serverVars, active_pipe, outbound, enqueued, writerVars, senderVars, instance,
                 handleOpen, clientVars>>

HandleEnqueue ==
  /\ run = "reply"
  /\ \E big \in BOOLEAN : EnqueueOutbound("reply", instance, big)
  /\ request' = "none"
  /\ run' = "serve"
  /\ UNCHANGED <<serverVars, active_pipe, popped, target, senderVars, instance, handleOpen,
                 clientVars>>

\* Mutant: the published handle is left behind.
ClearActiveSkipped ==
  /\ run = "clear"
  /\ run' = "flush"
  /\ UNCHANGED <<serverVars, active_pipe, outbound, enqueued, request, writerVars, senderVars,
                 instance, handleOpen, clientVars>>

ClearActive ==
  /\ run = "clear"
  /\ active_pipe' = 0
  /\ run' = "flush"
  /\ UNCHANGED <<serverVars, outbound, enqueued, request, writerVars, senderVars, instance,
                 handleOpen, clientVars>>

\* FlushFileBuffers returns when the client has read everything or is gone;
\* then the handle is disconnected and closed.  outbound_ is left as it is.
FlushAndClose ==
  /\ run = "flush"
  /\ wire = <<>> \/ client = "gone"
  /\ handleOpen' = FALSE
  /\ client' = "gone" /\ wire' = <<>> /\ inbox' = "none"
  /\ run' = "create"
  /\ UNCHANGED <<serverVars, active_pipe, outbound, enqueued, request, writerVars, senderVars,
                 instance, got>>

LeaveLoop ==
  /\ run = "create" /\ stop
  /\ run' = "join"
  /\ Notify
  /\ UNCHANGED <<serverVars, active_pipe, outbound, enqueued, request, popped, target,
                 senderVars, instance, handleOpen, clientVars>>

Join ==
  /\ run = "join" /\ writer = "exit"
  /\ run' = "done"
  /\ UNCHANGED <<serverVars, active_pipe, outbound, enqueued, request, writerVars, senderVars,
                 instance, handleOpen, clientVars>>
-----------------------------------------------------------------------------
(* WriterThreadMain *)

\* The wait condition, tested under outbound_mu_.
WriterCheck ==
  /\ writer = "check"
  /\ IF outbound # <<>>
     THEN /\ popped' = Head(outbound)
          /\ outbound' = Tail(outbound)
          /\ writer' = "route"
     ELSE /\ writer' = IF stop THEN "exit" ELSE "dozing"
          /\ UNCHANGED <<popped, outbound>>
  /\ UNCHANGED <<serverVars, active_pipe, enqueued, run, request, target, senderVars, instance,
                 handleOpen, clientVars>>

\* outbound_cv_.wait blocks and releases the mutex.
WriterSleep ==
  /\ writer = "dozing"
  /\ writer' = "asleep"
  /\ UNCHANGED <<serverVars, active_pipe, outbound, enqueued, run, request, popped, target,
                 senderVars, instance, handleOpen, clientVars>>

\* The handle is copied out of active_pipe_; without a client the frame is
\* dropped.
WriterRoute ==
  /\ writer = "route"
  /\ IF active_pipe = 0
     THEN writer' = "check" /\ popped' = NoFrame /\ UNCHANGED target
     ELSE writer' = "write" /\ target' = active_pipe /\ UNCHANGED popped
  /\ UNCHANGED <<serverVars, active_pipe, outbound, enqueued, run, request, senderVars, instance,
                 handleOpen, clientVars>>

WriterDone ==
  /\ writer' = "check" /\ popped' = NoFrame /\ target' = 0
  /\ UNCHANGED <<serverVars, active_pipe, outbound, enqueued, run, request, senderVars, instance,
                 handleOpen>>

\* Mutant: the frame is written and stays at the head of the queue.
WriteFrameTwice ==
  /\ writer = "write" /\ ~popped.big
  /\ handleOpen /\ client = "here" /\ Len(wire) < WireCap
  /\ wire' = Append(wire, popped)
  /\ writer' = "check" /\ popped' = NoFrame /\ target' = 0
  /\ outbound' = IF popped.kind = "push" THEN <<popped>> \o outbound ELSE outbound
  /\ UNCHANGED <<serverVars, active_pipe, enqueued, run, request, senderVars, instance,
                 handleOpen, client, inbox, got>>

\* WriteFrame: pending until the pipe has room.  A copied handle that was
\* closed meanwhile may have been given to the next instance.
WriteFrame ==
  /\ writer = "write" /\ ~popped.big
  /\ handleOpen /\ client = "here" /\ Len(wire) < WireCap
  /\ wire' = Append(wire, popped)
  /\ WriterDone
  /\ UNCHANGED <<client, inbox, got>>

\* WriteFrame refuses what exceeds kMaxFrameSize; the frame is lost.
WriteFrameRefused ==
  /\ writer = "write" /\ popped.big
  /\ WriterDone
  /\ UNCHANGED clientVars

WriteFrameFails ==
  /\ writer = "write" /\ ~popped.big
  /\ target # instance \/ ~handleOpen \/ client = "gone" \/ stop_event
  /\ WriterDone
  /\ UNCHANGED clientVars
-----------------------------------------------------------------------------
(* SendFrame, called by the STA *)

SendFrameCheck ==
  /\ sender = 0 /\ active_pipe # 0 /\ Room
  /\ sender' = active_pipe
  /\ UNCHANGED <<serverVars, active_pipe, outbound, enqueued, run, request, writerVars,
                 admitted, instance, handleOpen, clientVars>>

\* EnqueueOutbound's test of stop_, without outbound_mu_.
SendFrameAdmit ==
  /\ sender # 0 /\ ~admitted
  /\ IF stop THEN sender' = 0 /\ UNCHANGED admitted ELSE admitted' = TRUE /\ UNCHANGED sender
  /\ UNCHANGED <<serverVars, active_pipe, outbound, enqueued, run, request, writerVars,
                 instance, handleOpen, clientVars>>

SendFrameEnqueue ==
  /\ sender # 0 /\ admitted
  /\ \E big \in BOOLEAN : EnqueueOutbound("push", sender, big)
  /\ sender' = 0 /\ admitted' = FALSE
  /\ UNCHANGED <<serverVars, active_pipe, run, request, popped, target, instance, handleOpen,
                 clientVars>>
-----------------------------------------------------------------------------
(* External: the client *)

ClientConnect ==
  /\ run = "connect" /\ client = "away"
  /\ client' = "here"
  /\ UNCHANGED <<serverVars, active_pipe, outbound, enqueued, run, request, writerVars,
                 senderVars, instance, handleOpen, inbox, wire, got>>

ClientSend ==
  /\ client = "here" /\ inbox = "none"
  /\ inbox' \in Requests \ {"none"}
  /\ inbox' = "GET" => Room
  /\ UNCHANGED <<serverVars, active_pipe, outbound, enqueued, run, request, writerVars,
                 senderVars, instance, handleOpen, client, wire, got>>

ClientRead ==
  /\ client = "here" /\ wire # <<>>
  /\ got' = Append(got, Head(wire))
  /\ wire' = Tail(wire)
  /\ UNCHANGED <<serverVars, active_pipe, outbound, enqueued, run, request, writerVars,
                 senderVars, instance, handleOpen, client, inbox>>

ClientClose ==
  /\ client = "here"
  /\ client' = "gone"
  /\ wire' = <<>>
  /\ UNCHANGED <<serverVars, active_pipe, outbound, enqueued, run, request, writerVars,
                 senderVars, instance, handleOpen, inbox, got>>
-----------------------------------------------------------------------------
Init ==
  /\ stop = FALSE /\ stop_event = FALSE /\ stopper = "no"
  /\ active_pipe = 0 /\ outbound = <<>> /\ enqueued = 0
  /\ run = "create" /\ request = "none"
  /\ writer = "check" /\ popped = NoFrame /\ target = 0
  /\ sender = 0 /\ admitted = FALSE /\ instance = 0 /\ handleOpen = FALSE
  /\ client = "away" /\ inbox = "none" /\ wire = <<>> /\ got = <<>>

RunNext ==
  \/ CreatePipe \/ ConnectClient \/ ConnectAborted \/ OnConnect \/ OnConnectEnqueue
  \/ ServeLoop \/ ReadFrame \/ ReadFrameFails \/ HandleShutdown \/ HandleFrame \/ HandleEnqueue
  \/ ClearActive \/ FlushAndClose \/ LeaveLoop \/ Join

WriterNext ==
  \/ WriterCheck \/ WriterSleep \/ WriterRoute
  \/ WriteFrame \/ WriteFrameRefused \/ WriteFrameFails

SendNext == SendFrameAdmit \/ SendFrameEnqueue

StopNext == StopSignal \/ StopNotify

Next ==
  \/ RunNext \/ WriterNext \/ StopBegin \/ StopNext
  \/ SendFrameCheck \/ SendNext
  \/ ClientConnect \/ ClientSend \/ ClientRead \/ ClientClose

Spec == Init /\ [][Next]_vars

\* Fairness: the helper's threads run.  Nothing is assumed of the parent.
ThreadsFair ==
  WF_vars(RunNext) /\ WF_vars(WriterNext) /\ WF_vars(StopNext) /\ WF_vars(SendNext)

FairSpec == Spec /\ ThreadsFair

\* A parent that goes on reading its end of the pipe.
ReadingSpec == FairSpec /\ WF_vars(ClientRead)
-----------------------------------------------------------------------------
(* Properties *)

\* Type invariant.
TypeOK ==
  /\ stop \in BOOLEAN /\ stop_event \in BOOLEAN
  /\ stopper \in {"no", "stored", "signalled", "done"}
  /\ active_pipe \in 0..MaxPipes /\ instance \in 0..MaxPipes /\ handleOpen \in BOOLEAN
  /\ sender \in 0..MaxPipes /\ admitted \in BOOLEAN /\ target \in 0..MaxPipes
  /\ outbound \in Seq(FrameSet) /\ enqueued \in 0..(MaxFrames + MaxPipes)
  /\ run \in {"create", "connect", "onconnect", "ready", "serve", "read", "handle", "reply",
              "clear", "flush", "join", "done"}
  /\ request \in Requests /\ inbox \in Requests
  /\ writer \in {"check", "dozing", "asleep", "route", "write", "exit"} /\ popped \in FrameSet
  /\ client \in {"away", "here", "gone"}
  /\ wire \in Seq(FrameSet) /\ got \in Seq(FrameSet)

\* Every frame between EnqueueOutbound and the client, in the order of travel.
Pipeline ==
  got \o wire \o (IF writer \in {"route", "write"} THEN <<popped>> ELSE <<>>) \o outbound

\* "Frames are emitted to the wire in FIFO order so request replies stay paired
\* with their requests": whatever is lost at a disconnect, no client ever gets
\* a frame twice or after a frame that was enqueued later.
FifoOrder ==
  \A i, j \in 1..Len(Pipeline) : i < j => Pipeline[i].n < Pipeline[j].n

\* The published handle is the one Run holds, and it is open: "Without this,
\* the writer thread could try to write to a closed handle".
ActiveIsOpen == active_pipe # 0 => active_pipe = instance /\ handleOpen

\* A frame accepted for the connected client, and not larger than WriteFrame
\* takes, reaches a client that goes on reading its end of the pipe, unless the
\* connection or the server ends first: no wake-up of the writer is lost,
\* whatever frames it drops before.
FrameDelivered ==
  WF_vars(ClientRead) =>
    \A n \in FrameNo :
      (\E i \in 1..Len(outbound) :
          outbound[i].n = n /\ outbound[i].pipe = instance /\ ~outbound[i].big) ~>
        \/ \E i \in 1..Len(got) : got[i].n = n
        \/ client # "here" \/ stop \/ run \in {"clear", "flush", "create", "connect"}

\* FlushFileBuffers waits for a client that is there and does not read.
FlushBlocked == run = "flush" /\ wire # <<>> /\ client = "here"

\* After Stop the serve loop leaves every wait that is cancelled through
\* stop_event_, whatever the parent does: Run gets as far as the join of its
\* writer, or is blocked in FlushFileBuffers, which nothing cancels.
ServeLoopStops == stop ~> run \in {"join", "done"} \/ FlushBlocked

\* Run joins its writer: Stop nudges it "instead of blocking forever on the
\* condition variable".
WriterJoined == run = "join" ~> run = "done"
=============================================================================
