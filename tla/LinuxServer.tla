----------------------------- MODULE LinuxServer -----------------------------
(***************************************************************************)
(* The Linux helper around its clipboard backend: the SocketServer and its *)
(* worker thread (linux/src/socket_server.cpp), the main thread from the   *)
(* wiring in main() to its exit, the self-pipe of the signals, and the     *)
(* ParentWatchdog.  The parent, at the other end of the socket, is         *)
(* external.  A module that extends this one brings the backend: it        *)
(* handles the requests the worker has read (worker = "handle") and runs   *)
(* what the main thread does in its event loop (MainIdle), sending frames  *)
(* with Send.                                                              *)
(*                                                                         *)
(* A frame is written or read as a whole: a frame the parent did not       *)
(* finish is to the helper the end of the connection.                      *)
(***************************************************************************)
EXTENDS Naturals, Sequences

CONSTANTS
  MaxFrames,  \* bound: frames the parent sends
  InCap,      \* the frames that fit in the socket towards the helper
  OutCap      \* and towards the parent: a write blocks when they are there

ASSUME BoundAssumption ==
  MaxFrames \in Nat /\ InCap \in Nat \ {0} /\ OutCap \in Nat \ {0}

VARIABLES
  stop, listening, client,  \* stop_, listen_fd_ >= 0, client_fd_ >= 0
  clientMutex,              \* client_mutex_: "free", "worker" or "main"
  worker,                   \* where WorkerLoop is
  request, reply,           \* the frame being handled and its answer
  main,                     \* where main() is
  task,                     \* what the event loop is busy with
  sending,                  \* the frame the main thread is sending
  posted,                   \* the events posted to the main thread
  watch,                    \* the watchdog; "none" without --parent-pid
  signalled,                \* a byte is in the self-pipe
  backlog, conn,            \* the parent's connection: not accepted yet; its state
  toHelper, toParent,       \* the frames in the socket: towards the parent, how many
  alive, sent               \* the parent

sessionVars == <<stop, listening, client, worker, request, reply, backlog, conn, toHelper>>
mainVars == <<main, task, sending>>
parentVars == <<alive, sent>>
serverVars == <<sessionVars, mainVars, parentVars, clientMutex, posted, watch, signalled,
                toParent>>

\* QuitAppSafely.  A second quit in the queue changes nothing.
QuitPosted == \E i \in DOMAIN posted : posted[i].op = "quit"

PostQuit ==
  posted' = IF QuitPosted THEN posted ELSE Append(posted, [op |-> "quit"])

NoFrame == [type |-> "none"]

MainIdle == main \in {"exec", "leaving"} /\ task = "idle"
-----------------------------------------------------------------------------
(* SocketServer: a write holds client_mutex_, also while it is blocked. *)

Broken == conn # "up"

\* WriteFrame by the holder of the mutex: the frame is sent, or it is refused
\* for its size, or the connection is gone.
WriteFrame(fits) ==
  \/ fits /\ ~Broken /\ toParent < OutCap /\ toParent' = toParent + 1
  \/ (~fits \/ Broken) /\ UNCHANGED toParent

Written(fits) == fits /\ ~Broken

\* The head of WorkerLoop: listen_fd_ is read once.
WorkerStart ==
  /\ worker = "start"
  /\ worker' = IF listening /\ ~stop THEN "accept" ELSE "disconnect"
  /\ UNCHANGED <<stop, listening, client, request, reply, backlog, conn, toHelper, mainVars,
                 parentVars, clientMutex, posted, watch, signalled, toParent>>

Accept ==
  /\ worker = "accept" /\ backlog
  /\ worker' = "register" /\ backlog' = FALSE
  /\ UNCHANGED <<stop, listening, client, request, reply, conn, toHelper, mainVars,
                 parentVars, clientMutex, posted, watch, signalled, toParent>>

\* Mutant: a failure before any client ends the worker without a word.
AcceptFailsSilently ==
  /\ worker = "accept"
  /\ worker' = "stopped"
  /\ UNCHANGED <<stop, listening, client, request, reply, backlog, conn, toHelper, mainVars,
                 parentVars, clientMutex, posted, watch, signalled, toParent>>

\* accept4 fails: for Stop, or by itself.
AcceptFails ==
  /\ worker = "accept"
  /\ worker' = IF stop THEN "stopped" ELSE "disconnect"
  /\ UNCHANGED <<stop, listening, client, request, reply, backlog, conn, toHelper, mainVars,
                 parentVars, clientMutex, posted, watch, signalled, toParent>>

\* client_fd_ is stored: from here on Stop and SendFrame see the connection.
Register ==
  /\ worker = "register" /\ clientMutex = "free"
  /\ client' = TRUE /\ worker' = "reply"
  /\ reply' = [type |-> "READY"]
  /\ UNCHANGED <<stop, listening, request, backlog, conn, toHelper, mainVars, parentVars,
                 clientMutex, posted, watch, signalled, toParent>>

\* The greeting or the reply.
ReplyLock ==
  /\ worker = "reply" /\ clientMutex = "free"
  /\ clientMutex' = "worker" /\ worker' = "write"
  /\ UNCHANGED <<stop, listening, client, request, reply, backlog, conn, toHelper, mainVars,
                 parentVars, posted, watch, signalled, toParent>>

\* Only for a reply is a failure the end of the session.
ReplyWrite(fits) ==
  /\ worker = "write"
  /\ WriteFrame(fits)
  /\ worker' = IF Written(fits) \/ reply.type = "READY" THEN "check" ELSE "clear"
  /\ clientMutex' = "free" /\ reply' = NoFrame
  /\ UNCHANGED <<stop, listening, client, request, backlog, conn, toHelper, mainVars,
                 parentVars, posted, watch, signalled>>

CheckStop ==
  /\ worker = "check"
  /\ worker' = IF stop THEN "clear" ELSE "read"
  /\ UNCHANGED <<stop, listening, client, request, reply, backlog, conn, toHelper, mainVars,
                 parentVars, clientMutex, posted, watch, signalled, toParent>>

\* ReadFrame: a frame beyond the cap, or for which there is no memory, ends
\* the session.
ReadFrame ==
  /\ worker = "read" /\ toHelper # <<>>
  /\ toHelper' = Tail(toHelper)
  /\ IF Head(toHelper).type = "OVERSIZED" THEN worker' = "clear" /\ UNCHANGED request
     ELSE worker' = "handle" /\ request' = Head(toHelper)
  /\ UNCHANGED <<stop, listening, client, reply, backlog, conn, mainVars, parentVars,
                 clientMutex, posted, watch, signalled, toParent>>

ReadEnds ==
  /\ worker = "read" /\ toHelper = <<>> /\ Broken
  /\ worker' = "clear"
  /\ UNCHANGED <<stop, listening, client, request, reply, backlog, conn, toHelper, mainVars,
                 parentVars, clientMutex, posted, watch, signalled, toParent>>

\* Mutant: client_fd_ keeps the closed descriptor.
ClearClientNot ==
  /\ worker = "clear" /\ clientMutex = "free"
  /\ conn' = "closed"
  /\ worker' = "disconnect"
  /\ UNCHANGED <<stop, listening, client, request, reply, backlog, toHelper, mainVars,
                 parentVars, clientMutex, posted, watch, signalled, toParent>>

ClearClient ==
  /\ worker = "clear" /\ clientMutex = "free"
  /\ client' = FALSE /\ conn' = "closed"
  /\ worker' = "disconnect"
  /\ UNCHANGED <<stop, listening, request, reply, backlog, toHelper, mainVars, parentVars,
                 clientMutex, posted, watch, signalled, toParent>>

\* on_disconnect.
Disconnect ==
  /\ worker = "disconnect"
  /\ PostQuit
  /\ worker' = "stopped"
  /\ UNCHANGED <<stop, listening, client, request, reply, backlog, conn, toHelper, mainVars,
                 parentVars, clientMutex, watch, signalled, toParent>>
-----------------------------------------------------------------------------
(* main(): SocketServer::Start, the watchdog, the event loop and the end. *)

ServerStart ==
  /\ main = "start"
  /\ \/ listening' = TRUE /\ worker' = "start" /\ main' = "watchdog"
     \/ main' = "exited" /\ UNCHANGED <<listening, worker>>
  /\ UNCHANGED <<stop, client, request, reply, backlog, conn, toHelper, task, sending,
                 parentVars, clientMutex, posted, watch, signalled, toParent>>

\* ParentWatchdog::Start: a parent that is gone already fires at once.
WatchdogStart ==
  /\ main = "watchdog"
  /\ main' = "exec"
  /\ IF watch = "none" THEN UNCHANGED <<watch, posted>>
     ELSE IF alive THEN watch' = "polling" /\ UNCHANGED posted
     ELSE watch' = "fired" /\ PostQuit
  /\ UNCHANGED <<sessionVars, task, sending, parentVars, clientMutex, signalled, toParent>>

PollLoop ==
  /\ watch = "polling" /\ ~alive
  /\ watch' = "fired" /\ PostQuit
  /\ UNCHANGED <<sessionVars, mainVars, parentVars, clientMutex, signalled, toParent>>

\* The QSocketNotifier of the self-pipe.
SignalNotified ==
  /\ MainIdle /\ signalled
  /\ signalled' = FALSE /\ PostQuit
  /\ UNCHANGED <<sessionVars, mainVars, parentVars, clientMutex, watch, toParent>>

\* quit(): what is in the queue behind it may run before exec() returns.
Quit ==
  /\ MainIdle /\ posted # <<>> /\ Head(posted).op = "quit"
  /\ posted' = Tail(posted)
  /\ main' = "leaving"
  /\ UNCHANGED <<sessionVars, task, sending, parentVars, clientMutex, watch, signalled,
                 toParent>>

ExecReturns ==
  /\ main = "leaving" /\ task = "idle"
  /\ main' = "stopping"
  /\ UNCHANGED <<sessionVars, task, sending, parentVars, clientMutex, posted, watch,
                 signalled, toParent>>

\* ParentWatchdog::Stop, with its join, and stop_.
StopWatchdog ==
  /\ main = "stopping"
  /\ watch' = IF watch = "polling" THEN "stopped" ELSE watch
  /\ stop' = TRUE
  /\ main' = "closing"
  /\ UNCHANGED <<listening, client, worker, request, reply, backlog, conn, toHelper, task,
                 sending, parentVars, clientMutex, posted, signalled, toParent>>

\* The listening socket is closed; a connection in its backlog is reset.
StopListening ==
  /\ main = "closing"
  /\ listening' = FALSE
  /\ backlog' = FALSE /\ conn' = IF backlog THEN "closed" ELSE conn
  /\ main' = "shutdown"
  /\ UNCHANGED <<stop, client, worker, request, reply, toHelper, task, sending, parentVars,
                 clientMutex, posted, watch, signalled, toParent>>

\* The client's socket is shut down under the mutex, if it is known.
StopClient ==
  /\ main = "shutdown" /\ clientMutex = "free"
  /\ conn' = IF client /\ conn = "up" THEN "shut" ELSE conn
  /\ main' = "join"
  /\ UNCHANGED <<stop, listening, client, worker, request, reply, backlog, toHelper, task,
                 sending, parentVars, clientMutex, posted, watch, signalled, toParent>>

\* The worker is joined and the path unlinked; Detach and the destructors.
Exit ==
  /\ main = "join" /\ worker = "stopped"
  /\ main' = "exited"
  /\ UNCHANGED <<sessionVars, task, sending, parentVars, clientMutex, posted, watch,
                 signalled, toParent>>

\* SendFrame of the main thread, up to its unlock; its result is not looked at.
SendLock ==
  /\ task = "send" /\ clientMutex = "free"
  /\ IF client THEN clientMutex' = "main" /\ task' = "write"
     ELSE task' = "sent" /\ UNCHANGED clientMutex
  /\ UNCHANGED <<sessionVars, main, sending, parentVars, posted, watch, signalled, toParent>>

SendWrite(fits) ==
  /\ task = "write"
  /\ WriteFrame(fits)
  /\ task' = "sent"
  /\ clientMutex' = "free"
  /\ UNCHANGED <<sessionVars, main, sending, parentVars, posted, watch, signalled>>
-----------------------------------------------------------------------------
(* External: the parent, and whoever sends a signal. *)

ParentConnects ==
  /\ alive /\ listening /\ conn = "none"
  /\ conn' = "up" /\ backlog' = TRUE
  /\ UNCHANGED <<stop, listening, client, worker, request, reply, toHelper, mainVars,
                 parentVars, clientMutex, posted, watch, signalled, toParent>>

ParentSends(f) ==
  /\ alive /\ conn = "up" /\ Len(toHelper) < InCap /\ sent < MaxFrames
  /\ toHelper' = Append(toHelper, f)
  /\ sent' = sent + 1
  /\ UNCHANGED <<stop, listening, client, worker, request, reply, backlog, conn, alive,
                 mainVars, clientMutex, posted, watch, signalled, toParent>>

ParentReads ==
  /\ alive /\ conn = "up" /\ toParent > 0
  /\ toParent' = toParent - 1
  /\ UNCHANGED <<sessionVars, mainVars, parentVars, clientMutex, posted, watch, signalled>>

\* The parent closes the socket, or dies: then the kernel sends PDEATHSIG,
\* if prctl has asked for it.  A parent that has left does nothing more.
ParentLeaves(dies) ==
  /\ alive /\ conn \in (IF dies THEN {"none", "up"} ELSE {"up"})
  /\ alive' = ~dies
  /\ conn' = IF conn = "up" THEN "closed" ELSE conn
  /\ toParent' = 0
  /\ signalled' \in {signalled, signalled \/ (dies /\ watch = "polling")}
  /\ UNCHANGED <<stop, listening, client, worker, request, reply, backlog, toHelper, sent,
                 mainVars, clientMutex, posted, watch>>

\* A signal is worth a step until there is a quit in the queue.
Signal ==
  /\ ~signalled /\ ~QuitPosted /\ main \in {"start", "watchdog", "exec"}
  /\ signalled' = TRUE
  /\ UNCHANGED <<sessionVars, mainVars, parentVars, clientMutex, posted, watch, toParent>>
-----------------------------------------------------------------------------
ServerInit ==
  /\ stop = FALSE /\ listening = FALSE /\ client = FALSE /\ clientMutex = "free"
  /\ worker = "none" /\ request = NoFrame /\ reply = NoFrame
  /\ main = "start" /\ task = "idle" /\ sending = NoFrame /\ posted = <<>>
  /\ watch \in {"none", "off"} /\ signalled = FALSE
  /\ backlog = FALSE /\ conn = "none" /\ toHelper = <<>> /\ toParent = 0
  /\ alive = TRUE /\ sent = 0

\* The steps the worker takes by itself, the backend's handlers apart.
WorkerNext ==
  \/ WorkerStart \/ Accept \/ Register \/ ReplyLock
  \/ CheckStop \/ ReadFrame \/ ReadEnds \/ ClearClient \/ Disconnect

LifecycleNext ==
  \/ ServerStart \/ WatchdogStart \/ SignalNotified \/ Quit \/ ExecReturns \/ StopWatchdog
  \/ StopListening \/ StopClient \/ Exit \/ SendLock

ParentNext ==
  ParentConnects \/ ParentReads \/ Signal \/ \E dies \in BOOLEAN : ParentLeaves(dies)

\* The type of the server's state, for frames and requests of the given sets.
ServerTypeOK(Request, Reply) ==
  /\ stop \in BOOLEAN /\ listening \in BOOLEAN /\ client \in BOOLEAN
  /\ signalled \in BOOLEAN /\ backlog \in BOOLEAN /\ alive \in BOOLEAN
  /\ clientMutex \in {"free", "worker", "main"}
  /\ worker \in {"none", "start", "accept", "register", "reply", "write", "check",
                 "read", "handle", "clear", "disconnect", "stopped"}
  /\ request \in Request \cup {NoFrame} /\ reply \in Reply \cup {NoFrame}
  /\ main \in {"start", "watchdog", "exec", "leaving", "stopping", "closing", "shutdown",
               "join", "exited"}
  /\ watch \in {"none", "off", "polling", "fired", "stopped"}
  /\ conn \in {"none", "up", "shut", "closed"}
  /\ toHelper \in Seq(Request) /\ toParent \in 0..OutCap /\ sent \in 0..MaxFrames
  /\ (clientMutex = "worker") <=> (worker = "write")
  /\ (clientMutex = "main") <=> (task = "write")
  /\ client <=> worker \in {"reply", "write", "check", "read", "handle", "clear"}
=============================================================================
