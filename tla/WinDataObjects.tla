-------------------------- MODULE WinDataObjects --------------------------
(***************************************************************************)
(* The COM data objects of the Windows helper and the threads that share   *)
(* them (windows/src/dispatch.cpp, sta_worker.cpp, main.cpp): the object   *)
(* published for the parent's files (outbound_data_object_), the one read  *)
(* from another application's clipboard (virtual_data_object_), and the    *)
(* references each thread takes and drops.                                 *)
(*                                                                         *)
(* The main thread handles one frame of the parent after another and then  *)
(* tears the process down; the STA runs OnClipboardChanged for each        *)
(* WM_CLIPBOARDUPDATE and the main thread's RunSync items; the watchdog    *)
(* waits for the parent.  A RunSync item is known by what the main thread  *)
(* waits for, main.pc: only that thread queues work, one item at a time.   *)
(*                                                                         *)
(* A text or an image on the clipboard is not told apart from nothing: it  *)
(* involves no object.                                                     *)
(***************************************************************************)
EXTENDS Integers, Sequences

CONSTANTS
  MaxObjects,        \* bound: data objects
  MaxCopies,         \* bound: copies of other applications
  MaxFrames          \* bound: frames of the parent

ASSUME BoundsAssumption == MaxObjects \in Nat /\ MaxCopies \in Nat /\ MaxFrames \in Nat

VARIABLES
  clip,        \* the clipboard: by whom, what, and which object or copy it is
  refs,        \* reference counts of the objects created so far
  origin,      \* "ours", "read", or "empty": read from a group without files
  outbound,    \* outbound_data_object_, 0 when null
  virtual,     \* virtual_data_object_
  cached,      \* the list of files that file_paths_ or virtual_lindex_ hold
  told,        \* history: the last list the connected parent was sent
  raced,       \* history: the two threads cached and sent in opposite orders
  connected,   \* SendFrame finds a client
  listening,   \* the format listener of the STA's window is registered
  notices,     \* WM_CLIPBOARDUPDATE messages queued
  sta, main,   \* the threads: where they are, the object and list in hand
  quit,        \* WM_QUIT has been posted
  stop,        \* PipeServer::Stop has been called
  parent,      \* the parent process runs
  watchdog,    \* "none", "waiting" or "done"
  cancelled,   \* the watchdog's cancel_event is set
  copies, frames

clipVars == <<clip, notices, copies>>
objVars == <<refs, origin>>
cacheVars == <<outbound, virtual, cached, raced>>
lifeVars == <<listening, quit, stop, parent, watchdog, cancelled>>
vars == <<clipVars, objVars, cacheVars, told, connected, sta, main, lifeVars, frames>>

Nothing == [by |-> "nobody", kind |-> "none", id |-> 0]

Pointer == 0..MaxObjects

Clip == [by : {"nobody", "window", "ole", "app"},
         kind : {"none", "paths", "virtual", "empty"}, id : Nat]

\* Main thread: the frames and the steps of the teardown.
Serving == {"serve", "publish", "releaseFailed", "releasePrev", "write", "get",
            "update", "reply", "chunk", "unpin"}
Teardown == {"joinWatchdog", "takeIn", "releaseIn", "takeOut", "clearOut", "clearWindow",
             "stop", "join", "destroy"}

MainStep == {"start", "exited"} \cup Serving \cup Teardown
StaStep == {"init", "pump", "check", "drop", "read", "update", "send", "wipe", "clearEnd", "exited"}

Thread(pcs) == [pc : pcs, obj : Pointer, list : Clip]

At(pc) == [pc |-> pc, obj |-> 0, list |-> Nothing]
With(pc, o) == [pc |-> pc, obj |-> o, list |-> Nothing]
-----------------------------------------------------------------------------
(* The clipboard and its objects *)

Release(r, o) == [r EXCEPT ![o] = @ - 1]
AddRef(r, o) == [r EXCEPT ![o] = @ + 1]

\* OLE drops its reference when its object leaves the clipboard.
OleDropped(r) == IF clip.by = "ole" THEN Release(r, clip.id) ELSE r

\* Something takes the clipboard; the format listener, if any, is told.
Take(c) == clip' = c /\ notices' = IF listening THEN notices + 1 ELSE notices

\* Another application copies, also while a thread of ours is under way.
AppCopy(kind) ==
  /\ copies < MaxCopies /\ main.pc # "exited"
  /\ copies' = copies + 1
  /\ Take([by |-> "app", kind |-> kind, id |-> copies + 1])
  /\ refs' = OleDropped(refs)
  /\ UNCHANGED <<origin, cacheVars, told, connected, sta, main, lifeVars, frames>>

\* ReadClipboard: no list when the clipboard cannot be opened or holds none;
\* CF_HDROP; or OleGetClipboard's object, which the snapshot owns.  A group
\* without files leaves its object to nobody: the callers look at it only
\* when virtual_files is not empty.
ReadClipboard(list, obj) ==
  \/ /\ list = Nothing /\ obj = 0
     /\ UNCHANGED objVars
  \/ /\ clip.kind = "paths" /\ list = clip /\ obj = 0
     /\ UNCHANGED objVars
  \/ /\ clip.kind \in {"virtual", "empty"} /\ Len(refs) < MaxObjects
     /\ list = clip
     /\ obj = IF clip.kind = "virtual" THEN Len(refs) + 1 ELSE 0
     /\ refs' = Append(refs, 1)
     /\ origin' = Append(origin, IF clip.kind = "virtual" THEN "read" ELSE "empty")

\* UpdateVirtualFiles or UpdateFilePaths, under file_paths_mu_: the object
\* cached before is released.
UpdateFiles(list, obj) ==
  /\ refs' = IF virtual # 0 THEN Release(refs, virtual) ELSE refs
  /\ virtual' = obj
  /\ cached' = list
  /\ UNCHANGED <<outbound, origin>>

\* SendFrame: a frame for nobody is dropped.
Tell(list) == told' = IF connected THEN list ELSE told
-----------------------------------------------------------------------------
(* OnClipboardChanged on the STA *)

\* The STA's message loop dispatches.
Dispatching == sta.pc = "pump"

ChangedBegin ==
  /\ Dispatching /\ notices > 0
  /\ notices' = notices - 1
  /\ sta' = IF outbound # 0 THEN With("check", outbound) ELSE At("read")
  /\ UNCHANGED <<clip, copies, objVars, cacheVars, told, connected, main, lifeVars, frames>>

\* OleIsCurrentClipboard: our own files are not read back.
ChangedCheck ==
  /\ sta.pc = "check"
  /\ sta' = IF clip.by = "ole" /\ clip.id = sta.obj THEN At("pump") ELSE With("drop", sta.obj)
  /\ UNCHANGED <<clipVars, objVars, cacheVars, told, connected, main, lifeVars, frames>>

\* Another content has the clipboard: our reference goes.
ChangedDrop ==
  /\ sta.pc = "drop"
  /\ outbound' = IF outbound = sta.obj THEN 0 ELSE outbound
  /\ refs' = Release(refs, sta.obj)
  /\ sta' = At("read")
  /\ UNCHANGED <<clipVars, origin, virtual, cached, raced, told, connected, main, lifeVars, frames>>

\* What our own window put there is not read back either.
ChangedRead ==
  /\ sta.pc = "read"
  /\ \/ /\ clip.by = "window"
        /\ sta' = At("pump")
        /\ UNCHANGED objVars
     \/ /\ clip.by # "window"
        /\ \E list \in {Nothing, clip}, obj \in {0, Len(refs) + 1} :
             /\ ReadClipboard(list, obj)
             /\ sta' = IF list = Nothing THEN At("pump")
                       ELSE [pc |-> "update", obj |-> obj, list |-> list]
  /\ UNCHANGED <<clipVars, cacheVars, told, connected, main, lifeVars, frames>>

\* Mutant: a list of files without an object does not replace the cached one.
ChangedUpdateVirtualOnly ==
  /\ sta.pc = "update"
  /\ IF sta.obj # 0 THEN UpdateFiles(sta.list, sta.obj)
     ELSE UNCHANGED <<refs, virtual, cached, outbound, origin>>
  /\ raced' = (main.pc = "reply")
  /\ sta' = [pc |-> "send", obj |-> 0, list |-> sta.list]
  /\ UNCHANGED <<clipVars, told, connected, main, lifeVars, frames>>

ChangedUpdate ==
  /\ sta.pc = "update"
  /\ UpdateFiles(sta.list, sta.obj)
  /\ raced' = (main.pc = "reply")
  /\ sta' = [pc |-> "send", obj |-> 0, list |-> sta.list]
  /\ UNCHANGED <<clipVars, told, connected, main, lifeVars, frames>>

ChangedSend ==
  /\ sta.pc = "send"
  /\ Tell(sta.list)
  /\ sta' = At("pump")
  /\ UNCHANGED <<clipVars, objVars, cacheVars, connected, main, lifeVars, frames>>
-----------------------------------------------------------------------------
(* Frames of the parent *)

Frame(m) ==
  /\ main.pc = "serve" /\ connected /\ ~stop /\ frames < MaxFrames
  /\ frames' = frames + 1
  /\ main' = m
  /\ UNCHANGED <<clipVars, sta, told, connected, lifeVars>>

\* Mutant: the object could not be created and this goes unnoticed.
AnnounceFilesUnchecked ==
  /\ Len(refs) < MaxObjects
  /\ Frame(With("publish", Len(refs) + 1))
  /\ UNCHANGED <<objVars, cacheVars>>

\* ANNOUNCE_DELAYED of files: a new object, for OleSetClipboard on the STA.
AnnounceFiles ==
  /\ Len(refs) < MaxObjects
  /\ Frame(With("publish", Len(refs) + 1))
  /\ refs' = Append(refs, 1) /\ origin' = Append(origin, "ours")
  /\ UNCHANGED cacheVars

\* The item: OleSetClipboard and the swap, or a failure.
RunPublish ==
  /\ Dispatching /\ main.pc = "publish"
  /\ \/ /\ Take([by |-> "ole", kind |-> "virtual", id |-> main.obj])
        /\ refs' = AddRef(OleDropped(refs), main.obj)
        /\ outbound' = main.obj
        /\ main' = IF outbound # 0 THEN With("releasePrev", outbound) ELSE At("serve")
     \/ /\ main' = With("releaseFailed", main.obj)
        /\ UNCHANGED <<clip, notices, refs, outbound>>
  /\ UNCHANGED <<copies, origin, virtual, cached, raced, told, connected, sta, lifeVars, frames>>

\* SET_CLIPBOARD, or ANNOUNCE_DELAYED of a text or an image.
SetClipboard == Frame(At("write")) /\ UNCHANGED <<objVars, cacheVars>>

RunWrite ==
  /\ Dispatching /\ main.pc = "write"
  /\ \/ /\ \E kind \in {"none", "paths"} : Take([by |-> "window", kind |-> kind, id |-> frames])
        /\ refs' = OleDropped(refs)
     \/ UNCHANGED <<clip, notices, refs>>
  /\ main' = At("serve")
  /\ UNCHANGED <<copies, origin, cacheVars, told, connected, sta, lifeVars, frames>>

GetClipboard == Frame(At("get")) /\ UNCHANGED <<objVars, cacheVars>>

RunGet ==
  /\ Dispatching /\ main.pc = "get"
  /\ \E list \in {Nothing, clip}, obj \in {0, Len(refs) + 1} :
       /\ ReadClipboard(list, obj)
       /\ main' = IF list = Nothing THEN At("serve")
                  ELSE [pc |-> "update", obj |-> obj, list |-> list]
  /\ UNCHANGED <<clipVars, cacheVars, told, connected, sta, lifeVars, frames>>

\* Back on the main thread the snapshot is cached, and then sent.
GetUpdate ==
  /\ main.pc = "update"
  /\ UpdateFiles(main.list, main.obj)
  /\ raced' = (sta.pc = "send")
  /\ main' = [pc |-> "reply", obj |-> 0, list |-> main.list]
  /\ UNCHANGED <<clipVars, told, connected, sta, lifeVars, frames>>

GetReply ==
  /\ main.pc = "reply"
  /\ Tell(main.list)
  /\ main' = At("serve")
  /\ UNCHANGED <<clipVars, objVars, cacheVars, connected, sta, lifeVars, frames>>

\* Mutant: the object is not pinned.
PinWithout ==
  UNCHANGED refs

\* FILE_CHUNK_REQUEST of a virtual file: the cached object is pinned under the
\* lock.  A file on disk, or an unknown one, is answered without a change.
Pin ==
  refs' = AddRef(refs, virtual)

FileChunkRequest ==
  /\ virtual # 0
  /\ Frame(With("chunk", virtual))
  /\ Pin
  /\ UNCHANGED <<origin, cacheVars>>

\* The item: ReadVirtualFileChunk.
RunChunk ==
  /\ Dispatching /\ main.pc = "chunk"
  /\ main' = With("unpin", main.obj)
  /\ UNCHANGED <<clipVars, objVars, cacheVars, told, connected, sta, lifeVars, frames>>

Unpin ==
  /\ main.pc = "unpin"
  /\ refs' = Release(refs, main.obj)
  /\ main' = At("serve")
  /\ UNCHANGED <<clipVars, origin, cacheVars, told, connected, sta, lifeVars, frames>>

\* A RunSync item that only releases the object in hand.
RunRelease ==
  /\ Dispatching /\ main.pc \in {"releaseFailed", "releasePrev", "releaseIn"}
  /\ refs' = Release(refs, main.obj)
  /\ main' = At(IF main.pc = "releaseIn" THEN "takeOut" ELSE "serve")
  /\ UNCHANGED <<clipVars, origin, cacheVars, told, connected, sta, lifeVars, frames>>

Connect ==
  /\ main.pc = "serve" /\ ~connected /\ ~stop /\ parent
  /\ connected' = TRUE
  /\ UNCHANGED <<clipVars, objVars, cacheVars, told, sta, main, lifeVars, frames>>

Disconnect ==
  /\ connected
  /\ connected' = FALSE /\ told' = Nothing
  /\ UNCHANGED <<clipVars, objVars, cacheVars, sta, main, lifeVars, frames>>
-----------------------------------------------------------------------------
(* Start, watchdog and teardown *)

\* sta.Start: OLE and the window, or exit code 1.  The listener may fail, and
\* so may the watchdog, or its wait: the helper then goes on without.
Start(ok) ==
  /\ main.pc = "start"
  /\ listening' \in IF ok THEN BOOLEAN ELSE {FALSE}
  /\ sta' = At(IF ok THEN "pump" ELSE "exited")
  /\ main' = At(IF ok THEN "serve" ELSE "exited")
  /\ watchdog' \in IF ok THEN {"none", "waiting"} ELSE {"none"}
  /\ UNCHANGED <<clipVars, objVars, cacheVars, told, connected, quit, stop, parent,
                 cancelled, frames>>

ParentDies ==
  /\ parent
  /\ parent' = FALSE /\ connected' = FALSE /\ told' = Nothing
  /\ UNCHANGED <<clipVars, objVars, cacheVars, sta, main, listening, quit, stop, watchdog,
                 cancelled, frames>>

\* RunParentWatchdog.
WatchdogWakes ==
  /\ watchdog = "waiting" /\ (~parent \/ cancelled)
  /\ stop' = (stop \/ ~parent)
  /\ watchdog' = "done"
  /\ UNCHANGED <<clipVars, objVars, cacheVars, told, connected, sta, main, listening, quit,
                 parent, cancelled, frames>>

\* SHUTDOWN, the console's handler, or a pipe that cannot be created.
Shutdown ==
  /\ main.pc \in Serving /\ ~stop
  /\ stop' = TRUE
  /\ UNCHANGED <<clipVars, objVars, cacheVars, told, connected, sta, main, listening, quit,
                 parent, watchdog, cancelled, frames>>

\* Mutant: the watchdog is joined without its cancel_event being set.
ServeEndsNoCancel ==
  /\ main.pc = "serve" /\ stop
  /\ connected' = FALSE /\ told' = Nothing
  /\ main' = At("joinWatchdog")
  /\ UNCHANGED <<clipVars, objVars, cacheVars, sta, lifeVars, frames>>

\* Run has returned: Stop, and the cancel_event is set.
ServeEnds ==
  /\ main.pc = "serve" /\ stop
  /\ connected' = FALSE /\ told' = Nothing
  /\ cancelled' = TRUE
  /\ main' = At("joinWatchdog")
  /\ UNCHANGED <<clipVars, objVars, cacheVars, sta, listening, quit, stop, parent, watchdog, frames>>

JoinWatchdog ==
  /\ main.pc = "joinWatchdog" /\ watchdog # "waiting"
  /\ main' = At("takeIn")
  /\ UNCHANGED <<clipVars, objVars, cacheVars, told, connected, sta, lifeVars, frames>>

\* ReleaseStaBoundResources: both pointers are taken under the lock and their
\* references dropped by RunSync items.
TakeInbound ==
  /\ main.pc = "takeIn"
  /\ main' = IF virtual # 0 THEN With("releaseIn", virtual) ELSE At("takeOut")
  /\ virtual' = 0
  /\ cached' = IF virtual # 0 THEN Nothing ELSE cached
  /\ UNCHANGED <<clipVars, objVars, outbound, raced, told, connected, sta, lifeVars, frames>>

TakeOutbound ==
  /\ main.pc = "takeOut"
  /\ main' = IF outbound # 0 THEN With("clearOut", outbound) ELSE At("clearWindow")
  /\ outbound' = 0
  /\ UNCHANGED <<clipVars, objVars, virtual, cached, raced, told, connected, sta, lifeVars, frames>>

\* The items that clear the clipboard test first whether it is still ours.
StillOurs ==
  IF main.pc = "clearOut" THEN clip.by = "ole" /\ clip.id = main.obj ELSE clip.by = "window"

RunClear ==
  /\ Dispatching /\ main.pc \in {"clearOut", "clearWindow"}
  /\ sta' = At(IF StillOurs THEN "wipe" ELSE "clearEnd")
  /\ UNCHANGED <<clipVars, objVars, cacheVars, told, connected, main, lifeVars, frames>>

\* OleSetClipboard(nullptr), which may fail.
RunWipe ==
  /\ sta.pc = "wipe"
  /\ \/ Take(Nothing) /\ refs' = OleDropped(refs)
     \/ UNCHANGED <<clip, notices, refs>>
  /\ sta' = At("clearEnd")
  /\ UNCHANGED <<copies, origin, cacheVars, told, connected, main, lifeVars, frames>>

RunClearEnd ==
  /\ sta.pc = "clearEnd"
  /\ refs' = IF main.pc = "clearOut" THEN Release(refs, main.obj) ELSE refs
  /\ main' = At(IF main.pc = "clearOut" THEN "clearWindow" ELSE "stop")
  /\ sta' = At("pump")
  /\ UNCHANGED <<clipVars, origin, cacheVars, told, connected, lifeVars, frames>>

\* StaWorker::Stop.
StaStop ==
  /\ main.pc = "stop"
  /\ quit' = TRUE
  /\ main' = At("join")
  /\ UNCHANGED <<clipVars, objVars, cacheVars, told, connected, sta, listening, stop, parent,
                 watchdog, cancelled, frames>>

\* ThreadMain after its message loop.
StaExit ==
  /\ Dispatching /\ quit
  /\ sta' = At("exited")
  /\ listening' = FALSE
  /\ UNCHANGED <<clipVars, objVars, cacheVars, told, connected, main, quit, stop, parent,
                 watchdog, cancelled, frames>>

StaJoined ==
  /\ main.pc = "join" /\ sta.pc = "exited"
  /\ main' = At("destroy")
  /\ UNCHANGED <<clipVars, objVars, cacheVars, told, connected, sta, lifeVars, frames>>

\* ~Dispatcher drops what is left.
DestroyDispatcher ==
  /\ main.pc = "destroy"
  /\ refs' = LET r == IF virtual # 0 THEN Release(refs, virtual) ELSE refs IN
             IF outbound # 0 THEN Release(r, outbound) ELSE r
  /\ virtual' = 0 /\ outbound' = 0
  /\ main' = At("exited")
  /\ UNCHANGED <<clipVars, origin, cached, raced, told, connected, sta, lifeVars, frames>>
-----------------------------------------------------------------------------
Init ==
  /\ clip = Nothing /\ notices = 0 /\ copies = 0 /\ frames = 0
  /\ refs = <<>> /\ origin = <<>>
  /\ outbound = 0 /\ virtual = 0 /\ cached = Nothing /\ told = Nothing /\ raced = FALSE
  /\ connected = FALSE /\ listening = FALSE
  /\ sta = At("init") /\ main = At("start")
  /\ quit = FALSE /\ stop = FALSE /\ parent = TRUE /\ watchdog = "none" /\ cancelled = FALSE

\* The STA: OnClipboardChanged, and the RunSync items.
ChangedNext ==
  ChangedBegin \/ ChangedCheck \/ ChangedDrop \/ ChangedRead \/ ChangedUpdate \/ ChangedSend

RunItem ==
  \/ RunPublish \/ RunWrite \/ RunGet \/ RunChunk \/ RunRelease
  \/ RunClear \/ RunWipe \/ RunClearEnd

\* The main thread, once it has a frame or the server has stopped.
MainNext ==
  \/ GetUpdate \/ GetReply \/ Unpin \/ ServeEnds \/ JoinWatchdog
  \/ TakeInbound \/ TakeOutbound \/ StaStop \/ StaJoined \/ DestroyDispatcher

ParentNext ==
  \/ AnnounceFiles \/ SetClipboard \/ GetClipboard \/ FileChunkRequest
  \/ Connect \/ Disconnect \/ ParentDies \/ Shutdown

Next ==
  \/ \E ok \in BOOLEAN : Start(ok)
  \/ ParentNext \/ MainNext \/ ChangedNext \/ RunItem \/ StaExit \/ WatchdogWakes
  \/ \E kind \in {"none", "paths", "virtual", "empty"} : AppCopy(kind)

Spec == Init /\ [][Next]_vars

\* Fairness: the three threads run, and the STA dispatches each kind of message
\* in its queue.  PipeServer::Run returns after Stop (WinPipeServer).
FairSpec ==
  /\ Spec
  /\ WF_vars(MainNext) /\ WF_vars(ChangedNext) /\ WF_vars(RunItem) /\ WF_vars(StaExit)
  /\ WF_vars(WatchdogWakes)
-----------------------------------------------------------------------------
(* Properties *)

ClipTypes ==
  /\ clip \in Clip /\ cached \in Clip /\ told \in Clip
  /\ notices \in Nat /\ copies \in 0..MaxCopies /\ frames \in 0..MaxFrames

ObjectTypes ==
  /\ refs \in Seq(Int) /\ Len(refs) <= MaxObjects
  /\ origin \in Seq({"ours", "read", "empty"}) /\ Len(origin) = Len(refs)
  /\ outbound \in 0..Len(refs) /\ virtual \in 0..Len(refs)
  /\ clip.by = "ole" => clip.id \in 1..Len(refs)

FlagTypes ==
  /\ raced \in BOOLEAN /\ connected \in BOOLEAN /\ listening \in BOOLEAN
  /\ quit \in BOOLEAN /\ stop \in BOOLEAN /\ parent \in BOOLEAN /\ cancelled \in BOOLEAN
  /\ watchdog \in {"none", "waiting", "done"}

ThreadTypes ==
  /\ sta \in Thread(StaStep) /\ main \in Thread(MainStep)
  /\ sta.obj <= Len(refs) /\ main.obj <= Len(refs)

\* Type invariant: counts are kept for the objects created so far, and every
\* pointer, in a cache or in a thread's hand, is null or one of them.
TypeOK == ClipTypes /\ ObjectTypes /\ FlagTypes /\ ThreadTypes

One(held) == IF held THEN 1 ELSE 0

\* The references held to an object: by OLE, the two caches, the snapshot the
\* STA is about to cache, and the main thread.
Held(o) ==
  One(clip.by = "ole" /\ clip.id = o) + One(outbound = o) + One(virtual = o)
    + One(sta.pc = "update" /\ sta.obj = o) + One(main.obj = o)

\* Whatever the two threads and the other applications do, every pointer has a
\* reference behind it and every reference a pointer: nothing is used after it
\* was freed ("cannot Release it out from under the RunSync lambda") and
\* nothing leaks.  Of an object we published this is claimed until the
\* teardown begins, of one we read always.
RefsBalanced ==
  \A o \in 1..Len(refs) :
    \/ origin[o] = "read"
    \/ origin[o] = "ours" /\ main.pc \in Serving
    => refs[o] = Held(o)

\* The files cached are those the parent was told of last: "the absolute path
\* matching FileMetadata.file_id in the CLIPBOARD_CHANGED frame the parent just
\* received", unless a GET_CLIPBOARD and a notification overtook each other
\* between caching and sending.
FilesMatch ==
  told # Nothing /\ ~raced /\ sta.pc # "send" /\ main.pc # "reply" => cached = told

\* The helper exits once it is told to, or once the parent it watches is gone,
\* whatever the STA is doing ("exit when parent dies").
HelperExits ==
  stop \/ (watchdog = "waiting" /\ ~parent) ~> main.pc = "exited"
=============================================================================
