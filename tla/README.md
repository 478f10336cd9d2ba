# A verification project for clipboard-helper

clipboard-helper is a small process that owns the operating system's clipboard
on behalf of a parent (the *leviathan* Go service or the *shen* Electron
application). There is one helper per platform: `windows/` (C++/Win32),
`linux/` (C++/Qt, Wayland or X11) and `macos/` (Swift/AppKit). Parent and helper
exchange length-prefixed protobuf frames over a named pipe or a Unix socket. The
point of the program is **delayed** clipboard content: the parent announces a
`content_hash` (`ANNOUNCE_DELAYED`), the helper advertises formats to the OS
without having the bytes, and only when some application pastes does it send
`DATA_REQUEST` and wait for `PROVIDE_DATA` (text, images) or for
`FILE_CHUNK_DATA` (files). Line numbers below refer to this commit.

## 1. Inventory

| Component | State | Operations | Talks to | Module |
|---|---|---|---|---|
| Windows delayed rendering: `dispatch.cpp`, `clipboard_ops.cpp`, `sta_worker.cpp` | pending announcement, pending and cached response, `render_event_`, the STA's nested activations, the OS clipboard's slots | `ANNOUNCE_DELAYED`, `PROVIDE_DATA`, `SET_CLIPBOARD`, `GET_CLIPBOARD` on the pipe thread; `WM_RENDERFORMAT`, `WM_RENDERALLFORMATS` and work items on the STA | pipe server (frames), STA worker (`RunSync`), OS clipboard | `WinDelayedRender` |
| Windows pipe server: `pipe_server.cpp` | `stop_`, stop event, `active_pipe_`, `outbound_`, pipe instances | accept, `OnConnect`, read, handle, disconnect, writer thread, `SendFrame`, `Stop` | dispatcher, parent | `WinPipeServer` |
| Windows virtual files: `virtual_file_provider.cpp`, `DispatcherChunkProvider` in `dispatch.cpp` | stream cursor and `reading_`, `pending_` slots with their events | `Read`, `Seek`, `Clone`, `FetchChunk`, `DeliverChunk`, `CancelAll` | Explorer (COM), pipe server | `WinFileStream` |
| Windows outbound files and change notifications: `OnClipboardChanged`, `HandleFileChunkRequest` | cached paths, the published and the inbound `IDataObject` with their references | read a foreign file list, serve its chunks, publish, replace and release objects | OS clipboard, parent | `WinDataObjects` |
| Windows STA worker and teardown: `sta_worker.cpp`, `work_queue.cpp`, `main.cpp` | work queue, window, running flag | `Start`, `RunSync`, `Stop`, parent watchdog, console handler | all of the above | `WinDataObjects` |
| Linux Wayland backends: `clipboard_manager_wayland.cpp`, `clipboard_manager_ext.cpp`, `wayland_display.cpp` | `WlrState` under a mutex, `current_source_`, `offer_mimes_`, detached workers | announcements, `ProvideData`, source and device events, send and drain workers, destructor | dispatcher, compositor | `LinuxDataControl` |
| Linux X11 backend and `EchoSuppressor` | last written text, the recorded `QMimeData`, `DelayedState` | the same interface through `QClipboard` | dispatcher, X server | `LinuxX11Helper` |
| Linux socket server and dispatcher | listening and client descriptor, `client_mutex_`, callbacks | accept one client, read, `SendFrame`, `Stop`, every handler | backends, parent | `LinuxServer`, `LinuxX11Helper` |
| Linux start-up: backend detection, watchdog, `main.cpp` | chosen backend, signal pipe | probe, run, tear down in order | all of the above | `LinuxServer`, from the server on |
| macOS pasteboard manager | pending announcement, rendered bytes, semaphore, change counts | declare types, provide data, poll, cancel | pasteboard, parent | `MacPasteboard` |
| macOS file transfer | downloads by transfer and file, offsets and requests in flight | request chunks, write them, finish, cancel | Finder, parent | `MacFileTransfer` |
| macOS socket server and application | client socket | frames, life cycle | parent | handlers only, in the two above |
| Codecs, image conversion, logging, user interface, generated code | none that lasts | encode, decode | — | — |

Which behaviours are hard, and the properties that make each part correct:

* **Delayed rendering on Windows** is re-entrant: `OnRenderFormat` waits for an
  event while pumping messages, so work items and further renders run inside it,
  and the pipe thread replaces the announcement under it. Right means: a paste
  never gets something older than what was advertised, a response once given is
  not lost, a wake-up is never lost and never spurious, nobody waits for good.
* **The pipe server** has three threads and two ways to be told to stop. Right
  means: frames keep their order and are not repeated, no frame goes to a closed
  handle, a frame accepted for a client that reads arrives, `Stop` ends
  every wait of every thread (section 5 has where it does not).
* **Virtual files** nest in the same way, with up to one event per call, and the
  shell takes a short read for the end of the file. Right means: the bytes of a
  call are those of its file and offset, a file that looks complete is complete,
  an answered or cancelled call is woken, teardown waits for no timeout.
* **Data objects** are COM objects counted by hand and shared by the pipe thread,
  the STA and the teardown. Right means: a reference for every pointer and a
  pointer for every reference, file ids that mean what the parent was told, and an
  exit that waits for nobody.
* **Wayland** events travel in a queue that is behind the socket thread's state.
  Right means: bytes no older than the source pasted from, no echo of our own
  selection, no user's copy taken for an echo, one source exactly while we own the
  clipboard, every paste answered.
* **The Linux process** has a worker, a main thread with an event loop that may be
  stuck in a paste, and a watchdog; any of them may find out first that it is over.
  Right means: it exits, whatever was going on; echo suppression neither renders
  our own text nor swallows the user's.
* **macOS** blocks or spins the main thread in a paste, polls for changes it must
  tell from its own, and downloads files in a pipeline of requests whose answers,
  errors and cancellations overlap. Right means: no bytes of another announcement,
  no request withheld, no copy missed, a file reported complete is complete, and
  Finder is told the end of every paste once.

`PROJECT.json` lists the hazards with their lines.

## 2. Plan

Done: `WinDelayedRender`, `WinPipeServer`, `WinFileStream`, `WinDataObjects`,
`LinuxDataControl` and `MacPasteboard` (both implementing `LazyClipboard`),
`LinuxServer` with `LinuxX11Helper`, `MacFileTransfer`, each with proofs.

What would come next, in this order:

1. `WinDelayedRender` as an implementation of `LazyClipboard`. A render there may be
   answered for an announcement stored after it began, so the abstract paste begins
   with the render's snapshot; the map needs that snapshot as history.
2. `CopyTo` and the `IDataObject` with its enumerator (`virtual_file_provider.cpp`).
3. The sockets of the macOS helper and its life cycle.
4. Pure algorithms (varint reader, `uri_list`) against reference definitions.

## 3. The modules and the code

`PROJECT.json` maps every definition to its lines. What is worth saying beyond it:

**`WinDelayedRender`.** `pipe` and `queued` are the pipe thread in `RunSync` and
the STA's work queue; `frame[1..depth]` is the STA's call stack, of which only the
top moves. A frame is a render (`OnRenderFormat`), a `ReadClipboard` or
`WM_RENDERALLFORMATS`. The inner message loop is the program counter `"pump"`: any
message may be dispatched there and the loop looks again when it is over. What
`render_mu_` covers is one step, everything else may be interleaved. The OS
clipboard, its open/closed state, its slots and the applications are external.
Bytes are the hash they belong to. `fresh`, `answered` and `announced` are history.
Left out: `WM_QUIT` in the middle of a render, and the message a change of the
clipboard posts, whose handler (`WinDataObjects`) does not touch the render state.

**`WinPipeServer`.** `run` and `writer` are program counters of `Run` with
`ServeOneClient` and of `WriterThreadMain`; `Stop` is three steps, and
`EnqueueOutbound` two: `stop_` is tested without the mutex, so a push may follow the
writer's exit. `ConnectNamedPipe` may fail without a stop. A frame may be larger than
`kMaxFrameSize` (`big`), which `WriteFrame` refuses. The condition
variable is modelled with the window between testing the condition and blocking
(`"dozing"`, in which the mutex is held) and a notification that only reaches a
blocked thread. Frames are written whole or not at all; a write stays pending when
the buffer (`WireCap`) is full.

**`WinFileStream`.** `stack` is the calls of `FetchChunk` in flight; `pending_` is
that stack seen by key. Event handles are closed and reused. `DeliverChunk` and
`CancelAll` set events after the unlock, so `signals` holds the `SetEvent` calls
still to come. An answer of length 0 stands for an error as well as for an empty
chunk: `Read` fails on both. A re-entrant `Read` of a stream that is reading
returns `STG_E_INUSE` and changes nothing, so it is no step.

**`WinDataObjects`.** `refs[o]` is the reference count of the o-th object created,
`origin[o]` whether we published it (`"ours"`), read it (`"read"`) or read it from a
group descriptor without files (`"empty"`). The main thread, which is also the pipe
thread, handles one frame after another and then runs the teardown of `wmain`; a
`RunSync` item needs no queue of its own, since that thread queues one and waits:
`main.pc` says which. `OnClipboardChanged` takes five steps, one for each time it
leaves `file_paths_mu_`. `told` is the last list the connected parent was sent, and
`raced` is set when a `GET_CLIPBOARD` and a notification cache in one order and send
in the other. A text or an image is not told apart from nothing; `watchdog = "none"`
also stands for a watchdog whose wait failed, `Shutdown` also for a pipe that could
not be created. COM's modal loops inside a read of another process's object are not
modelled: a notification is handled to its end before the next message.

**`LinuxDataControl`.** The socket thread (`Announce`, `ProvideData`), the main
thread (`RecreateSource` and one action per compositor event; `OnSourceSend` has
two steps since it unlocks before it sends `DATA_REQUEST`), the send worker of each
paste and the drain worker of each copy. Requests and events are two FIFO queues,
as in the Wayland protocol; the compositor and the applications are external.
`content_kind` is always the kind of `current_hash`, so it is no variable. An image
can only be written as an image, text and paths are written whatever is asked for
(`Materialise`); a failed image conversion, which writes nothing, and a compositor
that refuses to create a source are left out. When `pipe2` fails the offer is
destroyed and the copy is not reported: its drain is `"lost"`. The `ext` backend has the same text
with other type names. The destructor sets `stop` and notifies without the mutex; as
the process ends right after it, a worker that misses it is not pursued.

**`LazyClipboard`** is what the applications may rely on: contents are announced one
after another; a paste begins on an announcement and is answered once, with nothing
or with what was announced then or since, at once where the bytes are at hand
(`Serve`). `LinuxDataControl` and `MacPasteboard` instantiate it with
`announced <- log` and with each paste's announcement and answer, `Seen(p)`; queues,
sources, workers, nested callbacks, requests and timeouts disappear.

**`LinuxServer`** has the worker of `SocketServer`, `main()` from `Start` to the exit
code, the self-pipe and `ParentWatchdog`; **`LinuxX11Helper`** extends it by the
`Dispatcher`'s handlers on the worker and by the clipboard on the main thread, and
together they are the process. A frame is written or read whole; a write holds
`client_mutex_` also while it is blocked. A text longer than a frame (`Oversize`) is
refused by `WriteFrame`. The slot of `dataChanged` is connected directly, on the
thread that calls `setMimeData`: it may run inside that call, where the platform plugin
reports a change at once, or later from the event loop, and both are modelled (`slot`).
Only when `setMimeData` has returned is the mime recorded as ours. In `retrieveData` the main thread waits
for bytes or 10 s and runs nothing else. An `accept` that fails with `EINTR` is a
stutter.

**`MacPasteboard`** has `stack`, the handlers the main thread is inside of: a render
of text or an image blocks it on the semaphore, a render of files spins the run loop,
so that announcements, polls and further renders run on top. `PROVIDE_DATA` on the
socket queue stores under `stateLock` and signals after the unlock (`signalling`). An
image is rendered like a text. The reading of foreign images and file lists is part
of the poll without its contents.

**`MacFileTransfer`** has three queues: the main queue, the coordinator's serial
queue and the parent's answers in any order. Sizes and offsets count chunks. An
answer carries the task whose request it was, which the code cannot see: it routes
by transfer and file, and so does the model. `Repaste` says whether a file is pasted
again while answers to an earlier download of it are still to come; without it no
task is orphaned by `downloads[key] = task` (`FileTransferCoordinator.swift:136`)
either. For a key in `Unreliable` the parent may send an answer again, or fewer bytes
than a chunk has. `disk` is the set of chunks wholly written.

## 4. Runs

| Run | Asks | Result |
|---|---|---|
| `WinRender` | safety of delayed rendering with all frames, two texts, an image and files, renders nested two deep; deadlock | holds, 2.6 M states |
| `WinRenderLive` | every render and every `RunSync` ends; a wake-up stands for an answer | holds, 30 k states |
| `WinPipe` | two connections, two frames beside `READY`, too large or not, a buffer of one; order, handles, `Stop` with a parent that need not read, delivery to one that does | holds, 804 k states |
| `WinPipeJoin` | `Run` joins the writer | violated |
| `WinFile` | one file with a clone, or two files, two bytes each, two chunk fetches nested or in a row | holds, 567 k states |
| `WinObjects` | two frames, two foreign copies, three objects, connections, the watchdog and the teardown | holds, 901 k states |
| `LinuxClipboard` | two announcements of three contents, one paste, two copies or selections, teardown; the refinement of `LazyClipboard`, which includes that pastes are fresh | holds, 1.5 M states |
| `LinuxSuperseded` | a worker of a replaced announcement stops waiting | violated |
| `LinuxHelper` | the X11 helper from start to exit: two frames, a copy or a paste, a signal, the parent closing or dying | holds, 1.6 M states |
| `MacTransfer` | two pastes of three files, a pipeline of two, errors, answers that come twice or short for one of the files, a replaced announcement | holds, 1.1 M states |
| `MacRepaste` | a file reported complete is complete, also when it is pasted twice | violated |
| `MacPasteboard` | two announcements, three pastes, nested renders of files, a copy, polls, Cancel; refinement of `LazyClipboard` | holds, 331 k states |

**Bounds.** Two texts are needed so that a late answer can have the type of what is
pending; an image so that two formats share an answer; files because they take the
clipboard another way. Depth 2 is the smallest with a render inside a render and
with a render inside a read. Two pipe instances let a frame outlive its client, a
buffer of one lets a write stay pending. Two bytes allow a short chunk and a position
in the middle; two handles are reused by two calls. Three objects are one published,
one to replace it and one read; two foreign copies let a notification find that the
clipboard has changed again. Two announcements are the least that replaces one; two
copies let a drain overtake another and let a primary selection precede a copy;
workers do not share anything they consume, so one paste stands for several (the run
with two pastes and one copy was made as well, with the same result). On X11 one copy
can race with two frames, and a socket that holds one frame blocks the second write.
Three chunks with a pipeline of two leave one to be requested after the first answer;
one chunk and none are the edges. The answers of the one-chunk file are
`Unreliable`; one is repeated only when the coordinator is idle and nothing else is
unanswered, or there would be no end of repetitions. Three pastes nest a render of
files in one of files and add one of text. The theorems of section 6 have none of these bounds.
`CHECK_DEADLOCK FALSE` stands where the system really stops: after `Stop`, after
teardown or exit, and when the announcements, frames or calls of the bound are used
up.

**Fairness.**
* `LiveSpec` (Windows rendering): the STA goes on running its innermost activation;
  the end of an inner pump and a posted work item are reached although sent
  messages go first each time they arrive (strong fairness: `PeekMessage` returns
  posted messages once no sent one is waiting). Then *either* the parent answers every
  request and no deadline but that of a render inside our own read is assumed to
  expire, *or* the deadlines expire and nothing is assumed of the parent. Frames that
  leave a waiter to its deadline by design (an empty answer, a repeated announcement, a
  dropped one) are not part of that run; they are part of `WinRender`.
* `FairSpec` of `WinPipeServer`: the helper's threads run, nothing is assumed of the
  parent. `ServeLoopStops` therefore excepts `FlushFileBuffers` (section 5), and
  `FrameDelivered` has the parent that reads as its hypothesis. `ReadingSpec`, of
  `WinPipeJoin`, adds that parent, so that nothing but the notification is missing there.
* `FairSpec` of `WinFileStream`: the STA and the main thread run; no timeout, no answer.
* `FairSpec` of `WinDataObjects`: main thread, STA and watchdog run, the STA dispatches
  each kind of message in its queue, and `PipeServer::Run` returns after `Stop`, which
  `WinPipeServer` shows but for a blocked `FlushFileBuffers` (section 5) and a
  missed notification (`WinPipeJoin`).
* `FairSpec` of `LinuxDataControl`: main thread, compositor and workers run and the
  parent answers what it is asked; the 10 s timeout is never assumed to expire, so that
  `PasteServed` means that no wake-up and no request is lost.
* `FairSpec` of `LinuxX11Helper`: worker, main thread (whose wait in a paste ends after
  10 s at the latest) and watchdog run, `accept` fails on a closed socket, and a parent
  that stays connected reads what it is sent. Without the last a writer may be blocked
  with `client_mutex_` for good (section 5).
* `FairSpec` of `MacFileTransfer`: both queues run, and the parent answers every request,
  with data or an error; that it answers again is never assumed.
* `FairSpec` of `MacPasteboard`: the main thread goes on with what it is inside of, the
  poll timer fires, and the parent answers; no timeout is assumed to expire.

Each property has a mutant in `PROJECT.json`: an operator of the module that changes
one definition the way a plausible bug would (a hash not compared, a notification
left out, an old source kept) and under which the property fails.

## 5. Where the code and its comments disagree

Shown by a run:
* `WinPipeJoin` — `stop_` is stored and the condition variable notified without the
  mutex (`pipe_server.cpp:107`), so the writer can block after the last notification.
* `LinuxSuperseded` — the predicate of `wait_for` (`clipboard_manager_wayland.cpp:249`)
  does not mention a replaced hash, so the Stale path is never taken and a
  superseded paste blocks for the full 10 s.
* `MacRepaste` — a task takes the answers to its predecessor's requests for the same
  file off its own count (`FileTransferCoordinator.swift:399`) and reports success with
  a chunk missing.

Seen while modelling, without a run of their own. Windows:
* `FlushFileBuffers` (`pipe_server.cpp:485`) is synchronous and `Stop` does not cancel
  it: with a parent that stays connected and does not read `Run` never returns (against
  `pipe_server.h:44-46`). TLC finds it when `ServeLoopStops` does not except it.
* `GET_CLIPBOARD` (`dispatch.cpp:678`) reads the clipboard without asking who owns it.
  If a delayed slot is ours, the render inside the read waits for a `PROVIDE_DATA` that
  only the blocked pipe thread could take, until its deadline
  (against `clipboard_ops.h:230-231`).
* An empty `PROVIDE_DATA` leaves the event set (`dispatch.cpp:943`, against
  `dispatch.h:54-55`); a refused announcement is only logged (`dispatch.cpp:904`, against
  `clipboard_ops.cpp:34-36`); a dropped files announcement wakes nobody
  (`dispatch.cpp:814`, against `linux/README.md:99-103`).
* A frame can be written to the client after the one it was meant for
  (`pipe_server.cpp:388`) or to a handle just closed (`:416`); a push may overtake
  `READY` (`:462`, against `pipe_server.h:35-36`); a frame too large is accepted and then
  dropped with the client connected (`:313`), which is why `FrameDelivered` speaks of the
  others; a frame pushed after the writer has left is accepted and never sent (`:371`).
* `DeliverChunk` (`dispatch.cpp:257`) takes `front()` without popping it, so until the
  first reader of a chunk has left, a second answer overwrites the first and the second
  reader gets none (against `:341-344`); the event of a slot is set after the unlock
  (`:263`, against `:221`). `Seek` does not look at `reading_`
  (`virtual_file_provider.cpp:395`, against `:510-512`), which is why `ReadAtCursor`
  excepts a consumer that seeks.
* `GET_CLIPBOARD` and a notification each cache their list and then send it, on two
  threads: the list cached last need not be the one sent last (`dispatch.cpp:697`,
  against `dispatch.h:94-97`). `FilesMatch` excepts exactly that overlap.
* In the teardown the main thread takes `outbound_data_object_` while
  `OnClipboardChanged`, which has looked it up, releases it unconditionally
  (`dispatch.cpp:531`, against `dispatch.h:164-167`): one reference dropped twice. So
  `RefsBalanced` claims an object of ours only until the teardown begins.
* A group descriptor without files leaves its object referenced
  (against `clipboard_ops.h:46-48`): the origin `"empty"`, of which nothing is claimed.
* A notification handled between `ReleaseStaBoundResources` and `StaWorker::Stop` caches
  an object again, and the destructor releases it (against `dispatch.cpp:359-360`).
* The clipboard is found to be ours and then emptied in two calls, between which another
  application may have taken it; objects read on the STA are released on the pipe thread
  by `GET_CLIPBOARD` and after a chunk.

Linux:
* `OnSourceSend` (`clipboard_manager_wayland.cpp:611`) answers from the current
  announcement instead of the source that was asked, so a consumer of an image can get
  text (against `:570-572`). `LazyClipboard` allows it: it promises age, not type.
* Two copies in a row are drained by two detached threads, and the older may finish last
  (`:327`); a copy is lost when `pipe2` fails (`:746`), in which case `OwnershipAgrees`
  claims only that it was looked at; a drain worker may call back after `Detach` (`:330`); a primary selection's
  offer is destroyed and stays in `offer_mimes_` (`:795`). Linux waits 10 s for files
  where `linux/README.md` says 300 s.
* Where `dataChanged` is emitted inside `setMimeData` (`clipboard_manager_x11.cpp:419`)
  the mime is not recorded yet (`:424`), so the slot asks for its text: a `DATA_REQUEST`
  nobody pasted for, and the main thread waits up to 10 s (against `:470-474`). A text of
  `SET_CLIPBOARD` is reported back to the parent in the same way. TLC confirms the
  first; `ForeignTextCached` holds all the same.
* `SocketServer::Stop` needs the mutex that a blocked `SendFrame` holds
  (`socket_server.cpp:152`, against `socket_server.h:19-21`).
* A `CLIPBOARD_CHANGED` longer than a frame is dropped, and a `GET_CLIPBOARD` whose
  answer is too long ends the session (`socket_server.cpp:311`).
* The suppressor remembers one text: of two `SET_CLIPBOARD` in quick succession whose
  `dataChanged` arrive after both, one is reported to the parent as a change
  (`echo_suppressor.cpp:24`). A paste waits out its 10 s for an announcement that has
  been replaced (`clipboard_manager_x11.cpp:182`), and the main thread with it.

macOS:
* The semaphore is signalled after the unlock and once more by Cancel: a signal nobody
  consumed wakes the next render before its answer, and that paste gets nothing
  (`PasteboardManager.swift:469`).
* A render of files entered above another spins until a deadline while the one below it
  cannot return (`:1143`); Cancel, a new announcement or 300 s end it. `RenderServed`
  excepts that render and the ones below it.
* `fileDownloadTriggered` stays set when the first caller gives up at its deadline
  (`PasteboardManager.swift:1040`), so a later paste of the same announcement sends no
  request and spins for 300 s, even if the answer has come in the meantime (against
  `:1143` and `:1013-1014`). TLC confirms it; `RenderServed` excepts such a caller, too.
* `inFlight` goes down with every answer (`FileTransferCoordinator.swift:333`), so an
  answer that comes twice stands in for one that has not come, and success is reported
  with a chunk missing (against `:392-398`). TLC confirms it when `SuccessComplete` does
  not except the `Unreliable` keys.
* A chunk shorter than asked for, and not empty, counts as a whole one: the file is
  reported complete and is truncated or has a hole
  (`FileTransferCoordinator.swift:360-385`).

## 6. Proofs

Every theorem is for all values of the constants, under the named assumptions of the
modules (`ConstantsAssumption`, `KeyAssumption`, `BoundAssumption` and the like), which
say only that the constants have their types and that the null values are no values.
None of the safety invariants is inductive as it stands; what each needs besides:

* **`WinDelayedRenderProofs`**: `TypeOK`, `PasteFresh`, `NoLostAnswer`, and, for a
  parent that sends no empty answers, `WakeMeansAnswer`. That the bytes in a slot are
  fresh depends on the response they came from, on the snapshot the render took before
  it waited, and on nobody having rewritten the clipboard in between. `ServeInv` adds
  these: a stored or cached response is that of the pending announcement
  (`ResponseCurrent`); a render that has taken its snapshot has a hash that is fresh and
  of its format's type, and sets only bytes of that hash (`FramesCurrent`); while a slot
  is delayed or a render runs, the pending announcement is fresh (`PendingFresh`); and
  slots are fresh whoever owns the clipboard (`SlotsFresh`). The argument rests on the
  comparison of hashes in `HandleProvideData` and after the wake-up, and on
  `ClipboardScope` refusing to open the clipboard during a render. Type correctness
  needs `FramesCurrent` in turn, so the two are proved as one induction.
  `WakeMeansAnswer` adds `SignalMeansBytes`: while no answer is empty, a set event means
  bytes at hand, because the announcement that discards the bytes resets it.
* **`WinPipeServerProofs`**: `TypeOK`, `ActiveIsOpen`, `FifoOrder`. The frames received
  by a client, those in its pipe, the one the writer holds and those queued are, in this
  order, increasing: each step moves one frame from the head of one part to the tail of
  the one before it, or drops it.
* **`WinFileStreamProofs`**: `TypeOK`, `ReadAtCursor`, `CompleteAtEof`, `NoLostWakeup`.
  A consumer that never sought has as many bytes as its cursor says, and no call asks
  beyond the end (`CursorInv`); calls are numbered and an event about to be set is its
  call's (`IdInv`); an answered or cancelled call has its event set or about to be
  (`WakeInv`), although handles are reused.
* **`WinDataObjectsProofs`**: `TypeOK`, `RefsBalanced`, `FilesMatch`. `OriginInv` says
  whose object each pointer can point to, `PhaseInv` that until the teardown only the
  STA changes `outbound_data_object_`, so that the pointer `OnClipboardChanged` has
  looked up is still there when it drops it; `ListInv` that the list cached last is the
  one about to be sent.
* **`LinuxDataControlProofs`**: `TypeOK`, `PasteFresh`, `EchoSuppressed`,
  `OwnershipAgrees`, and the refinement `ImplementsLazy` (initial states and every
  step). The invariant is in six parts, each about few variables: the hash at hand is
  the last announced and bytes are kept for no other (`LogInv`); sources on their way
  were announced (`SourceInv`); a worker waits for an announcement not older than its
  paste's source (`PasteInv`); each paste has one event and is handled once (`SendInv`).
  Echo suppression looks only at `current_source_`, and is right because of an order
  kept across the three queues. `EchoInv` states it: sources are created in the order of
  the announcements and the current one is the last (`OrderInv`); the last selection
  requested is that of the last source, and the current source is never about to be
  destroyed (`RequestInv`); the last source is to be selected, selected or to be
  cancelled, and behind its cancelled event no selection of ours is heard (`LastInv`); a
  text of another owner is drained, about to be replaced, or will be heard after that
  event (`TextInv`).
* **`LinuxX11HelperProofs`**: `TypeOK`, `ForeignTextCached`. `EchoInv` says how far
  worker, main thread and suppressor may be ahead of each other: what the suppressor
  remembers or is about to be told was set by the parent, and a copy whose `dataChanged`
  was handled is cached unless a text of the parent's is about to replace it. `SlotInv`
  says that inside `setMimeData` the clipboard holds what the closure at the head of the
  queue has set, so what that slot caches is no copy of the user's.
* **`MacPasteboardProofs`**: `TypeOK`, `PasteFresh`, `RequestOutstanding`, `NoSelfRead`,
  `CopyReported`, and the refinement `ImplementsLazy`. The code compares hashes where
  `PasteFresh` speaks of announcements: `OrderInv` says that what is pending is what the
  pasteboard holds, but while `announceDelayed` is between its lock and its write;
  `FilesInv` that the paths at hand are no older than anything that may still be given
  them; `PollInv` that the poll is behind only for a copy or while our own write is
  being recorded. The refinement adds `OnceInv`: a callback on the stack has not
  returned and is there once, so that the end of a render, however deeply nested, is the
  first answer to its own paste.
* **`MacFileTransferProofs`**, under `~Repaste` (the run `MacRepaste` shows that
  `SuccessComplete` needs it) and, for a parent that answers each request once and
  whole, `Unreliable = {}` (section 5): `TypeOK`, `SuccessComplete`, `NoLeftovers`. The code
  counts answers and does not look at which chunks they bring. `FlightInv` says that
  counting is enough: what a running task has asked for is on disk or due (unanswered,
  or answered and queued), and `inFlight` is the number of offsets that are due.
  For that an answer must be the only one to its request (`AnswerInv`) and reach the
  task that asked (`KeyInv`: when a file is pasted again nothing of its last download is
  left). `NoLeftovers` looks at what the queued blocks will still do: once they have
  run, the registered transfer is the active one (`BookInv`), and a task the coordinator
  holds has something to wait for, a running one an answer, a finished one its
  completion or the removal of its key (`HeldInv`).

Out of the prover's reach, and model-checked: the liveness properties
(`RunSyncReturns`, `RenderEnds`, `FrameDelivered`, `ServeLoopStops`, `TeardownDrains`,
the two `HelperExits`, `PasteServed`, `PasteCompletes`, `RenderServed`). Every safety
invariant that a passing run checks, and both refinements, are theorems.

## 7. Not modelled

* Byte-level codecs, image conversion, logging, the progress panel and generated code
  keep no state across calls or only draw.
* Windows: `CopyTo`, the `IDataObject` of virtual files and its enumerator (stateless
  but for an index); `StaWorker::Start` and its failures; the console handler, which
  does what `Shutdown` does; the command line.
* Linux: the choice of the backend, made once before anything runs, the binding of
  Wayland globals and their absence, the command line.
* macOS: the socket itself (one client, whole frames), the life cycle of the application,
  the chunks of outbound files, `NSProgress` and the deletion of a partial file.
