-------------------------- MODULE MacFileTransfer --------------------------
(***************************************************************************)
(* The chunked downloads of the macOS helper (macos/Sources/               *)
(* ClipboardHelper/FileTransferCoordinator.swift) as Finder's file         *)
(* promises drive them (FilePromiseHandler.swift) and as the pasteboard    *)
(* manager registers and cancels them (PasteboardManager.swift).  Three    *)
(* actors: the main queue, the coordinator's serial queue, and the socket  *)
(* queue that hands over the parent's FILE_CHUNK_DATA.  The parent and     *)
(* Finder are external.                                                    *)
(*                                                                         *)
(* A file is named by its downloads key "transferID/fileID"; sizes and     *)
(* offsets count chunks of kDefaultChunkSize.  A task is numbered by the   *)
(* writePromiseTo call that made it.  isCancelled is always followed by    *)
(* finish, so "finished" stands for both flags.                            *)
(***************************************************************************)
EXTENDS Naturals, SequencesExt

CONSTANTS
  Transfer, NoTransfer,
  Key,
  TransferOf,      \* Key -> Transfer
  Size,            \* Key -> number of chunks
  kPipelineDepth,
  Repaste,         \* whether a file is pasted again before its old answers are in
  Unreliable,      \* keys the parent answers more than once, or with too few bytes
  MaxPaste,        \* bound: writePromiseTo calls
  MaxAnnounce      \* bound: changes of the pasteboard's owner or contents

ASSUME TransferAssumption ==
  /\ NoTransfer \notin Transfer
  /\ TransferOf \in [Key -> Transfer] /\ Size \in [Key -> Nat]
  /\ kPipelineDepth \in Nat \ {0}
  /\ Repaste \in BOOLEAN /\ Unreliable \subseteq Key
  /\ MaxPaste \in Nat /\ MaxAnnounce \in Nat

VARIABLES
  activeTransferID,  \* main thread
  mainQueue,         \* blocks dispatched to the main queue
  queue,             \* blocks dispatched to the coordinator's queue
  announcements,     \* coordinator: the registered transfers
  downloads,         \* coordinator: the task of each key, or 0
  task,              \* every FileDownloadTask
  requests,          \* FILE_CHUNK_REQUESTs the parent has not answered
  published,         \* history: transfers Finder may hold promises of
  announced          \* history: number of changes made so far

vars == <<activeTransferID, mainQueue, queue, announcements, downloads, task, requests,
          published, announced>>

Tasks == 1..MaxPaste

Init ==
  /\ activeTransferID = NoTransfer /\ mainQueue = <<>> /\ queue = <<>>
  /\ announcements = {} /\ downloads = [k \in Key |-> 0]
  /\ task = <<>> /\ requests = {} /\ published = {} /\ announced = 0
-----------------------------------------------------------------------------
(* The parent's frames, and the loss of the pasteboard, reach the main queue *)

AnnounceFiles(tr) ==
  /\ announced < MaxAnnounce
  /\ announced' = announced + 1
  /\ mainQueue' = Append(mainQueue, [op |-> "announce", transfer |-> tr])
  /\ UNCHANGED <<activeTransferID, queue, announcements, downloads, task, requests, published>>

\* SET_CLIPBOARD, another kind of announcement, or pasteboardChangedOwner.
Replace ==
  /\ announced < MaxAnnounce
  /\ announced' = announced + 1
  /\ mainQueue' = Append(mainQueue, [op |-> "announce", transfer |-> NoTransfer])
  /\ UNCHANGED <<activeTransferID, queue, announcements, downloads, task, requests, published>>
-----------------------------------------------------------------------------
(* The main queue *)

MainNext(op) == mainQueue # <<>> /\ Head(mainQueue).op = op /\ mainQueue' = Tail(mainQueue)

CancelActive ==
  IF activeTransferID = NoTransfer THEN <<>>
  ELSE <<[op |-> "cancel", transfer |-> activeTransferID]>>

\* Mutant: the new announcement is registered before the old one is cancelled.
PublishRegisteringFirst ==
  /\ MainNext("announce")
  /\ LET tr == Head(mainQueue).transfer IN
     /\ activeTransferID' = tr
     /\ queue' = IF tr = NoTransfer THEN queue \o CancelActive
                 ELSE Append(queue, [op |-> "register", transfer |-> tr]) \o CancelActive
     /\ published' = published \cup ({tr} \cap Transfer)
  /\ UNCHANGED <<announcements, downloads, task, requests, announced>>

\* setClipboard, announceDelayed and pasteboardChangedOwner: the downloads of
\* the transfer on the pasteboard are cancelled; files are registered.
Publish ==
  /\ MainNext("announce")
  /\ LET tr == Head(mainQueue).transfer IN
     /\ activeTransferID' = tr
     /\ queue' = IF tr = NoTransfer THEN queue \o CancelActive
                 ELSE Append(queue \o CancelActive, [op |-> "register", transfer |-> tr])
     /\ published' = published \cup ({tr} \cap Transfer)
  /\ UNCHANGED <<announcements, downloads, task, requests, announced>>

\* The completion of a task: the coordinator's removes the key, the promise
\* handler's calls AppKit's completionHandler.
Completion ==
  /\ MainNext("completion")
  /\ LET t == Head(mainQueue).task IN
     /\ queue' = Append(queue, [op |-> "remove", key |-> task[t].key])
     /\ task' = [task EXCEPT ![t].calls = @ + 1]
  /\ UNCHANGED <<activeTransferID, announcements, downloads, requests, published, announced>>
-----------------------------------------------------------------------------
(* Finder, on the promise queue *)

\* No task, request or answer of the file is left.
Drained(k) ==
  /\ \A t \in DOMAIN task : task[t].key = k => task[t].calls > 0
  /\ \A r \in requests : task[r.task].key # k
  /\ \A i \in DOMAIN queue : queue[i].op = "chunk" => queue[i].key # k

\* writePromiseTo: startFileDownload makes a task and enqueues its start.
WritePromiseTo(k) ==
  /\ Len(task) < MaxPaste
  /\ TransferOf[k] \in published
  /\ Repaste \/ Drained(k)
  /\ task' = Append(task, [key |-> k, pc |-> "queued", nextRequestOffset |-> 0,
                           inFlight |-> 0, disk |-> {}, ok |-> FALSE, calls |-> 0])
  /\ queue' = Append(queue, [op |-> "start", task |-> Len(task) + 1])
  /\ UNCHANGED <<activeTransferID, mainQueue, announcements, downloads, requests, published,
                 announced>>
-----------------------------------------------------------------------------
(* The coordinator's queue *)

QueueNext(op) == queue # <<>> /\ Head(queue).op = op /\ queue' = Tail(queue)

RegisterAnnouncement ==
  /\ QueueNext("register")
  /\ announcements' = announcements \cup {Head(queue).transfer}
  /\ UNCHANGED <<activeTransferID, mainQueue, downloads, task, requests, published, announced>>

\* finish(error:), which hops to the main queue.
FinishedAs(r, ok) == [r EXCEPT !.pc = "finished", !.ok = ok]
Hop(t) == Append(mainQueue, [op |-> "completion", task |-> t])

\* Mutant: one request too many.
PrimeCountOver(r) ==
  LET left == Size[r.key] - r.nextRequestOffset IN
  IF kPipelineDepth + 1 - r.inFlight < left THEN kPipelineDepth + 1 - r.inFlight ELSE left

\* primeRequests: how many requests the loop sends.
PrimeCount(r) ==
  LET left == Size[r.key] - r.nextRequestOffset
      room == kPipelineDepth - r.inFlight
  IN IF room < left THEN room ELSE left

\* Task t has become r and tops up its pipeline.
PrimeRequests(t, r) ==
  LET n == PrimeCount(r) IN
  /\ task' = [task EXCEPT ![t] = [r EXCEPT !.nextRequestOffset = @ + n, !.inFlight = @ + n]]
  /\ requests' = requests \cup
       {[task |-> t, offset |-> o] : o \in r.nextRequestOffset..(r.nextRequestOffset + n - 1)}

\* start: an empty file needs no chunk; the file may not open for writing.
Start ==
  /\ QueueNext("start")
  /\ LET t == Head(queue).task
         k == task[t].key IN
     /\ downloads' = [downloads EXCEPT ![k] = t]
     /\ \/ /\ Size[k] > 0
           /\ PrimeRequests(t, [task[t] EXCEPT !.pc = "running"])
           /\ UNCHANGED mainQueue
        \/ /\ task' = [task EXCEPT ![t] = FinishedAs(@, Size[k] = 0)]
           /\ mainQueue' = Hop(t)
           /\ UNCHANGED requests
  /\ UNCHANGED <<activeTransferID, announcements, published, announced>>

\* Mutant: the answer to the last request ends the download.
AllAnsweredAtLast(r) == r.nextRequestOffset >= Size[r.key]

\* Every chunk has been requested and every request answered.
AllAnswered(r) == r.nextRequestOffset >= Size[r.key] /\ r.inFlight = 0

\* handleChunkData: an answer for no task or a finished one is dropped; an
\* error, an empty chunk or a failed write ends the download; else the chunk
\* is written at its own offset and the download completes or goes on.  disk
\* holds the chunks all of whose bytes were written.
HandleChunkData ==
  /\ QueueNext("chunk")
  /\ LET c == Head(queue)
         t == downloads[c.key] IN
     IF t = 0 \/ (t # 0 => task[t].pc = "finished")
     THEN UNCHANGED <<mainQueue, task, requests>>
     ELSE LET r == [task[t] EXCEPT !.inFlight = IF @ > 0 THEN @ - 1 ELSE 0]
              w == [r EXCEPT !.disk = IF c.data = "whole" THEN @ \cup {c.offset} ELSE @] IN
       \/ /\ task' = [task EXCEPT ![t] = FinishedAs(r, FALSE)]
          /\ mainQueue' = Hop(t)
          /\ UNCHANGED requests
       \/ /\ c.data # "none" /\ AllAnswered(w)
          /\ task' = [task EXCEPT ![t] = FinishedAs(w, TRUE)]
          /\ mainQueue' = Hop(t)
          /\ UNCHANGED requests
       \/ /\ c.data # "none" /\ ~AllAnswered(w)
          /\ PrimeRequests(t, w)
          /\ UNCHANGED mainQueue
  /\ UNCHANGED <<activeTransferID, announcements, downloads, published, announced>>

\* Mutant: finish is not idempotent.
ToCancelAgain(tr) ==
  {downloads[k] : k \in {l \in Key : TransferOf[l] = tr /\ downloads[l] # 0}}

\* The unfinished tasks the coordinator holds for a transfer.
ToCancel(tr) ==
  {downloads[k] : k \in {l \in Key : TransferOf[l] = tr /\ downloads[l] # 0
                                     /\ task[downloads[l]].pc # "finished"}}

\* cancelTransfer, over the dictionary in any order.
CancelTransfer ==
  /\ QueueNext("cancel")
  /\ LET tr == Head(queue).transfer
         ended == ToCancel(tr) IN
     /\ task' = [t \in DOMAIN task |->
                   IF t \in ended THEN FinishedAs(task[t], FALSE) ELSE task[t]]
     /\ \E order \in SetToSeqs(ended) :
          mainQueue' = mainQueue \o
            [i \in DOMAIN order |-> [op |-> "completion", task |-> order[i]]]
     /\ downloads' = [k \in Key |-> IF TransferOf[k] = tr THEN 0 ELSE downloads[k]]
     /\ announcements' = announcements \ {tr}
  /\ UNCHANGED <<activeTransferID, requests, published, announced>>

\* The block of the coordinator's completion: whichever task has the key.
RemoveDownload ==
  /\ QueueNext("remove")
  /\ downloads' = [downloads EXCEPT ![Head(queue).key] = 0]
  /\ UNCHANGED <<activeTransferID, mainQueue, announcements, task, requests, published,
                 announced>>
-----------------------------------------------------------------------------
(* External: the parent *)

\* The bytes of an answer: none (or an error), all of the chunk, or some.
Data(r) ==
  {"none", "whole"} \cup {d \in {"short"} : task[r.task].key \in Unreliable}

\* A FILE_CHUNK_DATA as the socket queue enqueues it.
Answer(r, data) == [op |-> "chunk", key |-> task[r.task].key, offset |-> r.offset,
                    data |-> data, task |-> r.task]

\* The parent answers a request, in any order.
ParentAnswers(r, data) ==
  /\ requests' = requests \ {r}
  /\ queue' = Append(queue, Answer(r, data))
  /\ UNCHANGED <<activeTransferID, mainQueue, announcements, downloads, task, published,
                 announced>>

\* It sends an answer it will send again; bound: when the coordinator is idle and
\* nothing else is unanswered.
ParentRepeats(r, data) ==
  /\ task[r.task].key \in Unreliable
  /\ queue = <<>> /\ requests = {r}
  /\ queue' = Append(queue, Answer(r, data))
  /\ UNCHANGED <<activeTransferID, mainQueue, announcements, downloads, task, requests,
                 published, announced>>
-----------------------------------------------------------------------------

MainStep == Publish \/ Completion

QueueStep ==
  RegisterAnnouncement \/ Start \/ HandleChunkData \/ CancelTransfer \/ RemoveDownload

Next ==
  \/ \E tr \in Transfer : AnnounceFiles(tr)
  \/ Replace \/ MainStep \/ QueueStep
  \/ \E k \in Key : WritePromiseTo(k)
  \/ \E r \in requests : \E data \in Data(r) : ParentAnswers(r, data) \/ ParentRepeats(r, data)

Spec == Init /\ [][Next]_vars

\* Both queues run, and the parent answers each request.
FairSpec ==
  /\ Spec /\ WF_vars(MainStep) /\ WF_vars(QueueStep)
  /\ WF_vars(\E r \in requests : \E data \in Data(r) : ParentAnswers(r, data))
-----------------------------------------------------------------------------
(* Properties *)

\* Type invariant.
TypeOK ==
  /\ activeTransferID \in Transfer \cup {NoTransfer}
  /\ announcements \subseteq Transfer /\ published \subseteq Transfer
  /\ downloads \in [Key -> 0..Len(task)]
  /\ Len(task) <= MaxPaste
  /\ \A t \in DOMAIN task :
       /\ task[t].key \in Key /\ task[t].pc \in {"queued", "running", "finished"}
       /\ task[t].inFlight \in 0..kPipelineDepth
       /\ task[t].nextRequestOffset \in 0..Size[task[t].key]
       /\ task[t].disk \subseteq 0..(task[t].nextRequestOffset - 1)
  /\ requests \subseteq [task : DOMAIN task, offset : Nat]

\* A download reported as a success has every chunk on disk, although a file is
\* cancelled and pasted again and "the terminal chunk can arrive before earlier
\* ones": startFileDownload must not "leave holes on disk".  Not so for an Unreliable
\* key: handleChunkData counts answers, not chunks, and looks for empty ones only.
SuccessComplete ==
  \A t \in DOMAIN task :
    task[t].ok /\ task[t].key \notin Unreliable =>
      task[t].disk = 0..(Size[task[t].key] - 1)

\* Nothing is left behind: once the queues are empty and nothing is
\* unanswered, the coordinator holds no task, and no transfer but the one on
\* the pasteboard.
NoLeftovers ==
  mainQueue = <<>> /\ queue = <<>> /\ requests = {} =>
    /\ \A k \in Key : downloads[k] = 0
    /\ announcements = {activeTransferID} \cap Transfer

\* Finder's progress ends: the completionHandler of every paste is called, and
\* "exactly once", whichever of the last chunk, an error and a cancellation
\* comes first.  It takes Repaste = FALSE: a task that downloads[key] = task
\* orphans is never finished.
PasteCompletes ==
  \A t \in Tasks :
    (t \in DOMAIN task) ~> [](t \in DOMAIN task /\ task[t].calls = 1)
=============================================================================
