--------------------------- MODULE LinuxX11Helper ---------------------------
(***************************************************************************)
(* The Linux helper with its X11 clipboard: X11ClipboardManager and        *)
(* EchoSuppressor (linux/src/clipboard_manager_x11.cpp,                    *)
(* echo_suppressor.cpp) behind the Dispatcher (dispatch.cpp), composed     *)
(* with the server of LinuxServer.  Qt's clipboard and the applications    *)
(* are external.  The slot is connected directly, on the same thread: for  *)
(* a mime of ours Qt may call it inside setMimeData, before the closure    *)
(* has recorded what it set, or later from the event loop.                 *)
(*                                                                         *)
(* A text stands for itself, a key for the content_hash of a delayed       *)
(* announcement.  TextKey are those whose mime answers hasText(): texts,   *)
(* and files, for their text/uri-list.                                     *)
(***************************************************************************)
EXTENDS LinuxServer

CONSTANTS
  Text, NoText,
  Oversize,         \* the texts too long for one frame
  Key, NoKey,
  TextKey,          \* the keys announced as text or files
  MaxUser           \* bound: copies and pastes of the user

ASSUME ContentAssumption ==
  /\ NoText \notin Text /\ NoKey \notin Key /\ Text \cap Key = {}
  /\ Oversize \subseteq Text /\ TextKey \subseteq Key /\ MaxUser \in Nat

VARIABLES
  current_hash, pending_data,   \* DelayedState, under its mutex
  cached_clipboard_text,
  last_set_text,                \* EchoSuppressor, of the main thread
  announced_mime,               \* the QPointer is set: to the mime on the clipboard,
                                \* for it is null once its mime is destroyed
  mime,                         \* the QMimeData on the clipboard
  changed,                      \* dataChanged signals on their way
  slot,                         \* OnClipboardChanged runs: "no", for an "event", or
                                \* "inside" setMimeData, until the closure has ended
  everSet, user                 \* history: the texts set by the parent; copies and pastes

stateVars == <<current_hash, pending_data, cached_clipboard_text>>
echoVars == <<last_set_text, announced_mime>>
qtVars == <<mime, changed, slot>>
historyVars == <<everSet, user>>
clipVars == <<stateVars, echoVars, qtVars, historyVars>>
vars == <<serverVars, clipVars>>

Request ==
  [type : {"SET_TEXT"}, text : Text \ Oversize] \cup [type : {"SET_IMAGE"}]
    \cup [type : {"ANNOUNCE", "PROVIDE_DATA"}, key : Key]
    \cup [type : {"GET_CLIPBOARD", "SHUTDOWN", "REFUSED", "OVERSIZED"}]

Reply ==
  [type : {"READY", "ERROR"}] \cup [type : {"CHANGED", "CONTENT"}, text : Text \cup {NoText}]
    \cup [type : {"DATA_REQUEST"}, key : Key]

Fits(frame) == frame.type \in {"CHANGED", "CONTENT"} => frame.text \notin Oversize

\* A QMimeData: of another application, set eagerly, or delayed.
NoMime == [kind |-> "none", text |-> NoText, key |-> NoKey]
-----------------------------------------------------------------------------
(* Dispatcher::Handle, on the worker *)

Handling(type) == worker = "handle" /\ request.type = type

\* The request is done with; a reply goes out, or the next frame is read.
Handled(frame) ==
  /\ reply' = frame /\ request' = NoFrame
  /\ worker' = IF frame = NoFrame THEN "check" ELSE "reply"
  /\ UNCHANGED <<stop, listening, client, backlog, conn, toHelper, mainVars,
                 parentVars, clientMutex, watch, signalled, toParent, echoVars, qtVars,
                 user>>

\* InvokeOnMain: the closure is posted to the main thread.
InvokeOnMain(closure) == posted' = Append(posted, closure)

HandleSetClipboardText ==
  /\ Handling("SET_TEXT")
  /\ cached_clipboard_text' = request.text
  /\ InvokeOnMain([op |-> "text", text |-> request.text])
  /\ everSet' = everSet \cup {request.text}
  /\ Handled(NoFrame)
  /\ UNCHANGED <<current_hash, pending_data>>

\* A picture that cannot be decoded is dropped.
HandleSetClipboardImage ==
  /\ Handling("SET_IMAGE")
  /\ InvokeOnMain([op |-> "image"]) \/ UNCHANGED posted
  /\ Handled(NoFrame)
  /\ UNCHANGED <<stateVars, everSet>>

HandleAnnounceDelayed ==
  /\ Handling("ANNOUNCE")
  /\ current_hash' = request.key /\ pending_data' = NoKey
  /\ InvokeOnMain([op |-> "delayed", key |-> request.key])
  /\ Handled(NoFrame)
  /\ UNCHANGED <<cached_clipboard_text, everSet>>

HandleProvideData ==
  /\ Handling("PROVIDE_DATA")
  /\ pending_data' = IF request.key = current_hash THEN request.key ELSE pending_data
  /\ Handled(NoFrame)
  /\ UNCHANGED <<current_hash, cached_clipboard_text, everSet, posted>>

HandleGetClipboard ==
  /\ Handling("GET_CLIPBOARD")
  /\ Handled([type |-> "CONTENT", text |-> cached_clipboard_text])
  /\ UNCHANGED <<stateVars, everSet, posted>>

\* A malformed or unknown message, or one of the FILES path.
HandleRefused ==
  /\ Handling("REFUSED")
  /\ Handled([type |-> "ERROR"])
  /\ UNCHANGED <<stateVars, everSet, posted>>

HandleShutdown ==
  /\ Handling("SHUTDOWN")
  /\ PostQuit
  /\ Handled(NoFrame)
  /\ UNCHANGED <<stateVars, everSet>>

Handle ==
  \/ HandleSetClipboardText \/ HandleSetClipboardImage \/ HandleAnnounceDelayed
  \/ HandleProvideData \/ HandleGetClipboard \/ HandleRefused \/ HandleShutdown
-----------------------------------------------------------------------------
(* The main thread *)

Closure(op) == MainIdle /\ posted # <<>> /\ Head(posted).op = op

RecordEagerSetText(t) == last_set_text' = t /\ announced_mime' = FALSE

RecordAnnouncedMime == announced_mime' = TRUE /\ UNCHANGED last_set_text

\* setMimeData deletes the mime it replaces, so that announced_mime_ is null.
\* With dataChanged still to come the closure records and ends; or else the
\* slot is called first, and the closure waits for it.
SetMimeData(m, Record) ==
  /\ mime' = m
  /\ \/ /\ changed' = changed + 1
        /\ Record
        /\ posted' = Tail(posted)
        /\ UNCHANGED <<task, slot>>
     \/ /\ task' = "slot" /\ slot' = "inside"
        /\ announced_mime' = FALSE
        /\ UNCHANGED <<changed, posted, last_set_text>>
  /\ UNCHANGED <<sessionVars, main, sending, parentVars, clientMutex, watch, signalled, toParent,
                 stateVars, historyVars>>

SetClipboardText ==
  /\ Closure("text")
  /\ SetMimeData([NoMime EXCEPT !.kind = "text", !.text = Head(posted).text],
                 RecordEagerSetText(Head(posted).text))

SetClipboardImage ==
  /\ Closure("image")
  /\ SetMimeData([NoMime EXCEPT !.kind = "image"], RecordAnnouncedMime)

AnnounceDelayed ==
  /\ Closure("delayed")
  /\ SetMimeData([NoMime EXCEPT !.kind = "delayed", !.key = Head(posted).key],
                 RecordAnnouncedMime)

\* setMimeData returns after the slot; the closure records and ends.
SetMimeDataReturns ==
  /\ task = "record"
  /\ IF Head(posted).op = "text" THEN RecordEagerSetText(Head(posted).text)
     ELSE RecordAnnouncedMime
  /\ posted' = Tail(posted)
  /\ task' = "idle" /\ slot' = "no"
  /\ UNCHANGED <<sessionVars, main, sending, parentVars, clientMutex, watch, signalled, toParent,
                 stateVars, mime, changed, historyVars>>

IsAnnouncedMime == announced_mime

Send(frame) == task' = "send" /\ sending' = frame

BytesAtHand == pending_data = mime.key

RequestData == Send([type |-> "DATA_REQUEST", key |-> mime.key])

HasText == mime.kind \in {"text", "foreign"} \/ (mime.kind = "delayed" /\ mime.key \in TextKey)

\* Mutant: whatever comes next after an eager text is taken for its echo.
ConsumeAnyEcho(text) == last_set_text # NoText

ConsumeEagerSetTextEcho(text) == last_set_text # NoText /\ last_set_text = text

SlotReturns(where) ==
  IF where = "inside" THEN task' = "record" /\ slot' = "inside"
  ELSE task' = "idle" /\ slot' = "no"

\* The slot has the text: its own by content, or else it is cached and sent to
\* the parent.
TakeText(text, where) ==
  /\ IF ConsumeEagerSetTextEcho(text)
     THEN /\ last_set_text' = NoText
          /\ SlotReturns(where)
          /\ UNCHANGED <<sending, cached_clipboard_text>>
     ELSE /\ cached_clipboard_text' = text
          /\ Send([type |-> "CHANGED", text |-> text])
          /\ slot' = where
          /\ UNCHANGED last_set_text

\* text() of a delayed mime calls retrieveData.  What it gives is whatever text
\* the parent has provided.
RenderText(where) ==
  \/ BytesAtHand /\ \E t \in Text : TakeText(t, where)
  \/ /\ ~BytesAtHand /\ RequestData /\ slot' = where
     /\ UNCHANGED <<last_set_text, cached_clipboard_text>>

\* The slot: its own mime by identity, then hasText() and text().
OnDataChanged(where) ==
  /\ IF IsAnnouncedMime \/ ~HasText
     THEN SlotReturns(where) /\ UNCHANGED <<sending, last_set_text, cached_clipboard_text>>
     ELSE IF mime.kind = "delayed" THEN RenderText(where)
     ELSE TakeText(mime.text, where)
  /\ UNCHANGED <<sessionVars, main, parentVars, clientMutex, posted, watch, signalled,
                 toParent, current_hash, pending_data, announced_mime, mime, everSet, user>>

OnClipboardChanged ==
  \/ MainIdle /\ changed > 0 /\ changed' = changed - 1 /\ OnDataChanged("event")
  \/ task = "slot" /\ UNCHANGED changed /\ OnDataChanged("inside")

\* An application pastes a delayed mime: retrieveData.
Paste ==
  /\ MainIdle /\ mime.kind = "delayed" /\ user < MaxUser
  /\ user' = user + 1
  /\ IF BytesAtHand THEN UNCHANGED <<task, sending>> ELSE RequestData
  /\ UNCHANGED <<sessionVars, main, parentVars, clientMutex, posted, watch, signalled,
                 toParent, stateVars, echoVars, qtVars, everSet>>

\* After a CLIPBOARD_CHANGED the slot returns; after a DATA_REQUEST the main
\* thread waits, unless the answer is there.
SendReturns ==
  /\ task = "sent"
  /\ IF sending.type = "DATA_REQUEST" THEN task' = "wait" /\ UNCHANGED slot
     ELSE SlotReturns(slot)
  /\ sending' = NoFrame
  /\ UNCHANGED <<sessionVars, main, parentVars, clientMutex, posted, watch,
                 signalled, toParent, stateVars, echoVars, mime, changed, historyVars>>

\* The bytes have come, or kProvideDataWait is over and text() is empty: the
\* paste ends, or the slot goes on with the text.
WaitReturns ==
  /\ task = "wait"
  /\ \/ /\ slot = "no" /\ task' = "idle"
        /\ UNCHANGED <<sending, slot, last_set_text, cached_clipboard_text>>
     \/ slot # "no" /\ \E t \in Text : TakeText(t, slot)
  /\ UNCHANGED <<sessionVars, main, parentVars, clientMutex, posted, watch, signalled, toParent,
                 current_hash, pending_data, announced_mime, mime, changed, historyVars>>
-----------------------------------------------------------------------------
\* External: another application copies a text, and Qt learns of it between two
\* events.  The mime of ours, if there was one, is destroyed.
AppCopies(t) ==
  /\ MainIdle /\ main = "exec" /\ user < MaxUser
  /\ user' = user + 1
  /\ mime' = [NoMime EXCEPT !.kind = "foreign", !.text = t]
  /\ announced_mime' = FALSE
  /\ changed' = changed + 1
  /\ UNCHANGED <<serverVars, stateVars, last_set_text, slot, everSet>>

\* The parent provides no data before it has announced some.
ParentRequests(f) ==
  /\ f.type = "PROVIDE_DATA" => current_hash # NoKey
  /\ ParentSends(f)
  /\ UNCHANGED clipVars

Init ==
  /\ ServerInit
  /\ current_hash = NoKey /\ pending_data = NoKey /\ cached_clipboard_text = NoText
  /\ last_set_text = NoText /\ announced_mime = FALSE
  /\ mime = NoMime /\ changed = 0 /\ slot = "no"
  /\ everSet = {} /\ user = 0

Worker == ((WorkerNext \/ ReplyWrite(Fits(reply))) /\ UNCHANGED clipVars) \/ Handle

Main ==
  \/ (LifecycleNext \/ SendWrite(Fits(sending))) /\ UNCHANGED clipVars
  \/ SetClipboardText \/ SetClipboardImage \/ AnnounceDelayed \/ SetMimeDataReturns
  \/ OnClipboardChanged
  \/ SendReturns \/ WaitReturns

Next ==
  \/ Worker \/ Main \/ Paste
  \/ (AcceptFails \/ PollLoop \/ ParentNext) /\ UNCHANGED clipVars
  \/ \E f \in Request : ParentRequests(f)
  \/ \E t \in Text : AppCopies(t)

Spec == Init /\ [][Next]_vars

\* Both threads and the watchdog run; a wait ends after kProvideDataWait;
\* accept4 fails once the listening socket is closed; and a parent that stays
\* connected reads what it is sent.
FairSpec ==
  /\ Spec
  /\ WF_vars(Worker) /\ WF_vars(Main)
  /\ WF_vars(~listening /\ AcceptFails /\ UNCHANGED clipVars)
  /\ WF_vars(PollLoop /\ UNCHANGED clipVars)
  /\ WF_vars(ParentReads /\ UNCHANGED clipVars)
-----------------------------------------------------------------------------
(* Properties *)

\* Type invariant.  client_mutex_ is held by nobody but a writer, client_fd_
\* is set exactly while the worker serves a connection, and the recorded mime
\* is one of ours that carries no text of its own.
TypeOK ==
  /\ ServerTypeOK(Request, Reply)
  /\ sending \in Reply \cup {NoFrame}
  /\ task \in {"idle", "slot", "send", "write", "sent", "wait", "record"}
  /\ slot \in {"no", "event", "inside"}
  /\ current_hash \in Key \cup {NoKey} /\ pending_data \in {NoKey, current_hash}
  /\ {cached_clipboard_text, last_set_text} \subseteq Text \cup {NoText}
  /\ announced_mime => mime.kind \in {"image", "delayed"}
  /\ changed \in Nat /\ everSet \subseteq Text /\ user \in 0..MaxUser

Quiet == main = "exec" /\ task = "idle" /\ changed = 0 /\ posted = <<>>

\* Echo suppression swallows no copy of the user's: once all is quiet, a text
\* of another application that the parent never set is what GET_CLIPBOARD
\* returns, however it raced with SET_CLIPBOARD and the announcements, and
\* whenever dataChanged comes.
ForeignTextCached ==
  Quiet /\ mime.kind = "foreign" /\ mime.text \notin everSet
    => cached_clipboard_text = mime.text

\* Why the helper is to exit: the session is over or cannot begin, the parent
\* is gone, or it was asked to.
Over ==
  \/ conn = "closed" \/ worker = "disconnect" \/ signalled
  \/ (~alive /\ watch # "none")
  \/ Handling("SHUTDOWN")

\* The helper exits whenever it is to: no order of accept, Stop, a blocked
\* write, a paste that waits for the parent, a signal before exec() and the
\* watchdog leaves a thread behind that main() joins for ever ("zombie helper").
HelperExits == Over ~> main = "exited"
=============================================================================
