------------------------- MODULE WinDelayedRender -------------------------
(***************************************************************************)
(* Delayed rendering in the Windows helper (windows/src/dispatch.cpp, with *)
(* the STA window procedure of sta_worker.cpp and the clipboard calls of   *)
(* clipboard_ops.cpp).                                                     *)
(*                                                                         *)
(* Two threads of the helper meet here.  The PIPE thread handles one frame *)
(* of the parent at a time and blocks in StaWorker::RunSync while a work   *)
(* item of its runs on the STA.  The STA thread dispatches window          *)
(* messages; a WM_RENDERFORMAT handler that waits for PROVIDE_DATA pumps   *)
(* messages itself, so activations nest: frame[1..depth] is the STA's call *)
(* stack, and only its top moves.  They share, under render_mu_,           *)
(* pending_hash, pending_response, cached_response and cached_valid, and   *)
(* the manual-reset render_event.                                          *)
(*                                                                         *)
(* The OS clipboard and the applications that paste are external: owner,   *)
(* open, slotState, slotData and asker.                                    *)
(*                                                                         *)
(* Bytes are abstracted to the content hash they belong to: NoHash as a    *)
(* response is the empty vector, NoHash in a slot is content no            *)
(* announcement ever promised (what SET_CLIPBOARD wrote).                  *)
(***************************************************************************)
EXTENDS Naturals, FiniteSets

CONSTANTS
  Hash,         \* content hashes the parent announces
  NoHash,       \* the empty string, and the empty byte vector
  ContentType,  \* what each hash announces: "text", "image" or "files"
  MaxDepth,     \* bound on nested STA activations
  Parent        \* what the parent sends, a subset of ParentKinds

ParentKinds == {"ANNOUNCE", "REANNOUNCE", "DROPPED_FILES", "PROVIDE",
                "EMPTY", "SET", "GET"}

ASSUME ConstantsAssumption ==
  /\ NoHash \notin Hash
  /\ ContentType \in [Hash -> {"text", "image", "files"}]
  /\ MaxDepth \in Nat \ {0}
  /\ Parent \subseteq ParentKinds
  /\ "GET" \in Parent => MaxDepth > 1

VARIABLES
  pending_hash, pending_response, cached_response, cached_valid, render_event,
  pipe,      \* what the pipe thread is blocked in RunSync for, or "idle"
  queued,    \* whether that work item is still in the STA's work queue
  depth, frame,
  owner, open, slotState, slotData, asker,
  requests,  \* DATA_REQUESTs the parent has not answered
  fresh,     \* history: hashes announced since the OS clipboard was last written
  answered,  \* history: the last matching PROVIDE_DATA carried bytes
  announced  \* history: every hash announced so far

renderVars == <<pending_hash, pending_response, cached_response, cached_valid,
                render_event>>
osVars == <<owner, open, slotState, slotData, asker>>
historyVars == <<fresh, answered, announced>>
vars == <<renderVars, pipe, queued, depth, frame, osVars, requests, historyVars>>

Format == {"CF_UNICODETEXT", "CF_DIBV5", "CF_DIB"}

\* The mapping at the head of OnRenderFormat.
FormatType == [f \in Format |-> IF f = "CF_UNICODETEXT" THEN "text" ELSE "image"]

\* The formats AnnounceDelayedFormatsForType advertises.
FormatsOf(type) == {f \in Format : FormatType[f] = type}

OptHash == Hash \cup {NoHash}

FrameRec == [kind : {"free", "render", "read", "all"},
             pc   : {"none", "start", "send", "wait", "pump", "woken", "set",
                     "ask", "check"},
             fmt  : Format,
             hash : OptHash,
             data : OptHash,
             told : BOOLEAN,       \* PROVIDE_DATA seen since the request
             todo : SUBSET Format]

Free == [kind |-> "free", pc |-> "none", fmt |-> "CF_UNICODETEXT",
         hash |-> NoHash, data |-> NoHash, told |-> FALSE, todo |-> {}]
-----------------------------------------------------------------------------
Levels == 1..MaxDepth
Active == 1..depth
Top    == frame[depth]

\* IsOsClipboardHeldByThisThread: inside a WM_RENDERFORMAT or
\* WM_RENDERALLFORMATS dispatch.
Held == \E d \in Active : frame[d].kind \in {"render", "all"}

\* The STA dispatches window messages: in PumpMessages, or in the wait of the
\* innermost OnRenderFormat.  MsgWaitForMultipleObjects prefers the event.
Pumping == \/ depth = 0
           \/ /\ depth > 0
              /\ Top.kind = "render"
              /\ \/ Top.pc = "pump"
                 \/ Top.pc = "wait" /\ ~render_event

\* A message is being dispatched from that wait.
EnterPump(fr) == IF depth = 0 THEN fr ELSE [fr EXCEPT ![depth].pc = "pump"]

Push(rec) ==
  /\ depth < MaxDepth
  /\ depth' = depth + 1
  /\ frame' = [EnterPump(frame) EXCEPT ![depth + 1] = rec]

\* The innermost activation returns to whatever dispatched it; an application
\* blocked on it gets its answer.
Pop ==
  /\ depth' = depth - 1
  /\ frame' = [frame EXCEPT ![depth] = Free]
  /\ asker' = IF asker = depth THEN 0 ELSE asker

Goto(pc) == frame' = [frame EXCEPT ![depth].pc = pc]

TopIs(kind, pc) == depth > 0 /\ Top.kind = kind /\ Top.pc = pc

RenderRec(f) == [Free EXCEPT !.kind = "render", !.pc = "start", !.fmt = f]
-----------------------------------------------------------------------------
(* The pipe thread *)

\* Mutant: the ResetEvent is left to somebody else.
StoreAnnouncementKeepingEvent(h) ==
  /\ pending_hash' = h
  /\ pending_response' = NoHash
  /\ cached_response' = NoHash
  /\ cached_valid' = FALSE
  /\ fresh' = fresh \cup {h}
  /\ announced' = announced \cup {h}
  /\ answered' = FALSE
  /\ UNCHANGED render_event

\* HandleAnnounceDelayed up to its RunSync: the announcement is stored, and
\* the response, the cache and the event of the previous one are cleared.
StoreAnnouncement(h) ==
  /\ pending_hash' = h
  /\ pending_response' = NoHash
  /\ cached_response' = NoHash
  /\ cached_valid' = FALSE
  /\ render_event' = FALSE
  /\ fresh' = fresh \cup {h}
  /\ announced' = announced \cup {h}
  /\ answered' = FALSE

HandleAnnounceDelayed(h) ==
  /\ pipe = "idle"
  /\ (IF h \in announced THEN "REANNOUNCE" ELSE "ANNOUNCE") \in Parent
  /\ StoreAnnouncement(h)
  /\ pipe' = "announce"
  /\ queued' = TRUE
  /\ UNCHANGED <<depth, frame, osVars, requests>>

\* A files announcement without usable metadata or transfer_id is dropped
\* after the announcement was stored, before anything reaches the STA.
DropFilesAnnouncement(h) ==
  /\ pipe = "idle"
  /\ "DROPPED_FILES" \in Parent /\ ContentType[h] = "files"
  /\ h \in announced => "REANNOUNCE" \in Parent
  /\ StoreAnnouncement(h)
  /\ UNCHANGED <<pipe, queued, depth, frame, osVars, requests>>

\* Mutant: the content hash is not compared.
HandleProvideDataUnchecked(h, bytes) ==
  /\ pipe = "idle"
  /\ (IF bytes THEN "PROVIDE" ELSE "EMPTY") \in Parent
  /\ requests' = requests \ {h}
  /\ pending_response' = IF bytes THEN h ELSE NoHash
  /\ render_event' = TRUE
  /\ answered' = bytes
  /\ UNCHANGED <<pending_hash, cached_response, cached_valid, pipe, queued, depth,
                 frame, osVars, fresh, announced>>

\* HandleProvideData: bytes for any other hash than the pending one are
\* dropped.  bytes = FALSE is an empty data field.
HandleProvideData(h, bytes) ==
  /\ pipe = "idle"
  /\ (IF bytes THEN "PROVIDE" ELSE "EMPTY") \in Parent
  /\ requests' = requests \ {h}
  /\ IF h = pending_hash
     THEN /\ pending_response' = IF bytes THEN h ELSE NoHash
          /\ render_event' = TRUE
          /\ answered' = bytes
          /\ frame' = [d \in Levels |->
                         IF frame[d].pc \in {"wait", "pump"} /\ frame[d].hash = h
                         THEN [frame[d] EXCEPT !.told = TRUE] ELSE frame[d]]
     ELSE UNCHANGED <<pending_response, render_event, answered, frame>>
  /\ UNCHANGED <<pending_hash, cached_response, cached_valid, pipe, queued, depth,
                 osVars, fresh, announced>>

\* SET_CLIPBOARD and GET_CLIPBOARD both post a work item and wait for it.
HandleRunSync(kind) ==
  /\ pipe = "idle"
  /\ kind \in Parent
  /\ pipe' = kind
  /\ queued' = TRUE
  /\ UNCHANGED <<renderVars, depth, frame, osVars, requests, fresh, answered,
                 announced>>
-----------------------------------------------------------------------------
(* Work items on the STA (WM_LEVIATHAN_WORK, drained by DrainWorkQueue) *)

\* ClipboardScope: refused while a render is dispatched on this thread, and
\* when another application keeps the clipboard open.
ClipboardScope == ~Held /\ open = "no"

\* Mutant: the item is run but stays in the queue.
WorkDoneNotRemoved ==
  queued' = queued /\ pipe' = "idle" /\ frame' = EnterPump(frame)

\* The caller blocked in RunSync gets its promise.
WorkDone == queued' = FALSE /\ pipe' = "idle" /\ frame' = EnterPump(frame)

\* AnnounceDelayedFormatsForType: EmptyClipboard, then one empty slot per
\* format; a format the OS refuses stays absent.  A refused scope or a failed
\* EmptyClipboard is only logged.
AnnounceFormats ==
  /\ pipe = "announce" /\ queued /\ Pumping
  /\ ContentType[pending_hash] # "files"
  /\ \/ /\ ClipboardScope
        /\ \E S \in SUBSET FormatsOf(ContentType[pending_hash]) :
             /\ owner' = "hwnd"
             /\ slotState' = [f \in Format |-> IF f \in S THEN "delayed" ELSE "absent"]
             /\ slotData' = [f \in Format |-> NoHash]
             /\ fresh' = {pending_hash}
     \/ UNCHANGED <<owner, slotState, slotData, fresh>>
  /\ WorkDone
  /\ UNCHANGED <<renderVars, depth, open, asker, requests, answered, announced>>

\* The files branch: OleSetClipboard takes the clipboard for a virtual-file
\* IDataObject, without ClipboardScope's guard.
AnnounceFiles ==
  /\ pipe = "announce" /\ queued /\ Pumping
  /\ ContentType[pending_hash] = "files"
  /\ \/ /\ open = "no"
        /\ owner' = "ole"
        /\ slotState' = [f \in Format |-> "absent"]
        /\ slotData' = [f \in Format |-> NoHash]
     \/ UNCHANGED <<owner, slotState, slotData>>
  /\ WorkDone
  /\ UNCHANGED <<renderVars, depth, open, asker, requests, historyVars>>

\* WriteClipboardText / ImagePng / Files: EmptyClipboard, then the content
\* itself (CF_HDROP is not one of the tracked formats).  The pending
\* announcement is left alone.  A failure is answered with an ERROR frame.
WriteClipboard ==
  /\ pipe = "SET" /\ queued /\ Pumping
  /\ \/ /\ ClipboardScope
        /\ owner' = "hwnd"
        /\ \E S \in {{}, {"CF_UNICODETEXT"}, {"CF_DIBV5"}} :
             slotState' = [f \in Format |-> IF f \in S THEN "full" ELSE "absent"]
        /\ slotData' = [f \in Format |-> NoHash]
        /\ fresh' = {}
     \/ UNCHANGED <<owner, slotState, slotData, fresh>>
  /\ WorkDone
  /\ UNCHANGED <<renderVars, depth, open, asker, requests, answered, announced>>

\* ReadClipboard for GET_CLIPBOARD opens the clipboard; it does not ask who
\* owns it.
ReadBegin ==
  /\ pipe = "GET" /\ queued /\ Pumping /\ ClipboardScope
  /\ Push([Free EXCEPT !.kind = "read", !.pc = "ask",
                       !.todo = {f \in Format : slotState[f] # "absent"}])
  /\ open' = "sta"
  /\ queued' = FALSE
  /\ UNCHANGED <<renderVars, pipe, owner, slotState, slotData, asker, requests,
                 historyVars>>

ReadRefused ==
  /\ pipe = "GET" /\ queued /\ Pumping /\ ~ClipboardScope
  /\ WorkDone
  /\ UNCHANGED <<renderVars, depth, osVars, requests, historyVars>>

\* Text first, then CF_DIBV5, then CF_DIB.
NextToRead(todo) == CASE "CF_UNICODETEXT" \in todo -> "CF_UNICODETEXT"
                      [] "CF_DIBV5" \in todo       -> "CF_DIBV5"
                      [] OTHER                     -> "CF_DIB"

ReadEnd ==
  /\ Pop
  /\ open' = "no"
  /\ pipe' = "idle"
  /\ UNCHANGED <<owner, slotState, slotData>>

\* GetClipboardData on one of our own delayed slots makes the OS call our
\* window procedure on this very stack.
ReadAsk ==
  /\ TopIs("read", "ask")
  /\ LET f == NextToRead(Top.todo) IN
       IF Top.todo # {} /\ slotState[f] = "delayed"
       THEN /\ depth < MaxDepth
            /\ depth' = depth + 1
            /\ frame' = [frame EXCEPT
                           ![depth].pc = "check", ![depth].fmt = f,
                           ![depth].todo = Top.todo \ {f},
                           ![depth + 1] = RenderRec(f)]
            /\ UNCHANGED <<pipe, osVars>>
       ELSE ReadEnd
  /\ UNCHANGED <<renderVars, queued, requests, historyVars>>

ReadCheck ==
  /\ TopIs("read", "check")
  /\ \/ slotState[Top.fmt] = "full" /\ ReadEnd
     \/ /\ slotState[Top.fmt] # "full" /\ Goto("ask")
        /\ UNCHANGED <<pipe, depth, osVars>>
  /\ UNCHANGED <<renderVars, queued, requests, historyVars>>
-----------------------------------------------------------------------------
(* OnRenderFormat on the STA *)

Wanted(f) == /\ pending_hash # NoHash
             /\ ContentType[pending_hash] = FormatType[f]

\* The bytes at hand: the cache first, else the stored response, which is
\* moved into the cache.
HaveData == cached_valid \/ pending_response # NoHash
DataAtHand == IF cached_valid THEN cached_response ELSE pending_response
Adopt ==
  /\ cached_response' = DataAtHand
  /\ cached_valid' = TRUE
  /\ pending_response' = IF cached_valid THEN pending_response ELSE NoHash
  /\ UNCHANGED <<pending_hash, render_event>>

\* The snapshot under render_mu_: nothing pending or another type, bytes at
\* hand, or a round trip to the parent.
RenderStart ==
  /\ TopIs("render", "start")
  /\ \/ ~Wanted(Top.fmt) /\ Pop /\ UNCHANGED renderVars
     \/ /\ Wanted(Top.fmt) /\ HaveData /\ Adopt
        /\ frame' = [frame EXCEPT ![depth].pc = "set", ![depth].hash = pending_hash,
                                  ![depth].data = DataAtHand]
        /\ UNCHANGED <<depth, asker>>
     \/ /\ Wanted(Top.fmt) /\ ~HaveData
        /\ frame' = [frame EXCEPT ![depth].pc = "send", ![depth].hash = pending_hash]
        /\ UNCHANGED <<renderVars, depth, asker>>
  /\ UNCHANGED <<pipe, queued, owner, open, slotState, slotData, requests, historyVars>>

\* DATA_REQUEST; SendFrame fails when no client is connected.
SendDataRequest ==
  /\ TopIs("render", "send")
  /\ \/ /\ requests' = requests \cup {Top.hash}
        /\ Goto("wait")
        /\ UNCHANGED <<depth, asker>>
     \/ Pop /\ UNCHANGED requests
  /\ UNCHANGED <<renderVars, pipe, queued, owner, open, slotState, slotData, historyVars>>

\* MsgWaitForMultipleObjects returns for render_event_.
WakeByEvent ==
  /\ TopIs("render", "wait") /\ render_event
  /\ Goto("woken")
  /\ UNCHANGED <<renderVars, pipe, queued, depth, osVars, requests, historyVars>>

\* Mutant: a timed-out render asks again.
RenderTimeoutRetrying ==
  /\ TopIs("render", "wait")
  /\ Goto("send")
  /\ UNCHANGED <<renderVars, pipe, queued, depth, osVars, requests, historyVars>>

\* kRenderTimeoutMs elapsed.
RenderTimeout ==
  /\ TopIs("render", "wait")
  /\ Pop
  /\ UNCHANGED <<renderVars, pipe, queued, owner, open, slotState, slotData, requests,
                 historyVars>>

\* Mutant: the response is rendered without keeping it for the next format.
AfterWakeNotCaching ==
  /\ TopIs("render", "woken")
  /\ \/ /\ pending_hash = Top.hash /\ pending_response # NoHash
        /\ frame' = [frame EXCEPT ![depth].pc = "set", ![depth].data = pending_response]
        /\ pending_response' = NoHash
        /\ UNCHANGED <<depth, asker, pending_hash, cached_response, cached_valid,
                       render_event>>
     \/ /\ ~(pending_hash = Top.hash /\ pending_response # NoHash)
        /\ Pop /\ UNCHANGED renderVars
  /\ UNCHANGED <<pipe, queued, owner, open, slotState, slotData, requests, historyVars>>

\* The check under render_mu_ after the event: superseded, the stored
\* response, the cache a nested render filled, or nothing.
AfterWake ==
  /\ TopIs("render", "woken")
  /\ LET current == pending_hash = Top.hash
         bytes   == IF pending_response # NoHash THEN pending_response ELSE cached_response
     IN \/ /\ current /\ HaveData
           /\ frame' = [frame EXCEPT ![depth].pc = "set", ![depth].data = bytes]
           /\ cached_response' = bytes
           /\ cached_valid' = TRUE
           /\ pending_response' = NoHash
           /\ UNCHANGED <<depth, asker, pending_hash, render_event>>
        \/ ~(current /\ HaveData) /\ Pop /\ UNCHANGED renderVars
  /\ UNCHANGED <<pipe, queued, owner, open, slotState, slotData, requests, historyVars>>

\* Mutant: the waiter does not notice that its announcement was replaced.
PumpEndUnchecked ==
  /\ TopIs("render", "pump")
  /\ Goto("wait")
  /\ UNCHANGED <<renderVars, pipe, queued, depth, osVars, requests, historyVars>>

\* The check after the inner message pump ran: superseded, the cache, or wait
\* again.  A stored response is left to the event.
PumpEnd ==
  /\ TopIs("render", "pump")
  /\ LET current == pending_hash = Top.hash IN
       \/ ~current /\ Pop
       \/ /\ current /\ cached_valid
          /\ frame' = [frame EXCEPT ![depth].pc = "set", ![depth].data = cached_response]
          /\ UNCHANGED <<depth, asker>>
       \/ current /\ ~cached_valid /\ Goto("wait") /\ UNCHANGED <<depth, asker>>
  /\ UNCHANGED <<renderVars, pipe, queued, owner, open, slotState, slotData, requests,
                 historyVars>>

\* External: SetClipboardData is accepted from the owner while the clipboard
\* is open.
SetClipboardData(f, bytes) ==
  /\ owner = "hwnd" /\ open # "no"
  /\ slotState' = [slotState EXCEPT ![f] = "full"]
  /\ slotData' = [slotData EXCEPT ![f] = bytes]

\* RenderTextDuringWmRenderFormat / RenderImageDuringWmRenderFormat, which may
\* fail (no memory, undecodable image).
RenderToSlot ==
  /\ TopIs("render", "set")
  /\ \/ SetClipboardData(Top.fmt, Top.data)
     \/ UNCHANGED <<slotState, slotData>>
  /\ Pop
  /\ UNCHANGED <<renderVars, pipe, queued, owner, open, requests, historyVars>>

\* WM_RENDERALLFORMATS opens the clipboard and renders, from bytes at hand
\* only, every format that is available.
RenderAllBegin ==
  /\ Pumping /\ owner = "hwnd" /\ open = "no"
  /\ \E f \in Format : slotState[f] = "delayed"
  /\ Push([Free EXCEPT !.kind = "all", !.pc = "ask",
                       !.todo = {f \in Format : slotState[f] # "absent"}])
  /\ open' = "sta"
  /\ UNCHANGED <<renderVars, pipe, queued, owner, slotState, slotData, asker, requests,
                 historyVars>>

RenderAllStep ==
  /\ TopIs("all", "ask")
  /\ IF Top.todo = {}
     THEN /\ Pop /\ open' = "no"
          /\ UNCHANGED <<renderVars, owner, slotState, slotData>>
     ELSE LET f == NextToRead(Top.todo) IN
          /\ frame' = [frame EXCEPT ![depth].todo = Top.todo \ {f}]
          /\ IF Wanted(f) /\ HaveData
             THEN /\ Adopt
                  /\ \/ SetClipboardData(f, DataAtHand)
                     \/ UNCHANGED <<slotState, slotData>>
             ELSE UNCHANGED <<renderVars, slotState, slotData>>
          /\ UNCHANGED <<depth, owner, open, asker>>
  /\ UNCHANGED <<pipe, queued, requests, historyVars>>
-----------------------------------------------------------------------------
(* External: applications using the OS clipboard *)

AppOpen ==
  /\ open = "no"
  /\ open' = "app"
  /\ UNCHANGED <<renderVars, pipe, queued, depth, frame, owner, slotState, slotData, asker,
                 requests, historyVars>>

\* GetClipboardData on a delayed slot: the OS sends WM_RENDERFORMAT and the
\* application blocks until it returns.
AppPaste(f) ==
  /\ open = "app" /\ asker = 0 /\ owner = "hwnd" /\ slotState[f] = "delayed"
  /\ Pumping
  /\ Push(RenderRec(f))
  /\ asker' = depth + 1
  /\ UNCHANGED <<renderVars, pipe, queued, owner, open, slotState, slotData, requests,
                 historyVars>>

\* CloseClipboard, or the application dies in the middle of its paste.
AppClose ==
  /\ open = "app"
  /\ open' = "no"
  /\ asker' = 0
  /\ UNCHANGED <<renderVars, pipe, queued, depth, frame, owner, slotState, slotData,
                 requests, historyVars>>

\* Another application copies something.
ForeignCopy ==
  /\ open = "app" /\ asker = 0
  /\ owner' = "foreign"
  /\ slotState' = [f \in Format |-> "absent"]
  /\ slotData' = [f \in Format |-> NoHash]
  /\ UNCHANGED <<renderVars, pipe, queued, depth, frame, open, asker, requests,
                 historyVars>>
-----------------------------------------------------------------------------
Init ==
  /\ pending_hash = NoHash /\ pending_response = NoHash
  /\ cached_response = NoHash /\ cached_valid = FALSE /\ render_event = FALSE
  /\ pipe = "idle" /\ queued = FALSE
  /\ depth = 0 /\ frame = [d \in Levels |-> Free]
  /\ owner = "foreign" /\ open = "no" /\ asker = 0
  /\ slotState = [f \in Format |-> "absent"]
  /\ slotData = [f \in Format |-> NoHash]
  /\ requests = {} /\ fresh = {} /\ announced = {}
  /\ answered = FALSE

PipeNext ==
  \/ \E h \in Hash : HandleAnnounceDelayed(h)
  \/ \E h \in Hash : DropFilesAnnouncement(h)
  \/ \E h \in Hash, bytes \in BOOLEAN : HandleProvideData(h, bytes)
  \/ \E kind \in {"SET", "GET"} : HandleRunSync(kind)

\* Everything the STA does on its own, its timeout excepted.
StaNext ==
  \/ AnnounceFormats \/ AnnounceFiles \/ WriteClipboard
  \/ ReadBegin \/ ReadRefused \/ ReadAsk \/ ReadCheck
  \/ RenderStart \/ SendDataRequest \/ WakeByEvent \/ AfterWake \/ PumpEnd
  \/ RenderToSlot \/ RenderAllStep

AppNext ==
  \/ AppOpen \/ AppClose \/ ForeignCopy
  \/ \E f \in Format : AppPaste(f)

Next == PipeNext \/ StaNext \/ RenderTimeout \/ RenderAllBegin \/ AppNext

Spec == Init /\ [][Next]_vars

\* Fairness.  The STA goes on running the activation on top of its stack; a
\* posted work item and the end of each inner pump are reached although sent
\* messages (WM_RENDERFORMAT) go first each time they arrive.
StaFairness ==
  /\ WF_vars(RenderStart \/ SendDataRequest \/ WakeByEvent \/ AfterWake
             \/ RenderToSlot \/ RenderAllStep \/ ReadAsk \/ ReadCheck)
  /\ \A d \in Levels : SF_vars(depth = d /\ PumpEnd)
  /\ SF_vars(AnnounceFormats \/ AnnounceFiles \/ WriteClipboard \/ ReadBegin
             \/ ReadRefused)

\* The parent answers every DATA_REQUEST it received.
ParentFairness ==
  \A h \in Hash : SF_vars(h \in requests /\ HandleProvideData(h, TRUE))

\* The deadline of each activation passes: GetTickCount is compared in every
\* round of its wait.
TimeoutFairness == \A d \in Levels : SF_vars(depth = d /\ RenderTimeout)

\* The same for a render that a read of our own asks for.
SelfReadTimeout ==
  \A d \in Levels :
    SF_vars(depth = d /\ (\E e \in 1..(d - 1) : frame[e].kind = "read") /\ RenderTimeout)

\* Either the parent answers, and then only a render inside a read of our own
\* may need its deadline; or nothing is known of the parent, and time passes.
LiveSpec ==
  Spec /\ StaFairness /\ \/ ParentFairness /\ SelfReadTimeout
                         \/ TimeoutFairness
-----------------------------------------------------------------------------
(* Properties *)

\* The STA's call stack: the activations are the first depth frames.
StackOK ==
  /\ depth \in 0..MaxDepth
  /\ frame \in [Levels -> FrameRec]
  /\ \A d \in Levels : frame[d].kind = "free" <=> d > depth

\* The RunSync handshake: the work queue only holds an item whose caller is
\* blocked on it, and so is the caller of the read that is running, which no
\* other activation dispatched.
RunSyncOK ==
  /\ queued => pipe # "idle"
  /\ pipe = "announce" => pending_hash \in Hash
  /\ \A d \in Levels : frame[d].kind = "read" => d = 1 /\ pipe = "GET" /\ ~queued

\* Type invariant, with the shape of the STA's call stack and of the RunSync
\* handshake.
TypeOK ==
  /\ pending_hash \in OptHash /\ pending_response \in OptHash
  /\ cached_response \in OptHash /\ cached_valid \in BOOLEAN
  /\ render_event \in BOOLEAN
  /\ pipe \in {"idle", "announce", "SET", "GET"} /\ queued \in BOOLEAN
  /\ StackOK /\ RunSyncOK
  /\ owner \in {"foreign", "hwnd", "ole"} /\ open \in {"no", "app", "sta"}
  /\ slotState \in [Format -> {"absent", "delayed", "full"}]
  /\ slotData \in [Format -> OptHash]
  /\ asker \in 0..MaxDepth
  /\ requests \subseteq Hash /\ fresh \subseteq Hash /\ announced \subseteq Hash
  /\ answered \in BOOLEAN

\* What a paste gets is never older than what the OS advertises: bytes in a
\* slot of ours belong to an announcement at least as recent as the one that
\* took the clipboard, and have the slot's type.  This is what the hash
\* comparisons in HandleProvideData and OnRenderFormat are for ("rendering
\* those for our original format would leak stale content to the paste app").
PasteFresh ==
  owner = "hwnd" =>
    \A f \in Format :
      slotState[f] = "full" /\ slotData[f] # NoHash =>
        slotData[f] \in fresh /\ ContentType[slotData[f]] = FormatType[f]

\* Bytes at hand, stored or cached, are always the pending announcement's.
ResponseCurrent ==
  /\ pending_response \in {NoHash, pending_hash}
  /\ cached_valid => pending_hash # NoHash /\ cached_response = pending_hash

\* A render past its snapshot holds an announcement of its format's type, and
\* what it is about to set are that announcement's bytes.
FramesCurrent ==
  \A d \in Active :
    frame[d].kind = "render" /\ frame[d].pc # "start" =>
      /\ frame[d].hash \in fresh
      /\ ContentType[frame[d].hash] = FormatType[frame[d].fmt]
      /\ frame[d].pc = "set" => frame[d].data = frame[d].hash

\* What is pending is no older than what the OS may ask for: while a slot is
\* delayed, and while a render is dispatched, nothing can have rewritten the
\* clipboard behind the pending announcement.
PendingFresh ==
  Held \/ (\E f \in Format : slotState[f] = "delayed") => pending_hash \in fresh

\* PasteFresh whoever owns the clipboard: the slots of a lost clipboard are gone.
SlotsFresh ==
  \A f \in Format :
    slotState[f] = "full" /\ slotData[f] # NoHash =>
      slotData[f] \in fresh /\ ContentType[slotData[f]] = FormatType[f]

\* The inductive strengthening of PasteFresh: how the hash comparisons of the
\* two threads and the refusal of ClipboardScope during a render together keep
\* every response, every activation and every slot on the same announcement.
ServeInv == ResponseCurrent /\ FramesCurrent /\ PendingFresh /\ SlotsFresh

\* Once the parent answered the pending announcement the bytes stay at hand
\* until it is replaced, whichever render took them first (a second format such
\* as CF_DIB after CF_DIBV5, a nested render and WM_RENDERALLFORMATS find them),
\* and as long as a response is stored so is its wake-up: HandleProvideData sets
\* both, and HandleAnnounceDelayed alone resets the event.
NoLostAnswer ==
  /\ answered => HaveData
  /\ pending_response # NoHash => render_event

\* A render that waits for the pending announcement is woken by bytes, or by
\* an answer to its own request: the event never carries over from something
\* older ("waits up to kRenderTimeout for a matching PROVIDE_DATA").
WakeMeansAnswer ==
  \A d \in Active :
    frame[d].pc = "wait" /\ frame[d].hash = pending_hash /\ render_event =>
      HaveData \/ frame[d].told

\* RunSync returns: no frame of the parent blocks the pipe thread for good.
RunSyncReturns == pipe # "idle" ~> pipe = "idle"

\* Every activation on the STA ends, so that the application that pasted gets
\* an answer.
RenderEnds == \A d \in Levels : depth >= d ~> depth < d
=============================================================================
