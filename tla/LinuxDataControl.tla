-------------------------- MODULE LinuxDataControl --------------------------
(***************************************************************************)
(* The Wayland clipboard of the Linux helper (linux/src/                   *)
(* clipboard_manager_wayland.cpp, and its twin clipboard_manager_ext.cpp): *)
(* the announcements and answers of the parent, on the socket thread; the  *)
(* data-control source and the compositor's events, on the main thread;    *)
(* and the detached workers that wait for an answer or drain another       *)
(* application's text.  The compositor, with the order-preserving queues   *)
(* of requests and events, and the applications are external.              *)
(*                                                                         *)
(* A key stands for the content it names: the content_hash of a delayed    *)
(* announcement, or the payload itself for SET_CLIPBOARD.  A source is     *)
(* numbered by its announcement, an offer by its creation, a foreign copy  *)
(* by its order.  content_kind is always the kind of current_hash.         *)
(***************************************************************************)
EXTENDS Naturals, Sequences

CONSTANTS
  Key, NoKey,
  Kind,         \* Key -> {"text", "image", "files"}
  Eager,        \* the keys of SET_CLIPBOARD
  MaxAnnounce,  \* bound: announcements
  MaxPaste,     \* bound: pastes
  MaxCopy,      \* bound: copies and selections of other applications
  Quits         \* whether the helper may quit

ASSUME KeyAssumption ==
  /\ NoKey \notin Key /\ Eager \subseteq Key
  /\ Kind \in [Key -> {"text", "image", "files"}]
  /\ \A k \in Eager : Kind[k] # "files"
  /\ MaxAnnounce \in Nat /\ MaxPaste \in Nat /\ MaxCopy \in Nat /\ Quits \in BOOLEAN

VARIABLES
  current_hash, pending_data,  \* WlrState, under its mutex
  cached_clipboard_text,       \* 0, or the copy whose text it is
  current_source,              \* 0, or the announcement it was created for
  live,                        \* source proxies that have not been destroyed
  offer_mimes,                 \* the offers tracked
  mainQueue,                   \* RecreateSource closures posted by the socket thread
  sending,                     \* main thread: the paste whose OnSourceSend runs, or 0
  paste,                       \* each paste with its worker
  drain,                       \* the worker of each foreign copy
  phase,                       \* "running", "quit", "detached", "destroyed"
  log,                         \* history: the keys announced
  asked,                       \* DATA_REQUESTs the parent has not answered
  echoed,                      \* history: an offer of our own was taken
  owner,                       \* the compositor: 0, or our source that is selected
  lastText,                    \* the copy whose text is selected, or 0
  offers, copies, toServer, toClient

stateVars == <<current_hash, pending_data, log>>
mainVars == <<current_source, live, offer_mimes, mainQueue, echoed>>
serverVars == <<owner, lastText, offers, copies, toServer, toClient>>
vars == <<stateVars, mainVars, serverVars, cached_clipboard_text, sending, paste, drain,
          phase, asked>>

Pastes == 1..MaxPaste
Copies == 1..MaxCopy
OptKey == Key \cup {NoKey}

\* Who made an offer; n is the copy, for a selection of another application.
Offer == [id : Nat \ {0}, from : {"us", "app"}, text : BOOLEAN, n : Copies \cup {0}]

Event ==
  [type : {"send"}, paste : Pastes] \cup [type : {"cancelled"}, source : 1..MaxAnnounce]
    \cup [type : {"data_offer", "selection", "primary"}, offer : Offer]
    \cup [type : {"cleared"}]

NoPaste == [pc |-> "none", source |-> 0, mime |-> "text", hash |-> NoKey, since |-> 0,
            got |-> NoKey, awake |-> FALSE]

\* notify_all: every worker blocked in wait_for looks at its predicate again.
NotifyAll == [p \in Pastes |-> [paste[p] EXCEPT !.awake = (paste[p].pc = "wait")]]
-----------------------------------------------------------------------------
(* The socket thread *)

\* SetClipboardText and SetClipboardImage bring the bytes, AnnounceDelayed*
\* clears them; both have the main thread recreate the source.
Announce(k) ==
  /\ phase = "running" /\ Len(log) < MaxAnnounce
  /\ current_hash' = k
  /\ pending_data' = IF k \in Eager THEN k ELSE NoKey
  /\ log' = Append(log, k)
  /\ mainQueue' = Append(mainQueue, Len(log) + 1)
  /\ paste' = NotifyAll
  /\ UNCHANGED <<current_source, live, offer_mimes, echoed, serverVars,
                 cached_clipboard_text, sending, drain, phase, asked>>

\* The parent may answer what it announced, asked or not, late or again.
Announced(h) == h \notin Eager /\ \E i \in 1..Len(log) : log[i] = h

\* Mutant: the hash is not compared.
ProvideDataUnchecked(h) ==
  /\ phase = "running" /\ Announced(h)
  /\ asked' = asked \ {h}
  /\ pending_data' = h
  /\ paste' = NotifyAll
  /\ UNCHANGED <<current_hash, log, mainVars, serverVars, cached_clipboard_text, sending,
                 drain, phase>>

\* Mutant: the workers are not notified.
ProvideDataSilently(h) ==
  /\ phase = "running" /\ Announced(h)
  /\ asked' = asked \ {h}
  /\ pending_data' = IF h = current_hash THEN h ELSE pending_data
  /\ UNCHANGED <<paste, current_hash, log, mainVars, serverVars, cached_clipboard_text,
                 sending, drain, phase>>

\* Bytes of another announcement are discarded, and the workers notified.
ProvideData(h) ==
  /\ phase = "running" /\ Announced(h)
  /\ asked' = asked \ {h}
  /\ pending_data' = IF h = current_hash THEN h ELSE pending_data
  /\ paste' = NotifyAll
  /\ UNCHANGED <<current_hash, log, mainVars, serverVars, cached_clipboard_text, sending,
                 drain, phase>>
-----------------------------------------------------------------------------
(* The main thread *)

MainIdle == phase = "running" /\ sending = 0

\* Mutant: the old source is left for the compositor to cancel.
RecreateSourceKeepingOld ==
  /\ MainIdle /\ mainQueue # <<>>
  /\ LET s == Head(mainQueue) IN
     /\ current_source' = s
     /\ live' = live \cup {s}
     /\ toServer' = Append(toServer, [req |-> "set_selection", source |-> s])
  /\ mainQueue' = Tail(mainQueue)
  /\ UNCHANGED <<stateVars, offer_mimes, echoed, owner, lastText, offers, copies, toClient,
                 cached_clipboard_text, sending, paste, drain, phase, asked>>

DestroySource ==
  IF current_source = 0 THEN <<>> ELSE <<[req |-> "destroy", source |-> current_source]>>

\* The previous source is destroyed before its successor is created.
RecreateSource ==
  /\ MainIdle /\ mainQueue # <<>>
  /\ LET s == Head(mainQueue) IN
     /\ current_source' = s
     /\ live' = (live \ {current_source}) \cup {s}
     /\ toServer' = toServer \o DestroySource
                             \o <<[req |-> "set_selection", source |-> s]>>
  /\ mainQueue' = Tail(mainQueue)
  /\ UNCHANGED <<stateVars, offer_mimes, echoed, owner, lastText, offers, copies, toClient,
                 cached_clipboard_text, sending, paste, drain, phase, asked>>

Dispatch(type) == MainIdle /\ toClient # <<>> /\ Head(toClient).type = type

Dispatched == toClient' = Tail(toClient)

\* What a paste gets of the bytes of k: an image is converted to the MIME type
\* asked for, and to nothing for another; text and paths are written as such.
Materialise(k, mime) == IF Kind[k] = "image" /\ mime # "image" THEN NoKey ELSE k

Close(p, k) == paste' = [paste EXCEPT ![p].pc = "done", ![p].got = k, ![p].awake = FALSE]

\* OnSourceSend with the bytes at hand.
OnSourceSendEager ==
  /\ Dispatch("send")
  /\ LET p == Head(toClient).paste IN
     /\ paste[p].source \in live
     /\ pending_data # NoKey
     /\ Close(p, Materialise(pending_data, paste[p].mime))
  /\ Dispatched
  /\ UNCHANGED <<stateVars, mainVars, owner, lastText, offers, copies, toServer,
                 cached_clipboard_text, sending, drain, phase, asked>>

\* OnSourceSend up to its unlock: the worker will wait for current_hash.
OnSourceSend ==
  /\ Dispatch("send")
  /\ LET p == Head(toClient).paste IN
     /\ paste[p].source \in live
     /\ pending_data = NoKey
     /\ paste' = [paste EXCEPT ![p].pc = "asking", ![p].hash = current_hash,
                            ![p].since = Len(log)]
     /\ sending' = p
  /\ Dispatched
  /\ UNCHANGED <<stateVars, mainVars, owner, lastText, offers, copies, toServer,
                 cached_clipboard_text, drain, phase, asked>>

\* The DATA_REQUEST, and the worker, which looks before it waits.
SpawnWorker ==
  /\ sending # 0
  /\ asked' = asked \cup {paste[sending].hash}
  /\ paste' = [paste EXCEPT ![sending].pc = "wait", ![sending].awake = TRUE]
  /\ sending' = 0
  /\ UNCHANGED <<stateVars, mainVars, serverVars, cached_clipboard_text, drain, phase>>

\* An event of a source that was destroyed meanwhile is not delivered;
\* libwayland closes the descriptor it carries.
SendDiscarded ==
  /\ Dispatch("send")
  /\ LET p == Head(toClient).paste IN
     /\ paste[p].source \notin live
     /\ Close(p, NoKey)
  /\ Dispatched
  /\ UNCHANGED <<stateVars, mainVars, owner, lastText, offers, copies, toServer,
                 cached_clipboard_text, sending, drain, phase, asked>>

\* Mutant: the source is kept.
OnSourceCancelledKeeping ==
  /\ Dispatch("cancelled")
  /\ Dispatched
  /\ UNCHANGED <<stateVars, mainVars, owner, lastText, offers, copies, toServer,
                 cached_clipboard_text, sending, paste, drain, phase, asked>>

\* Whichever live source was cancelled, the current one is destroyed.
OnSourceCancelled ==
  /\ Dispatch("cancelled")
  /\ IF Head(toClient).source \in live
     THEN /\ toServer' = toServer \o DestroySource
          /\ live' = live \ {current_source}
          /\ current_source' = 0
     ELSE UNCHANGED <<toServer, live, current_source>>
  /\ Dispatched
  /\ UNCHANGED <<stateVars, offer_mimes, mainQueue, echoed, owner, lastText, offers, copies,
                 cached_clipboard_text, sending, paste, drain, phase, asked>>

OnDeviceDataOffer ==
  /\ Dispatch("data_offer")
  /\ offer_mimes' = offer_mimes \cup {Head(toClient).offer}
  /\ Dispatched
  /\ UNCHANGED <<stateVars, current_source, live, mainQueue, echoed, owner, lastText,
                 offers, copies, toServer, cached_clipboard_text, sending, paste, drain, phase, asked>>

\* OnDeviceSelection: with a source of our own it is an echo; else a text is
\* drained by a worker, or lost when pipe2 fails.  Every tracked offer is destroyed.
OnDeviceSelection ==
  /\ Dispatch("selection")
  /\ LET o == Head(toClient).offer IN
     IF current_source # 0 \/ o \notin offer_mimes \/ ~o.text THEN UNCHANGED <<drain, echoed>>
     ELSE \E d \in {"reading", "lost"} :
            /\ drain' = IF o.from = "app" THEN [drain EXCEPT ![o.n] = d] ELSE drain
            /\ echoed' = (echoed \/ o.from = "us")
  /\ offer_mimes' = {}
  /\ Dispatched
  /\ UNCHANGED <<stateVars, current_source, live, mainQueue, owner, lastText, offers, copies, toServer,
                 cached_clipboard_text, sending, paste, phase, asked>>

\* OnDeviceSelection(nullptr).
OnSelectionCleared ==
  /\ Dispatch("cleared")
  /\ cached_clipboard_text' = 0
  /\ offer_mimes' = {}
  /\ Dispatched
  /\ UNCHANGED <<stateVars, current_source, live, mainQueue, echoed, owner, lastText, offers, copies,
                 toServer, sending, paste, drain, phase, asked>>

\* The offer of a primary selection is destroyed; it stays in offer_mimes_.
OnPrimarySelection ==
  /\ Dispatch("primary")
  /\ Dispatched
  /\ UNCHANGED <<stateVars, mainVars, owner, lastText, offers, copies, toServer,
                 cached_clipboard_text, sending, paste, drain, phase, asked>>

\* The event loop ends, between two events; the socket thread is joined.
Quit ==
  /\ Quits /\ MainIdle
  /\ phase' = "quit"
  /\ UNCHANGED <<stateVars, mainVars, serverVars, cached_clipboard_text, sending, paste,
                 drain, asked>>

\* Dispatcher::Detach takes the callbacks away.
Detach ==
  /\ phase = "quit"
  /\ phase' = "detached"
  /\ UNCHANGED <<stateVars, mainVars, serverVars, cached_clipboard_text, sending, paste,
                 drain, asked>>

\* The destructor: stop, notify_all and the Wayland objects.
Destroy ==
  /\ phase = "detached"
  /\ phase' = "destroyed"
  /\ paste' = NotifyAll
  /\ offer_mimes' = {}
  /\ toServer' = toServer \o DestroySource
  /\ current_source' = 0 /\ live' = live \ {current_source}
  /\ UNCHANGED <<stateVars, mainQueue, echoed, owner, lastText, offers, copies, toClient,
                 cached_clipboard_text, sending, drain, asked>>
-----------------------------------------------------------------------------
(* The workers *)

\* WaitAndWriteOnWorker looks at its predicate, under the mutex: it bails out,
\* writes, or waits on.
WorkerCheck(p) ==
  /\ paste[p].pc = "wait" /\ paste[p].awake
  /\ IF phase = "destroyed" THEN Close(p, NoKey)
     ELSE IF pending_data # NoKey /\ pending_data = paste[p].hash
     THEN Close(p, Materialise(pending_data, paste[p].mime))
     ELSE paste' = [paste EXCEPT ![p].awake = FALSE]
  /\ UNCHANGED <<stateVars, mainVars, serverVars, cached_clipboard_text, sending, drain,
                 phase, asked>>

\* kProvideDataWait is over; wait_for looks once more.
WorkerTimeout(p) ==
  /\ paste[p].pc = "wait" /\ ~paste[p].awake
  /\ Close(p, IF phase # "destroyed" /\ pending_data # NoKey /\ pending_data = paste[p].hash
              THEN Materialise(pending_data, paste[p].mime) ELSE NoKey)
  /\ UNCHANGED <<stateVars, mainVars, serverVars, cached_clipboard_text, sending, drain,
                 phase, asked>>

\* DrainAndDispatchOnWorker: the text is cached and the callback copied under
\* the mutex; a read error, or the stop flag seen before it, ends the worker.
DrainStore(n) ==
  /\ drain[n] = "reading"
  /\ \/ /\ cached_clipboard_text' = n
        /\ drain' = [drain EXCEPT ![n] = IF phase \in {"running", "quit"} THEN "calling"
                                         ELSE "done"]
     \/ /\ drain' = [drain EXCEPT ![n] = "done"]
        /\ UNCHANGED cached_clipboard_text
  /\ UNCHANGED <<stateVars, mainVars, serverVars, sending, paste, phase, asked>>

\* The callback: CLIPBOARD_CHANGED.
DrainCall(n) ==
  /\ drain[n] = "calling"
  /\ drain' = [drain EXCEPT ![n] = "done"]
  /\ UNCHANGED <<stateVars, mainVars, serverVars, cached_clipboard_text, sending, paste,
                 phase, asked>>
-----------------------------------------------------------------------------
(* External: the compositor and the applications, while the event loop runs: *)
(* nothing they do later is dispatched.                                      *)

\* A new selection: its offer is introduced, then selected.
Offered(o) == <<[type |-> "data_offer", offer |-> o], [type |-> "selection", offer |-> o]>>

\* The previous owner, if it is us, is told that its source is cancelled.
Cancelled ==
  IF owner > 0 THEN <<[type |-> "cancelled", source |-> owner]>> ELSE <<>>

ServerSetSelection ==
  /\ phase = "running" /\ toServer # <<>> /\ Head(toServer).req = "set_selection"
  /\ LET s == Head(toServer).source
         o == [id |-> offers + 1, from |-> "us", text |-> Kind[log[s]] = "text", n |-> 0] IN
     /\ owner' = s /\ lastText' = 0
     /\ offers' = offers + 1
     /\ toClient' = toClient \o Cancelled \o Offered(o)
  /\ toServer' = Tail(toServer)
  /\ UNCHANGED <<stateVars, mainVars, copies, cached_clipboard_text, sending, paste, drain,
                 phase, asked>>

ServerDestroy ==
  /\ phase = "running" /\ toServer # <<>> /\ Head(toServer).req = "destroy"
  /\ IF owner = Head(toServer).source
     THEN owner' = 0 /\ toClient' = Append(toClient, [type |-> "cleared"])
     ELSE UNCHANGED <<owner, toClient>>
  /\ toServer' = Tail(toServer)
  /\ UNCHANGED <<stateVars, mainVars, lastText, offers, copies, cached_clipboard_text, sending, paste,
                 drain, phase, asked>>

\* Another application copies, text or something else.
AppCopy(text) ==
  /\ phase = "running" /\ copies < MaxCopy
  /\ copies' = copies + 1
  /\ owner' = 0 /\ lastText' = IF text THEN copies + 1 ELSE 0
  /\ offers' = offers + 1
  /\ toClient' = toClient \o Cancelled
       \o Offered([id |-> offers + 1, from |-> "app", text |-> text, n |-> copies + 1])
  /\ UNCHANGED <<stateVars, mainVars, toServer, cached_clipboard_text, sending, paste, drain,
                 phase, asked>>

\* Another application selects something: the primary selection changes.
AppSelect ==
  /\ phase = "running" /\ copies < MaxCopy
  /\ copies' = copies + 1
  /\ offers' = offers + 1
  /\ LET o == [id |-> offers + 1, from |-> "app", text |-> TRUE, n |-> 0] IN
     toClient' = toClient \o <<[type |-> "data_offer", offer |-> o],
                               [type |-> "primary", offer |-> o]>>
  /\ UNCHANGED <<stateVars, mainVars, owner, lastText, toServer, cached_clipboard_text, sending, paste,
                 drain, phase, asked>>

\* An application pastes from us, in a MIME type our source offers.
AppPaste(p) ==
  /\ phase = "running" /\ owner > 0 /\ paste[p].pc = "none"
  /\ p > 1 => paste[p - 1].pc # "none"
  /\ paste' = [paste EXCEPT ![p].pc = "sent", ![p].source = owner,
                            ![p].mime = Kind[log[owner]]]
  /\ toClient' = Append(toClient, [type |-> "send", paste |-> p])
  /\ UNCHANGED <<stateVars, mainVars, owner, lastText, offers, copies, toServer, cached_clipboard_text,
                 sending, drain, phase, asked>>
-----------------------------------------------------------------------------
Init ==
  /\ current_hash = NoKey /\ pending_data = NoKey /\ cached_clipboard_text = 0
  /\ current_source = 0 /\ live = {} /\ offer_mimes = {} /\ mainQueue = <<>>
  /\ sending = 0 /\ paste = [p \in Pastes |-> NoPaste]
  /\ drain = [n \in Copies |-> "none"]
  /\ phase = "running" /\ log = <<>> /\ asked = {}
  /\ echoed = FALSE /\ owner = 0 /\ lastText = 0 /\ offers = 0 /\ copies = 0 /\ toServer = <<>> /\ toClient = <<>>

MainNext ==
  \/ RecreateSource \/ OnSourceSendEager \/ OnSourceSend \/ SpawnWorker \/ SendDiscarded
  \/ OnSourceCancelled \/ OnDeviceDataOffer \/ OnDeviceSelection \/ OnSelectionCleared
  \/ OnPrimarySelection

ServerNext == ServerSetSelection \/ ServerDestroy

Next ==
  \/ \E k \in Key : Announce(k) \/ ProvideData(k)
  \/ MainNext \/ Quit \/ Detach \/ Destroy
  \/ \E p \in Pastes : WorkerCheck(p) \/ WorkerTimeout(p) \/ AppPaste(p)
  \/ \E n \in Copies : DrainStore(n) \/ DrainCall(n)
  \/ ServerNext \/ AppCopy(TRUE) \/ AppCopy(FALSE) \/ AppSelect

Spec == Init /\ [][Next]_vars

\* The main thread, the compositor and the workers run, and the parent answers
\* what it is asked.  No timeout is assumed to expire.
FairSpec ==
  /\ Spec /\ WF_vars(MainNext) /\ WF_vars(ServerNext)
  /\ \A p \in Pastes : WF_vars(WorkerCheck(p))
  /\ \A h \in Key : WF_vars(h \in asked /\ ProvideData(h))
-----------------------------------------------------------------------------
(* Properties *)

\* Type invariant.  The current source is the only one alive.
TypeOK ==
  /\ current_hash \in OptKey /\ pending_data \in {NoKey, current_hash}
  /\ cached_clipboard_text \in 0..MaxCopy
  /\ live \subseteq {current_source} \ {0}
  /\ offer_mimes \subseteq Offer /\ echoed \in BOOLEAN
  /\ mainQueue \in Seq(1..MaxAnnounce) /\ sending \in 0..MaxPaste
  /\ \A p \in Pastes :
       /\ paste[p].pc \in {"none", "sent", "asking", "wait", "done"}
       /\ paste[p].source \in 0..MaxAnnounce /\ paste[p].since \in 0..Len(log)
       /\ paste[p].hash \in OptKey /\ paste[p].got \in OptKey
  /\ drain \in [Copies -> {"none", "lost", "reading", "calling", "done"}]
  /\ phase \in {"running", "quit", "detached", "destroyed"}
  /\ log \in Seq(Key) /\ asked \subseteq Key
  /\ toClient \in Seq(Event) /\ owner \in 0..MaxAnnounce

\* What a paste gets is never older than the source it pasted from: "content_hash
\* is strictly compared on every PROVIDE_DATA against the current pending
\* announcement".
PasteFresh ==
  \A p \in Pastes :
    paste[p].got # NoKey => \E i \in paste[p].source..Len(log) : log[i] = paste[p].got

\* Our own selection is never mistaken for a copy of the user's, although only
\* current_source_ is looked at: implementations "must suppress callbacks for
\* changes triggered by our own SetClipboardText / AnnounceDelayed calls".
EchoSuppressed == ~echoed

Quiet == phase = "running" /\ mainQueue = <<>> /\ toServer = <<>> /\ toClient = <<>>

\* When all is quiet, the helper has a source exactly while it owns the
\* clipboard (a cancelled event never hits a source created after it was sent,
\* and none is missed), and echo suppression has swallowed no copy: a text of
\* another application on the clipboard has been taken for CLIPBOARD_CHANGED, by
\* a worker or in vain, when OnDeviceSelection got no pipe for it.
OwnershipAgrees ==
  Quiet => /\ owner = current_source
           /\ owner = 0 /\ lastText # 0 => drain[lastText] # "none"

\* A paste gets its answer without a timeout until something else is
\* announced: no wake-up and no DATA_REQUEST is lost.
PasteServed ==
  \A p \in Pastes :
    paste[p].pc \in {"asking", "wait"} ~>
      paste[p].pc = "done" \/ paste[p].since # Len(log) \/ phase # "running"

\* A paste as an application sees it.
Seen(p) ==
  [pc |-> IF paste[p].pc \in {"none", "done"} THEN paste[p].pc ELSE "open",
   on |-> paste[p].source, answer |-> paste[p].got]

Lazy == INSTANCE LazyClipboard
  WITH Content <- Key, Nothing <- NoKey, Paste <- Pastes, announced <- log,
       paste <- [p \in Pastes |-> Seen(p)]

\* The backend implements a lazy clipboard: whatever is posted, queued, raced
\* for or destroyed in between, a paste is answered once, after it began, with
\* nothing or with what was announced since, and announcements are never lost.
ImplementsLazy == Lazy!Spec

\* A worker whose announcement was replaced does not wait any longer: blocked
\* workers "observe the replaced hash and exit via the Stale path".
SupersededDrained ==
  \A p \in Pastes :
    paste[p].pc = "wait" /\ paste[p].hash # current_hash ~> paste[p].pc = "done"
=============================================================================
