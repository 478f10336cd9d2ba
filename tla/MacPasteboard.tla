--------------------------- MODULE MacPasteboard ---------------------------
(***************************************************************************)
(* The pasteboard manager of the macOS helper (macos/Sources/              *)
(* ClipboardHelper/PasteboardManager.swift): announcements, SET_CLIPBOARD, *)
(* polling and the data-provider callbacks on the main thread, which       *)
(* blocks in a render of text or an image and spins the run loop, nested,  *)
(* in a render of files; PROVIDE_DATA on the socket queue.  The            *)
(* pasteboard, the applications and the parent are external.               *)
(*                                                                         *)
(* A key stands for a content and for its content_hash.  An announcement   *)
(* is numbered by its order; the code knows it by its hash only.  The      *)
(* pre-rendered TIFF is a conversion of renderedData and always set and    *)
(* cleared with it.                                                        *)
(***************************************************************************)
EXTENDS Integers, Sequences

CONSTANTS
  Key, NoKey,
  Other,        \* a content the parent never had
  Kind,         \* Key -> {"text", "files"}; an image is rendered like a text
  Eager,        \* the keys of SET_CLIPBOARD; the others are announced
  MaxAnnounce,  \* bound: ANNOUNCE_DELAYED and SET_CLIPBOARD frames
  MaxPaste,     \* bound: data-provider callbacks
  MaxCopy,      \* bound: copies of other applications
  MaxSignals,   \* bound: signals the semaphore holds
  Cancels       \* whether the user may press Cancel

ASSUME PasteboardAssumption ==
  /\ NoKey \notin Key /\ Other \notin Key \cup {NoKey} /\ Eager \subseteq Key
  /\ Kind \in [Key -> {"text", "files"}]
  /\ \A k \in Eager : Kind[k] = "text"
  /\ MaxAnnounce \in Nat /\ MaxPaste \in Nat /\ MaxCopy \in Nat
  /\ MaxSignals \in Nat \ {0} /\ Cancels \in BOOLEAN

VARIABLES
  pendingAnnouncement,                     \* 0, or the announcement (stateLock)
  renderedData, isRequestInFlight,         \* under stateLock
  renderSemaphore,                         \* its value
  fileDownloadPaths,                       \* NoKey, or whose paths (condition lock)
  fileDownloadTriggered, fileDownloadCancelled,
  lastSetHash, lastChangeCount,            \* main thread
  stack,                                   \* main thread: the handlers it is inside of
  panel,                                   \* whether the progress panel is shown
  signalling,                              \* socket queue: between unlock and signal()
  asked,                                   \* keys of the DATA_REQUESTs not yet answered
  contents, changeCount, ownerLost,        \* external: the pasteboard
  log, paste, copy, reported, missed       \* histories

lockVars == <<pendingAnnouncement, renderedData, isRequestInFlight>>
fileVars == <<fileDownloadPaths, fileDownloadTriggered, fileDownloadCancelled>>
boardVars == <<contents, changeCount, ownerLost, copy>>
pollVars == <<lastChangeCount, reported, missed>>
vars == <<lockVars, fileVars, boardVars, pollVars, renderSemaphore, lastSetHash, stack,
          panel, signalling, asked, log, paste>>

\* What the pasteboard holds: nothing known, an announcement, bytes that were
\* set, or the n-th copy of another application.
Contents(from, n) == [from |-> from, n |-> n]

Top == stack[Len(stack)]
Pop == SubSeq(stack, 1, Len(stack) - 1)

\* The main thread takes events: it is idle, or a render of files spins the run
\* loop (nextEvent and sendEvent, or RunLoop.run).
MainRuns == stack # <<>> => Top.pc \in {"primary", "secondary"}

KeyOf(n) == IF n = 0 THEN NoKey ELSE log[n]

Init ==
  /\ pendingAnnouncement = 0 /\ renderedData = NoKey /\ isRequestInFlight = FALSE
  /\ renderSemaphore = 0
  /\ fileDownloadPaths = NoKey /\ fileDownloadTriggered = FALSE
  /\ fileDownloadCancelled = FALSE
  /\ lastSetHash = NoKey /\ lastChangeCount = 0 /\ stack = <<>> /\ panel = FALSE
  /\ signalling = 0 /\ asked = {}
  /\ contents = Contents("none", 0) /\ changeCount = 0 /\ ownerLost = FALSE
  /\ log = <<>> /\ paste = <<>> /\ copy = <<>> /\ reported = {} /\ missed = {}
-----------------------------------------------------------------------------
(* The main thread: frames of the parent *)

\* setClipboard up to its write; pendingAnnouncement stays.
SetClipboard(k) ==
  /\ MainRuns /\ k \in Eager /\ Len(log) < MaxAnnounce
  /\ log' = Append(log, k)
  /\ lastSetHash' = k
  /\ contents' = Contents("set", Len(log) + 1) /\ changeCount' = changeCount + 1
  /\ ownerLost' = FALSE
  /\ stack' = Append(stack, [pc |-> "record", paste |-> 0])
  /\ UNCHANGED <<lockVars, fileVars, copy, pollVars, renderSemaphore, panel, signalling, asked,
                 paste>>

\* announceDelayed up to its unlock.
AnnounceDelayed(k) ==
  /\ MainRuns /\ k \notin Eager /\ Len(log) < MaxAnnounce
  /\ log' = Append(log, k)
  /\ pendingAnnouncement' = Len(log) + 1
  /\ renderedData' = NoKey /\ isRequestInFlight' = FALSE
  /\ lastSetHash' = k
  /\ stack' = Append(stack, [pc |-> "declare", paste |-> 0])
  /\ UNCHANGED <<fileVars, boardVars, pollVars, renderSemaphore, panel, signalling, asked,
                 paste>>

\* The rest of announceDelayed: signals are drained, and types declared for an
\* owner or, for files, the download is reset and the items written.
Declare ==
  /\ stack # <<>> /\ Top.pc = "declare"
  /\ renderSemaphore' = 0
  /\ IF Kind[log[Len(log)]] = "files"
     THEN /\ renderedData' = NoKey /\ isRequestInFlight' = FALSE
          /\ fileDownloadPaths' = NoKey /\ fileDownloadTriggered' = FALSE
          /\ fileDownloadCancelled' = FALSE
     ELSE UNCHANGED <<renderedData, isRequestInFlight, fileVars>>
  /\ contents' = Contents("announced", Len(log)) /\ changeCount' = changeCount + 1
  /\ ownerLost' = FALSE
  /\ stack' = Append(Pop, [pc |-> "record", paste |-> 0])
  /\ UNCHANGED <<pendingAnnouncement, copy, pollVars, lastSetHash, panel, signalling, asked, log,
                 paste>>

\* Mutant: the change counter is not looked at after the write.
RecordNothing ==
  /\ stack # <<>> /\ Top.pc = "record"
  /\ stack' = Pop
  /\ UNCHANGED <<lockVars, fileVars, boardVars, pollVars, renderSemaphore, lastSetHash, panel,
                 signalling, asked, log, paste>>

\* lastChangeCount = pasteboard.changeCount, read after the write: a copy made
\* in between is taken for our own (missed).
RecordChangeCount ==
  /\ stack # <<>> /\ Top.pc = "record"
  /\ lastChangeCount' = changeCount
  /\ missed' = IF contents.from = "copy" THEN missed \cup {contents.n} ELSE missed
  /\ stack' = Pop
  /\ UNCHANGED <<lockVars, fileVars, boardVars, reported, renderSemaphore, lastSetHash, panel,
                 signalling, asked, log, paste>>

\* pasteboardChangedOwner, for types declared with an owner.
PasteboardChangedOwner ==
  /\ MainRuns /\ ownerLost
  /\ ownerLost' = FALSE
  /\ pendingAnnouncement' = 0 /\ renderedData' = NoKey /\ isRequestInFlight' = FALSE
  /\ renderSemaphore' = 0
  /\ UNCHANGED <<fileVars, contents, changeCount, copy, pollVars, lastSetHash, stack, panel,
                 signalling, asked, log, paste>>

\* Mutant: whatever changes while an announcement is pending is an echo.
CheckForChangesPending ==
  /\ MainRuns /\ changeCount # lastChangeCount
  /\ lastChangeCount' = changeCount
  /\ reported' = IF contents.from = "copy" /\ pendingAnnouncement = 0
                 THEN reported \cup {contents.n} ELSE reported
  /\ UNCHANGED <<lockVars, fileVars, boardVars, missed, renderSemaphore, lastSetHash, stack,
                 panel, signalling, asked, log, paste>>

\* checkForChanges with readPasteboard: a content with the hash set last is
\* an echo.  (Our own contents are never read here, see NoSelfRead.)
CheckForChanges ==
  /\ MainRuns /\ changeCount # lastChangeCount
  /\ lastChangeCount' = changeCount
  /\ reported' = IF contents.from = "copy" /\ copy[contents.n] # lastSetHash
                 THEN reported \cup {contents.n} ELSE reported
  /\ UNCHANGED <<lockVars, fileVars, boardVars, missed, renderSemaphore, lastSetHash, stack,
                 panel, signalling, asked, log, paste>>
-----------------------------------------------------------------------------
(* The main thread: data-provider callbacks *)

\* A callback for the announcement on the pasteboard; at is the announcement
\* the code finds pending.
Pasted(done, got) ==
  Append(paste, [item |-> contents.n, at |-> pendingAnnouncement, done |-> done, got |-> got])

\* writeDataToPasteboard: the paste gets k.
Got(p, k) == [paste EXCEPT ![p].done = TRUE, ![p].got = k]

CanPaste(kind) ==
  /\ MainRuns /\ Len(paste) < MaxPaste
  /\ contents.from = "announced" /\ Kind[log[contents.n]] = kind

\* provideDataForType with nothing pending (any more), another kind pending,
\* or the bytes at hand.
ProvideCached ==
  /\ CanPaste("text")
  /\ LET known == pendingAnnouncement # 0 /\ Kind[KeyOf(pendingAnnouncement)] = "text" IN
     /\ known => renderedData # NoKey
     /\ paste' = Pasted(TRUE, IF known THEN renderedData ELSE NoKey)
  /\ UNCHANGED <<lockVars, fileVars, boardVars, pollVars, renderSemaphore, lastSetHash, stack,
                 panel, signalling, asked, log>>

\* Mutant: the request is not sent.
ProvideDataForTypeAskingNone ==
  /\ CanPaste("text")
  /\ pendingAnnouncement # 0 /\ Kind[KeyOf(pendingAnnouncement)] = "text"
  /\ renderedData = NoKey
  /\ isRequestInFlight' = TRUE
  /\ paste' = Pasted(FALSE, NoKey)
  /\ stack' = Append(stack, [pc |-> "render", paste |-> Len(paste) + 1])
  /\ UNCHANGED <<pendingAnnouncement, renderedData, fileVars, boardVars, pollVars,
                 renderSemaphore, lastSetHash, panel, signalling, asked, log>>

\* provideDataForType up to its wait: one DATA_REQUEST is in flight at a time.
ProvideDataForType ==
  /\ CanPaste("text")
  /\ pendingAnnouncement # 0 /\ Kind[KeyOf(pendingAnnouncement)] = "text"
  /\ renderedData = NoKey
  /\ isRequestInFlight' = TRUE
  /\ asked' = IF isRequestInFlight THEN asked ELSE asked \cup {KeyOf(pendingAnnouncement)}
  /\ paste' = Pasted(FALSE, NoKey)
  /\ stack' = Append(stack, [pc |-> "render", paste |-> Len(paste) + 1])
  /\ UNCHANGED <<pendingAnnouncement, renderedData, fileVars, boardVars, pollVars,
                 renderSemaphore, lastSetHash, panel, signalling, log>>

\* The wait returns: the bytes are read again, there may be none.
RenderWoken ==
  /\ stack # <<>> /\ Top.pc = "render" /\ renderSemaphore > 0
  /\ renderSemaphore' = renderSemaphore - 1
  /\ paste' = Got(Top.paste, renderedData)
  /\ stack' = Pop
  /\ UNCHANGED <<lockVars, fileVars, boardVars, pollVars, lastSetHash, panel, signalling, asked,
                 log>>

\* Mutant: the callback is not left when its time is over.
RenderTimedOutStaying ==
  /\ stack # <<>> /\ Top.pc = "render" /\ renderSemaphore = 0
  /\ paste' = Got(Top.paste, NoKey)
  /\ UNCHANGED <<lockVars, fileVars, boardVars, pollVars, renderSemaphore, lastSetHash, stack,
                 panel, signalling, asked, log>>

\* Ten seconds are over; isRequestInFlight stays.
RenderTimedOut ==
  /\ stack # <<>> /\ Top.pc = "render" /\ renderSemaphore = 0
  /\ paste' = Got(Top.paste, NoKey)
  /\ stack' = Pop
  /\ UNCHANGED <<lockVars, fileVars, boardVars, pollVars, renderSemaphore, lastSetHash, panel,
                 signalling, asked, log>>

\* The provider of a file URL, with the download done, or without a pending
\* announcement of files.
ProvideFileCached ==
  /\ CanPaste("files")
  /\ LET known == pendingAnnouncement # 0 /\ Kind[KeyOf(pendingAnnouncement)] = "files" IN
     /\ known => fileDownloadPaths # NoKey
     /\ paste' = Pasted(TRUE, IF known THEN fileDownloadPaths ELSE NoKey)
     /\ panel' = (panel \/ known)
  /\ UNCHANGED <<lockVars, fileVars, boardVars, pollVars, renderSemaphore, lastSetHash, stack,
                 signalling, asked, log>>

\* ensureFilesDownloaded: the first caller asks, later ones wait for it.
EnsureFilesDownloaded ==
  /\ CanPaste("files")
  /\ pendingAnnouncement # 0 /\ Kind[KeyOf(pendingAnnouncement)] = "files"
  /\ fileDownloadPaths = NoKey
  /\ panel' = TRUE
  /\ fileDownloadTriggered' = TRUE
  /\ asked' = IF fileDownloadTriggered THEN asked ELSE asked \cup {KeyOf(pendingAnnouncement)}
  /\ paste' = Pasted(FALSE, NoKey)
  /\ stack' = Append(stack, [pc |-> IF fileDownloadTriggered THEN "secondary" ELSE "primary",
                             paste |-> Len(paste) + 1])
  /\ UNCHANGED <<lockVars, fileDownloadPaths, fileDownloadCancelled, boardVars, pollVars,
                 renderSemaphore, lastSetHash, signalling, log>>

IsStillCurrent(p) == KeyOf(pendingAnnouncement) = log[paste[p].at]

\* One turn of the first caller's loop that ends it: cancelled, completed by
\* a signal, or superseded.
PrimaryEnds ==
  /\ stack # <<>> /\ Top.pc = "primary"
  /\ LET p == Top.paste
         completed == ~fileDownloadCancelled /\ renderSemaphore > 0
         paths == IF completed /\ IsStillCurrent(p) /\ renderedData # NoKey
                  THEN renderedData ELSE fileDownloadPaths IN
     /\ fileDownloadCancelled \/ renderSemaphore > 0 \/ ~IsStillCurrent(p)
     /\ renderSemaphore' = IF completed THEN renderSemaphore - 1 ELSE renderSemaphore
     /\ fileDownloadPaths' = paths
     /\ paste' = Got(p, paths)
  /\ stack' = Pop
  /\ UNCHANGED <<lockVars, fileDownloadTriggered, fileDownloadCancelled, boardVars, pollVars,
                 lastSetHash, panel, signalling, asked, log>>

\* Another caller's loop ends: paths, cancelled or superseded.
SecondaryEnds ==
  /\ stack # <<>> /\ Top.pc = "secondary"
  /\ fileDownloadPaths # NoKey \/ fileDownloadCancelled \/ ~IsStillCurrent(Top.paste)
  /\ paste' = Got(Top.paste, fileDownloadPaths)
  /\ stack' = Pop
  /\ UNCHANGED <<lockVars, fileVars, boardVars, pollVars, renderSemaphore, lastSetHash, panel,
                 signalling, asked, log>>

\* The deadline of five minutes, of either caller.
DownloadTimedOut ==
  /\ stack # <<>> /\ Top.pc \in {"primary", "secondary"}
  /\ paste' = Got(Top.paste, IF Top.pc = "primary" THEN fileDownloadPaths ELSE NoKey)
  /\ stack' = Pop
  /\ UNCHANGED <<lockVars, fileVars, boardVars, pollVars, renderSemaphore, lastSetHash, panel,
                 signalling, asked, log>>

\* The panel's Cancel: cancelFileDownload.  Mouse events are only dispatched
\* by the first caller's loop and by the application's own.
CancelFileDownload ==
  /\ Cancels /\ panel /\ (stack # <<>> => Top.pc = "primary")
  /\ panel' = FALSE
  /\ fileDownloadCancelled' = TRUE
  /\ renderSemaphore' = renderSemaphore + 1
  /\ UNCHANGED <<lockVars, fileDownloadPaths, fileDownloadTriggered, boardVars, pollVars,
                 lastSetHash, stack, signalling, asked, log, paste>>
-----------------------------------------------------------------------------
(* The socket queue *)

\* The parent may answer what it announced, asked or not, late or again.
Announced(h) == h \notin Eager /\ \E i \in 1..Len(log) : log[i] = h

\* Mutant: the hash is not compared.
ProvideDataUnchecked(h) ==
  /\ signalling = 0 /\ Announced(h) /\ renderSemaphore < MaxSignals
  /\ asked' = asked \ {h}
  /\ pendingAnnouncement # 0
  /\ renderedData' = h /\ isRequestInFlight' = FALSE /\ signalling' = 1
  /\ UNCHANGED <<pendingAnnouncement, fileVars, boardVars, pollVars, renderSemaphore,
                 lastSetHash, stack, panel, log, paste>>

\* provideData up to its unlock: bytes of another announcement are dropped.
ProvideData(h) ==
  /\ signalling = 0 /\ Announced(h) /\ renderSemaphore < MaxSignals
  /\ asked' = asked \ {h}
  /\ IF pendingAnnouncement # 0 /\ h = KeyOf(pendingAnnouncement)
     THEN renderedData' = h /\ isRequestInFlight' = FALSE /\ signalling' = 1
     ELSE UNCHANGED <<renderedData, isRequestInFlight, signalling>>
  /\ UNCHANGED <<pendingAnnouncement, fileVars, boardVars, pollVars, renderSemaphore,
                 lastSetHash, stack, panel, log, paste>>

\* Mutant: the signal is given only to somebody who waits.
SignalLost ==
  /\ signalling = 1
  /\ signalling' = 0
  /\ renderSemaphore' = IF stack # <<>> /\ Top.pc = "render" THEN renderSemaphore + 1
                        ELSE renderSemaphore
  /\ UNCHANGED <<lockVars, fileVars, boardVars, pollVars, lastSetHash, stack, panel, asked, log,
                 paste>>

\* renderSemaphore.signal(), after the unlock.
Signal ==
  /\ signalling = 1
  /\ signalling' = 0
  /\ renderSemaphore' = renderSemaphore + 1
  /\ UNCHANGED <<lockVars, fileVars, boardVars, pollVars, lastSetHash, stack, panel, asked, log,
                 paste>>
-----------------------------------------------------------------------------
\* External: another application copies something new or a content we had.
AppCopy(k) ==
  /\ Len(copy) < MaxCopy
  /\ copy' = Append(copy, k)
  /\ ownerLost' = (contents.from = "announced" /\ Kind[log[contents.n]] = "text")
  /\ contents' = Contents("copy", Len(copy) + 1) /\ changeCount' = changeCount + 1
  /\ UNCHANGED <<lockVars, fileVars, pollVars, renderSemaphore, lastSetHash, stack, panel,
                 signalling, asked, log, paste>>

\* External: the transfer is over, and the panel's dismissal timer fires.
DismissPanel ==
  /\ MainRuns /\ panel
  /\ panel' = FALSE
  /\ UNCHANGED <<lockVars, fileVars, boardVars, pollVars, renderSemaphore, lastSetHash, stack,
                 signalling, asked, log, paste>>

Render == RenderWoken \/ PrimaryEnds \/ SecondaryEnds
Handler == Declare \/ RecordChangeCount
Answer == (\E h \in asked : ProvideData(h)) \/ Signal
TimedOut == RenderTimedOut \/ DownloadTimedOut

Next ==
  \/ \E k \in Key : SetClipboard(k) \/ AnnounceDelayed(k) \/ ProvideData(k)
  \/ Handler \/ PasteboardChangedOwner \/ CheckForChanges
  \/ ProvideCached \/ ProvideDataForType \/ ProvideFileCached \/ EnsureFilesDownloaded
  \/ Render \/ TimedOut \/ Signal
  \/ CancelFileDownload \/ DismissPanel
  \/ \E k \in Key \cup {Other} : AppCopy(k)

Spec == Init /\ [][Next]_vars

\* The main thread and the socket queue run, and the parent answers what it is
\* asked.  No timeout is assumed to expire.
FairSpec == Spec /\ WF_vars(Handler) /\ WF_vars(Render) /\ WF_vars(Answer)
                 /\ WF_vars(CheckForChanges)
-----------------------------------------------------------------------------
(* Properties *)

\* Type invariant.
TypeOK ==
  /\ pendingAnnouncement \in 0..Len(log) /\ log \in Seq(Key)
  /\ renderedData \in {NoKey, KeyOf(pendingAnnouncement)}
  /\ isRequestInFlight \in BOOLEAN /\ renderSemaphore \in Nat /\ signalling \in {0, 1}
  /\ fileDownloadPaths \in Key \cup {NoKey}
  /\ fileDownloadTriggered \in BOOLEAN /\ fileDownloadCancelled \in BOOLEAN
  /\ lastChangeCount \in 0..changeCount /\ asked \subseteq Key
  /\ \A i \in DOMAIN stack :
       /\ stack[i].pc \in {"declare", "record", "render", "primary", "secondary"}
       /\ stack[i].paste \in 0..Len(paste)
       /\ i < Len(stack) => stack[i].pc \in {"primary", "secondary"}
  /\ \A p \in DOMAIN paste : paste[p].at \in 0..Len(log)

\* A text or image gets its own announcement's bytes or nothing, and a file
\* item never paths older than its announcement, however renders nest and
\* whenever answers come: "a late response from a previous request would ...
\* clobber the next paste with the wrong content".
PasteFresh ==
  \A p \in DOMAIN paste :
    LET k == paste[p].got IN
    k # NoKey =>
      IF Kind[log[paste[p].item]] = "text" THEN k = log[paste[p].item]
      ELSE \E i \in paste[p].item..Len(log) : log[i] = k

\* The dedupe of DATA_REQUESTs never leaves a paste without one: while
\* isRequestInFlight is set the parent has been asked for what is pending and
\* has not answered, timeouts and replaced announcements included.
RequestOutstanding ==
  isRequestInFlight => KeyOf(pendingAnnouncement) \in asked

\* The poll never reads contents of our own, which would make the main thread
\* render for itself: checkForChanges is to "return before reaching" them.
NoSelfRead ==
  MainRuns /\ changeCount # lastChangeCount => contents.from = "copy"

\* Once the poll has caught up, the copy on the pasteboard has been reported,
\* unless it is a content the parent has had us set, or was made between our
\* own write and the reading of its change count.
CopyReported ==
  MainRuns /\ changeCount = lastChangeCount /\ contents.from = "copy" =>
    \/ contents.n \in reported \cup missed
    \/ \E i \in DOMAIN log : log[i] = copy[contents.n]

\* A render ends without its timeout when the parent answers: no signal and no
\* request is lost.  Excepted: a render whose announcement is replaced, and one
\* that is, or has on top of it, a later caller of ensureFilesDownloaded, which
\* the first caller cannot serve from under it or, having given up, serves no more:
\* fileDownloadTriggered stays set.
RenderServed ==
  \A p \in 1..MaxPaste :
    (\E i \in DOMAIN stack : stack[i].paste = p) ~>
      \/ \A i \in DOMAIN stack : stack[i].paste # p
      \/ \E i, j \in DOMAIN stack : j <= i /\ stack[j].paste = p /\ stack[i].pc = "secondary"
      \/ paste[p].at # pendingAnnouncement

\* A paste as an application sees it.
Seen(p) ==
  IF p \in 1..Len(paste)
  THEN [pc |-> IF paste[p].done THEN "done" ELSE "open", on |-> paste[p].item,
        answer |-> paste[p].got]
  ELSE [pc |-> "none", on |-> 0, answer |-> NoKey]

Lazy == INSTANCE LazyClipboard
  WITH Content <- Key, Nothing <- NoKey, Paste <- 1..MaxPaste, announced <- log,
       paste <- [p \in 1..MaxPaste |-> Seen(p)]

\* The pasteboard manager implements a lazy clipboard: however its callbacks
\* nest, time out, are cancelled or find their announcement replaced, each
\* returns to the application once, with nothing or with what was announced
\* since the files or the text it was called for.
ImplementsLazy == Lazy!Spec
=============================================================================
