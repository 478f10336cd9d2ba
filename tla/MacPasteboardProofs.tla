------------------------ MODULE MacPasteboardProofs ------------------------
(***************************************************************************)
(* Proofs about MacPasteboard, for every set of contents, any number of    *)
(* announcements, pastes and copies, and renders of files nested to any    *)
(* depth: type correctness, PasteFresh, RequestOutstanding, NoSelfRead,    *)
(* CopyReported, and that it implements LazyClipboard.                     *)
(*                                                                         *)
(* The code compares hashes where PasteFresh speaks of announcements.      *)
(* OrderInv bridges the gap: what the main thread finds pending is what    *)
(* the pasteboard holds, except while announceDelayed is between its lock  *)
(* and its write; and FilesInv says that the paths at hand are no older    *)
(* than anything that may still be given them.  OnceInv says that a        *)
(* callback on the stack has not returned and is there once.               *)
(***************************************************************************)
EXTENDS MacPasteboard, SequenceTheorems, TLAPS

FrameSet == [pc : {"declare", "record", "render", "primary", "secondary"}, paste : Nat]

PasteSet == [item : Nat, at : Nat, done : BOOLEAN, got : Key \cup {NoKey}]

InFiles(f) == f.pc \in {"primary", "secondary"}

\* The type of what TypeOK leaves open, and what indices point to.
ShapeInv ==
  /\ stack \in Seq(FrameSet) /\ paste \in Seq(PasteSet) /\ copy \in Seq(Key \cup {Other})
  /\ contents \in [from : {"none", "announced", "set", "copy"}, n : Nat]
  /\ changeCount \in Nat
  /\ contents.from \in {"announced", "set"} => contents.n \in 1..Len(log)
  /\ contents.from = "copy" => contents.n \in 1..Len(copy)
  /\ \A p \in 1..Len(paste) : paste[p].item \in 1..Len(log)
  /\ \A i \in 1..Len(stack) :
       InFiles(stack[i]) \/ stack[i].pc = "render" => stack[i].paste \in 1..Len(paste)

\* announceDelayed is between its unlock and the declaration of the types.
Declaring == stack # <<>> /\ Top.pc = "declare"

\* Which announcement is pending: the one on the pasteboard or about to be
\* put there, the one a render waits for, and none older than those the
\* renders of files on the stack were called for.
OrderInv ==
  /\ contents.from = "announced" /\ ~Declaring => pendingAnnouncement \in {0, contents.n}
  /\ Declaring => pendingAnnouncement = Len(log) /\ Len(log) > 0
  /\ \A i \in 1..Len(stack) :
       LET item == paste[stack[i].paste].item IN
       /\ stack[i].pc = "render" => pendingAnnouncement = item
       /\ InFiles(stack[i]) => /\ Kind[log[item]] = "files"
                               /\ pendingAnnouncement # 0 => item <= pendingAnnouncement

\* The paths at hand are those of an announcement that is no older than the
\* files on the pasteboard and the renders of files on the stack.
FilesInv ==
  fileDownloadPaths # NoKey =>
    \E n \in 1..Len(log) :
      /\ log[n] = fileDownloadPaths
      /\ \A i \in 1..Len(stack) : InFiles(stack[i]) => paste[stack[i].paste].item <= n
      /\ contents.from = "announced" /\ Kind[log[contents.n]] = "files" => contents.n <= n

\* The poll is behind only for a copy, or while our own write is being
\* recorded; what it has caught up with is dealt with; the hash set last is
\* one of the parent's.
PollInv ==
  /\ changeCount # lastChangeCount =>
       contents.from = "copy" \/ (stack # <<>> /\ Top.pc = "record")
  /\ changeCount = lastChangeCount /\ contents.from = "copy" =>
       \/ contents.n \in reported \cup missed
       \/ \E i \in 1..Len(log) : log[i] = copy[contents.n]
  /\ lastSetHash # NoKey => \E i \in 1..Len(log) : log[i] = lastSetHash

IInv ==
  TypeOK /\ ShapeInv /\ OrderInv /\ FilesInv /\ PasteFresh /\ RequestOutstanding /\ PollInv
-----------------------------------------------------------------------------
(* Sequences: the stack, the pastes and the log of announcements. *)

\* What appending does to a sequence.
LEMMA Appended ==
  ASSUME NEW S, NEW s \in Seq(S), NEW e \in S
  PROVE  /\ Append(s, e) \in Seq(S) /\ Append(s, e) # <<>>
         /\ Len(s) \in Nat /\ Len(Append(s, e)) = Len(s) + 1
         /\ Append(s, e)[Len(s) + 1] = e /\ Len(s) + 1 \in 1..Len(Append(s, e))
         /\ \A i \in 1..Len(s) : i \in 1..Len(Append(s, e)) /\ Append(s, e)[i] = s[i]
         /\ \A i \in 1..Len(Append(s, e)) : i \in 1..Len(s) \/ i = Len(s) + 1
<1>1. /\ Append(s, e) \in Seq(S) /\ Len(Append(s, e)) = Len(s) + 1
      /\ \A i \in 1..Len(s) : Append(s, e)[i] = s[i]
      /\ Append(s, e)[Len(s) + 1] = e
  BY AppendProperties
<1>2. Len(s) \in Nat BY LenProperties
<1>3. Append(s, e) # <<>> BY <1>1, <1>2, EmptySeq
<1> QED BY <1>1, <1>2, <1>3

\* What leaving a handler does to the stack.
LEMMA Popped ==
  ASSUME stack \in Seq(FrameSet), stack # <<>>
  PROVE  /\ Pop \in Seq(FrameSet) /\ Len(stack) \in 1..Len(stack) /\ Len(stack) \in Nat
         /\ Len(Pop) = Len(stack) - 1
         /\ Top \in FrameSet /\ Top = stack[Len(stack)]
         /\ \A i \in 1..Len(Pop) : i \in 1..Len(stack) /\ i # Len(stack) /\ Pop[i] = stack[i]
<1>1. Len(stack) \in Nat /\ Len(stack) # 0 BY EmptySeq, LenProperties
<1>2. \A i \in 1..Len(stack) : stack[i] \in FrameSet BY ElementOfSeq
<1>3. /\ Pop \in Seq(FrameSet)
      /\ Len(Pop) = IF 1 <= Len(stack) - 1 THEN (Len(stack) - 1) - 1 + 1 ELSE 0
      /\ \A i \in 1..((Len(stack) - 1) - 1 + 1) : Pop[i] = stack[1 + i - 1]
  <2>1. Len(stack) - 1 \in Int /\ \A i \in 1..(Len(stack) - 1) : stack[i] \in FrameSet
    BY <1>1, <1>2
  <2> QED BY <2>1, SubSeqProperties DEF Pop
<1>4. Len(Pop) = Len(stack) - 1
  <2> DEFINE n == Len(stack)
  <2>1. n \in Nat /\ n # 0 /\ Len(Pop) = (IF 1 <= n - 1 THEN (n - 1) - 1 + 1 ELSE 0) BY <1>1, <1>3
  <2> HIDE DEF n
  <2>2. Len(Pop) = n - 1 BY <2>1
  <2> QED BY <2>2 DEF n
<1>5. \A i \in 1..Len(Pop) : i \in 1..Len(stack) /\ i # Len(stack) /\ Pop[i] = stack[i]
  <2> TAKE i \in 1..Len(Pop)
  <2>1. i \in 1..(Len(stack) - 1) /\ 1 + i - 1 = i BY <1>1, <1>4
  <2> QED BY <1>1, <1>3, <2>1
<1> QED BY <1>1, <1>2, <1>3, <1>4, <1>5 DEF Top

\* What writeDataToPasteboard does to the record of its paste, and to no other.
LEMMA GotProperties ==
  ASSUME paste \in Seq(PasteSet), NEW p \in 1..Len(paste), NEW k \in Key \cup {NoKey}
  PROVE  /\ Got(p, k) \in Seq(PasteSet) /\ Len(Got(p, k)) = Len(paste)
         /\ \A q \in 1..Len(paste) :
              /\ Got(p, k)[q].item = paste[q].item /\ Got(p, k)[q].at = paste[q].at
              /\ Got(p, k)[q].got = IF q = p THEN k ELSE paste[q].got
              /\ Got(p, k)[q].done = IF q = p THEN TRUE ELSE paste[q].done
<1> DEFINE e == [paste[p] EXCEPT !.done = TRUE, !.got = k]
<1>1. paste[p] \in PasteSet BY ElementOfSeq
<1>2. /\ e \in PasteSet /\ e.item = paste[p].item /\ e.at = paste[p].at /\ e.got = k
      /\ e.done = TRUE
  BY <1>1 DEF PasteSet
<1>3. Got(p, k) = [paste EXCEPT ![p] = e]
  BY <1>1 DEF Got, PasteSet
<1> HIDE DEF e
<1>4. /\ [paste EXCEPT ![p] = e] \in Seq(PasteSet) /\ Len([paste EXCEPT ![p] = e]) = Len(paste)
      /\ \A q \in 1..Len(paste) : [paste EXCEPT ![p] = e][q] = IF q = p THEN e ELSE paste[q]
  BY <1>2, ExceptSeq
<1> QED BY <1>2, <1>3, <1>4

\* The handlers below the innermost are renders of files; the innermost runs
\* alone unless it is one.
LEMMA RunsMeansFiles ==
  ASSUME TypeOK, ShapeInv, MainRuns
  PROVE  (\A i \in 1..Len(stack) : InFiles(stack[i])) /\ ~Declaring
<1>1. ASSUME NEW i \in 1..Len(stack) PROVE InFiles(stack[i])
  <2>1. stack \in Seq(FrameSet) BY DEF ShapeInv
  <2>2. Len(stack) \in Nat /\ DOMAIN stack = 1..Len(stack) BY <2>1, LenProperties
  <2>3. stack # <<>> BY EmptySeq, <1>1, <2>2
  <2>4. CASE i = Len(stack) BY <2>3, <2>4 DEF MainRuns, Top, InFiles
  <2>5. CASE i < Len(stack) BY <2>2, <2>5 DEF TypeOK, InFiles
  <2>6. i = Len(stack) \/ i < Len(stack)
    <3> DEFINE n == Len(stack)
    <3>1. n \in Nat /\ i \in 1..n BY <2>2
    <3> HIDE DEF n
    <3>2. i = n \/ i < n BY <3>1
    <3> QED BY <3>2 DEF n
  <2> QED BY <2>4, <2>5, <2>6
<1>2. ~Declaring BY DEF Declaring, MainRuns
<1> QED BY <1>1, <1>2
-----------------------------------------------------------------------------
(* The steps. *)

\* KeyOf does not see what is appended to the log.
LEMMA KeyOfPending ==
  ASSUME TypeOK
  PROVE  /\ KeyOf(pendingAnnouncement) \in Key \cup {NoKey}
         /\ pendingAnnouncement # 0 => KeyOf(pendingAnnouncement) \in Key
         /\ renderedData \in Key \cup {NoKey}
<1>1. log \in Seq(Key) /\ Len(log) \in Nat BY LenProperties DEF TypeOK
<1>2. \A i \in 1..Len(log) : log[i] \in Key BY <1>1, ElementOfSeq
<1>3. pendingAnnouncement # 0 => pendingAnnouncement \in 1..Len(log)
  <2> DEFINE n == Len(log)
  <2>1. n \in Nat /\ pendingAnnouncement \in 0..n BY <1>1 DEF TypeOK
  <2> HIDE DEF n
  <2>2. pendingAnnouncement # 0 => pendingAnnouncement \in 1..n BY <2>1
  <2> QED BY <2>2 DEF n
<1> QED BY <1>2, <1>3 DEF KeyOf, TypeOK

\* Steps that leave the stack, the pastes, the announcements and the
\* pasteboard alone.
LEMMA LightStep ==
  ASSUME IInv,
         CheckForChanges \/ CancelFileDownload \/ Signal \/ DismissPanel
           \/ \E k \in Key : ProvideData(k)
  PROVE  IInv'
<1> USE DEF lockVars, fileVars, boardVars, pollVars
<1>1. TypeOK /\ ShapeInv /\ OrderInv /\ FilesInv /\ PasteFresh /\ RequestOutstanding /\ PollInv
  BY DEF IInv
<1>2. UNCHANGED <<stack, paste, log, contents, changeCount, copy, pendingAnnouncement,
                  fileDownloadPaths, lastSetHash>>
  BY DEF CheckForChanges, CancelFileDownload, Signal, DismissPanel, ProvideData
<1>3. ShapeInv' /\ OrderInv' /\ FilesInv' /\ PasteFresh'
  BY <1>1, <1>2 DEF ShapeInv, OrderInv, FilesInv, PasteFresh, Declaring, Top
<1>4. TypeOK'
  <2>1. ASSUME renderedData' \in {NoKey, KeyOf(pendingAnnouncement)},
               isRequestInFlight' \in BOOLEAN, renderSemaphore' \in Nat,
               signalling' \in {0, 1}, fileDownloadCancelled' \in BOOLEAN,
               fileDownloadTriggered' = fileDownloadTriggered,
               lastChangeCount' \in 0..changeCount, asked' \subseteq Key
        PROVE  TypeOK'
    BY <1>1, <1>2, <2>1 DEF TypeOK, KeyOf
  <2>2. CASE CheckForChanges
    <3>1. lastChangeCount' \in 0..changeCount BY <1>1, <2>2 DEF CheckForChanges, ShapeInv
    <3> QED BY <1>1, <2>1, <2>2, <3>1 DEF CheckForChanges, TypeOK
  <2>3. CASE CancelFileDownload
    <3>1. fileDownloadCancelled' \in BOOLEAN BY <2>3, Zenon DEF CancelFileDownload
    <3> QED BY <1>1, <2>1, <2>3, <3>1 DEF CancelFileDownload, TypeOK
  <2>4. CASE Signal BY <1>1, <2>1, <2>4 DEF Signal, TypeOK
  <2>5. CASE DismissPanel BY <1>1, <2>1, <2>5 DEF DismissPanel, TypeOK
  <2>6. CASE \E k \in Key : ProvideData(k)
    <3>1. PICK k \in Key : ProvideData(k) BY <2>6
    <3>2. isRequestInFlight' \in BOOLEAN
      <4>1. isRequestInFlight' = FALSE \/ isRequestInFlight' = isRequestInFlight
        BY <3>1 DEF ProvideData
      <4>2. isRequestInFlight \in BOOLEAN BY <1>1 DEF TypeOK
      <4> QED BY <4>1, <4>2, Zenon
    <3> QED BY <1>1, <2>1, <3>1, <3>2 DEF ProvideData, TypeOK
  <2> QED BY <2>2, <2>3, <2>4, <2>5, <2>6
<1>5. RequestOutstanding'
  <2>1. CASE UNCHANGED <<isRequestInFlight, asked>>
    BY <1>1, <1>2, <2>1 DEF RequestOutstanding, KeyOf
  <2>2. CASE \E k \in Key : ProvideData(k)
    <3>1. PICK k \in Key : ProvideData(k) BY <2>2
    <3>2. CASE pendingAnnouncement # 0 /\ k = KeyOf(pendingAnnouncement)
      BY <3>1, <3>2 DEF ProvideData, RequestOutstanding
    <3>3. CASE ~(pendingAnnouncement # 0 /\ k = KeyOf(pendingAnnouncement))
      <4>1. asked' = asked \ {k} /\ isRequestInFlight' = isRequestInFlight
        BY <3>1, <3>3 DEF ProvideData
      <4>2. KeyOf(pendingAnnouncement)' = KeyOf(pendingAnnouncement) BY <1>2 DEF KeyOf
      <4>3. k # KeyOf(pendingAnnouncement)
        BY <3>3, PasteboardAssumption DEF KeyOf
      <4> QED BY <1>1, <4>1, <4>2, <4>3 DEF RequestOutstanding
    <3> QED BY <3>2, <3>3
  <2> QED BY <2>1, <2>2 DEF CheckForChanges, CancelFileDownload, Signal, DismissPanel
<1>6. PollInv'
  <2>1. CASE UNCHANGED <<lastChangeCount, reported, missed>>
    BY <1>1, <1>2, <2>1 DEF PollInv, Top
  <2>2. CASE CheckForChanges
    <3>1. lastChangeCount' = changeCount /\ missed' = missed BY <2>2 DEF CheckForChanges
    <3>2. ASSUME contents.from = "copy"
          PROVE  \/ contents.n \in reported' \cup missed'
                 \/ \E i \in 1..Len(log) : log[i] = copy[contents.n]
      <4>1. CASE copy[contents.n] # lastSetHash BY <2>2, <3>2, <4>1 DEF CheckForChanges
      <4>2. CASE copy[contents.n] = lastSetHash
        <5>1. copy[contents.n] \in Key \cup {Other}
          BY <1>1, <3>2, ElementOfSeq DEF ShapeInv
        <5>2. lastSetHash # NoKey BY <4>2, <5>1, PasteboardAssumption
        <5> QED BY <1>1, <4>2, <5>2 DEF PollInv
      <4> QED BY <4>1, <4>2
    <3> QED BY <1>1, <1>2, <3>1, <3>2 DEF PollInv
  <2> QED BY <2>1, <2>2 DEF CancelFileDownload, Signal, DismissPanel, ProvideData
<1> QED BY <1>3, <1>4, <1>5, <1>6 DEF IInv

\* What a new callback adds to the pastes.
LEMMA PastedProperties ==
  ASSUME IInv, NEW kind, CanPaste(kind), NEW d \in BOOLEAN, NEW g \in Key \cup {NoKey},
         paste' = Pasted(d, g), UNCHANGED log,
         g # NoKey => IF kind = "text" THEN g = log[contents.n]
                      ELSE \E n \in contents.n..Len(log) : log[n] = g
  PROVE  /\ paste' \in Seq(PasteSet) /\ PasteFresh'
         /\ Len(paste) \in Nat /\ Len(paste') = Len(paste) + 1
         /\ paste'[Len(paste) + 1].item = contents.n /\ paste'[Len(paste) + 1].done = d
         /\ paste'[Len(paste) + 1].got = g /\ Len(paste) + 1 \in 1..Len(paste')
         /\ \A p \in 1..Len(paste) : p \in 1..Len(paste') /\ paste'[p] = paste[p]
         /\ \A p \in 1..Len(paste') : /\ paste'[p].item \in 1..Len(log)
                                      /\ paste'[p].at \in 0..Len(log)
         /\ contents.n \in 1..Len(log) /\ Kind[log[contents.n]] = kind
<1> DEFINE e == [item |-> contents.n, at |-> pendingAnnouncement, done |-> d, got |-> g]
<1>1. TypeOK /\ ShapeInv /\ PasteFresh BY DEF IInv
<1>2. contents.n \in 1..Len(log) /\ Kind[log[contents.n]] = kind
  BY <1>1 DEF CanPaste, ShapeInv
<1>3. contents.n \in Nat /\ pendingAnnouncement \in Nat
  BY <1>1 DEF TypeOK, ShapeInv
<1>4. /\ e \in PasteSet /\ e.item = contents.n /\ e.got = g /\ e.at = pendingAnnouncement
      /\ e.done = d
  BY <1>3 DEF PasteSet
<1>5. paste' = Append(paste, e) BY DEF Pasted
<1> HIDE DEF e
<1>6. /\ paste' \in Seq(PasteSet) /\ Len(paste) \in Nat /\ Len(paste') = Len(paste) + 1
      /\ paste'[Len(paste) + 1] = e /\ Len(paste) + 1 \in 1..Len(paste')
      /\ \A p \in 1..Len(paste) : p \in 1..Len(paste') /\ paste'[p] = paste[p]
      /\ \A p \in 1..Len(paste') : p \in 1..Len(paste) \/ p = Len(paste) + 1
  BY <1>1, <1>4, <1>5, Appended DEF ShapeInv
<1>7. DOMAIN paste = 1..Len(paste) /\ DOMAIN paste' = 1..Len(paste')
  BY <1>1, <1>6, LenProperties DEF ShapeInv
<1>8. pendingAnnouncement \in 0..Len(log) BY <1>1 DEF TypeOK
<1>9. \A p \in 1..Len(paste') : paste'[p].item \in 1..Len(log) /\ paste'[p].at \in 0..Len(log)
  <2>1. \A p \in 1..Len(paste) : paste[p].item \in 1..Len(log) /\ paste[p].at \in 0..Len(log)
    BY <1>1, <1>7 DEF TypeOK, ShapeInv
  <2> QED BY <1>2, <1>4, <1>6, <1>8, <2>1
<1>10. PasteFresh'
  <2> SUFFICES ASSUME NEW p \in 1..Len(paste'), paste'[p].got # NoKey
               PROVE  IF Kind[log[paste'[p].item]] = "text"
                      THEN paste'[p].got = log[paste'[p].item]
                      ELSE \E i \in paste'[p].item..Len(log) : log[i] = paste'[p].got
    BY <1>7 DEF PasteFresh
  <2>1. CASE p \in 1..Len(paste)
    <3>1. paste'[p] = paste[p] BY <1>6, <2>1
    <3> QED BY <1>1, <1>7, <2>1, <3>1 DEF PasteFresh
  <2>2. CASE p = Len(paste) + 1 BY <1>2, <1>4, <1>6, <2>2
  <2> QED BY <1>6, <2>1, <2>2
<1> QED BY <1>2, <1>4, <1>6, <1>9, <1>10

\* What is known to the callback when an announcement of its kind is pending.
LEMMA KnownIsPasted ==
  ASSUME IInv, NEW kind, CanPaste(kind), pendingAnnouncement # 0
  PROVE  /\ pendingAnnouncement = contents.n /\ KeyOf(pendingAnnouncement) = log[contents.n]
         /\ \A i \in 1..Len(stack) : InFiles(stack[i])
<1>1. MainRuns /\ contents.from = "announced" BY DEF CanPaste
<1>2. TypeOK /\ ShapeInv /\ OrderInv BY DEF IInv
<1>3. ~Declaring /\ \A i \in 1..Len(stack) : InFiles(stack[i]) BY <1>1, <1>2, RunsMeansFiles
<1>4. pendingAnnouncement = contents.n BY <1>1, <1>2, <1>3 DEF OrderInv
<1> QED BY <1>3, <1>4 DEF KeyOf

\* What a callback that is answered at once is given.
LEMMA CachedCallback ==
  ASSUME IInv, ProvideCached \/ ProvideFileCached
  PROVE  \E kind \in {"text", "files"}, g \in Key \cup {NoKey} :
           /\ CanPaste(kind) /\ paste' = Pasted(TRUE, g)
           /\ g # NoKey => IF kind = "text" THEN g = log[contents.n]
                           ELSE \E n \in contents.n..Len(log) : log[n] = g
<1>0. TypeOK /\ ShapeInv /\ FilesInv BY DEF IInv
<1>1. CASE ProvideCached
  <2> DEFINE known == pendingAnnouncement # 0 /\ Kind[KeyOf(pendingAnnouncement)] = "text"
             g == IF known THEN renderedData ELSE NoKey
  <2>1. CanPaste("text") /\ paste' = Pasted(TRUE, g) BY <1>1 DEF ProvideCached
  <2>2. g \in Key \cup {NoKey} BY <1>0, KeyOfPending
  <2>3. g # NoKey => g = log[contents.n]
    <3>1. CASE known BY <1>0, <2>1, <3>1, KnownIsPasted DEF TypeOK
    <3>2. CASE ~known BY <3>2
    <3> QED BY <3>1, <3>2
  <2> HIDE DEF g
  <2> QED BY <2>1, <2>2, <2>3
<1>2. CASE ProvideFileCached
  <2> DEFINE known == pendingAnnouncement # 0 /\ Kind[KeyOf(pendingAnnouncement)] = "files"
             g == IF known THEN fileDownloadPaths ELSE NoKey
  <2>1. CanPaste("files") /\ paste' = Pasted(TRUE, g) BY <1>2 DEF ProvideFileCached
  <2>2. g \in Key \cup {NoKey} BY <1>0 DEF TypeOK
  <2>3. ASSUME g # NoKey PROVE \E n \in contents.n..Len(log) : log[n] = g
    <3>1. g = fileDownloadPaths BY <2>3
    <3>2. contents.from = "announced" /\ Kind[log[contents.n]] = "files"
      BY <2>1 DEF CanPaste
    <3>3. PICK n \in 1..Len(log) : log[n] = fileDownloadPaths /\ contents.n <= n
      BY <1>0, <2>3, <3>1, <3>2 DEF FilesInv
    <3>4. contents.n \in Nat BY <1>0 DEF ShapeInv
    <3>5. n \in contents.n..Len(log) BY <3>3, <3>4
    <3> QED BY <3>1, <3>3, <3>5
  <2> HIDE DEF g
  <2> QED BY <2>1, <2>2, <2>3
<1> QED BY <1>1, <1>2

\* A callback that is answered at once.
LEMMA CachedStep ==
  ASSUME IInv, ProvideCached \/ ProvideFileCached
  PROVE  IInv'
<1> USE DEF lockVars, fileVars, boardVars, pollVars
<1>1. TypeOK /\ ShapeInv /\ OrderInv /\ FilesInv /\ PasteFresh /\ RequestOutstanding /\ PollInv
  BY DEF IInv
<1>2. UNCHANGED <<lockVars, fileVars, boardVars, pollVars, renderSemaphore, lastSetHash, stack,
                  signalling, asked, log>>
  BY DEF ProvideCached, ProvideFileCached
<1>3. PICK kind \in {"text", "files"}, g \in Key \cup {NoKey} :
        /\ CanPaste(kind) /\ paste' = Pasted(TRUE, g)
        /\ g # NoKey => IF kind = "text" THEN g = log[contents.n]
                        ELSE \E n \in contents.n..Len(log) : log[n] = g
  BY CachedCallback
<1>4. /\ paste' \in Seq(PasteSet) /\ PasteFresh' /\ Len(paste) \in Nat
      /\ Len(paste') = Len(paste) + 1
      /\ \A p \in 1..Len(paste) : p \in 1..Len(paste') /\ paste'[p] = paste[p]
      /\ \A p \in 1..Len(paste') : /\ paste'[p].item \in 1..Len(log)
                                   /\ paste'[p].at \in 0..Len(log)
  BY <1>2, <1>3, PastedProperties
<1>5. DOMAIN paste' = 1..Len(paste') BY <1>4, LenProperties
<1>6. TypeOK'
  <2>1. \A i \in DOMAIN stack : stack[i].paste \in 0..Len(paste') BY <1>1, <1>4 DEF TypeOK
  <2> QED BY <1>1, <1>2, <1>4, <1>5, <2>1 DEF TypeOK, KeyOf
<1>7. ShapeInv' BY <1>1, <1>2, <1>4 DEF ShapeInv
<1>8. \A i \in 1..Len(stack) : InFiles(stack[i]) \/ stack[i].pc = "render" =>
        paste'[stack[i].paste] = paste[stack[i].paste]
  BY <1>1, <1>4 DEF ShapeInv
<1>9. OrderInv' BY <1>1, <1>2, <1>8 DEF OrderInv, Declaring, Top
<1>10. FilesInv' BY <1>1, <1>2, <1>8 DEF FilesInv
<1>11. RequestOutstanding' /\ PollInv'
  BY <1>1, <1>2 DEF RequestOutstanding, PollInv, KeyOf, Top
<1> QED BY <1>4, <1>6, <1>7, <1>9, <1>10, <1>11 DEF IInv

\* A handler is entered: it is on top of renders of files.
LEMMA PushedProperties ==
  ASSUME TypeOK, ShapeInv, MainRuns, NEW f \in FrameSet, stack' = Append(stack, f)
  PROVE  /\ stack' \in Seq(FrameSet) /\ stack' # <<>> /\ Top' = f
         /\ DOMAIN stack' = 1..Len(stack') /\ Len(stack') \in Nat
         /\ \A i \in 1..Len(stack) : i \in 1..Len(stack') /\ stack'[i] = stack[i]
         /\ \A i \in 1..Len(stack') :
              \/ i \in 1..Len(stack) /\ stack'[i] = stack[i] /\ InFiles(stack'[i])
              \/ i = Len(stack') /\ stack'[i] = f
<1>1. /\ stack' \in Seq(FrameSet) /\ stack' # <<>> /\ Len(stack') = Len(stack) + 1
      /\ stack'[Len(stack) + 1] = f
      /\ \A i \in 1..Len(stack) : i \in 1..Len(stack') /\ stack'[i] = stack[i]
      /\ \A i \in 1..Len(stack') : i \in 1..Len(stack) \/ i = Len(stack) + 1
  BY Appended DEF ShapeInv
<1>2. DOMAIN stack' = 1..Len(stack') /\ Len(stack') \in Nat BY <1>1, LenProperties
<1>3. \A i \in 1..Len(stack) : InFiles(stack[i]) BY RunsMeansFiles
<1>4. Top' = f BY <1>1 DEF Top
<1> QED BY <1>1, <1>2, <1>3, <1>4

\* What a callback that has to wait pushes.
LEMMA WaitCallback ==
  ASSUME IInv, ProvideDataForType \/ EnsureFilesDownloaded
  PROVE  \E kind \in {"text", "files"}, f \in FrameSet :
           /\ CanPaste(kind) /\ paste' = Pasted(FALSE, NoKey)
           /\ stack' = Append(stack, f) /\ f.paste = Len(paste) + 1
           /\ IF kind = "files" THEN InFiles(f) ELSE f.pc = "render"
           /\ kind = "files" => fileDownloadPaths = NoKey
<1>0. ShapeInv BY DEF IInv
<1>1. Len(paste) + 1 \in Nat BY <1>0, LenProperties DEF ShapeInv
<1>2. CASE ProvideDataForType
  <2> DEFINE f == [pc |-> "render", paste |-> Len(paste) + 1]
  <2>1. f \in FrameSet /\ f.pc = "render" /\ f.paste = Len(paste) + 1 BY <1>1 DEF FrameSet
  <2>2. CanPaste("text") /\ paste' = Pasted(FALSE, NoKey) /\ stack' = Append(stack, f)
    BY <1>2 DEF ProvideDataForType
  <2> HIDE DEF f
  <2> QED BY <2>1, <2>2
<1>3. CASE EnsureFilesDownloaded
  <2> DEFINE f == [pc |-> IF fileDownloadTriggered THEN "secondary" ELSE "primary",
                   paste |-> Len(paste) + 1]
  <2>1. f \in FrameSet /\ InFiles(f) /\ f.paste = Len(paste) + 1
    BY <1>1 DEF FrameSet, InFiles
  <2>2. /\ CanPaste("files") /\ paste' = Pasted(FALSE, NoKey) /\ stack' = Append(stack, f)
        /\ fileDownloadPaths = NoKey
    BY <1>3 DEF EnsureFilesDownloaded
  <2> HIDE DEF f
  <2> QED BY <2>1, <2>2
<1> QED BY <1>2, <1>3

\* A callback that has to wait.
LEMMA WaitStep ==
  ASSUME IInv, ProvideDataForType \/ EnsureFilesDownloaded
  PROVE  IInv'
<1> USE DEF lockVars, fileVars, boardVars, pollVars
<1>1. TypeOK /\ ShapeInv /\ OrderInv /\ FilesInv /\ PasteFresh /\ RequestOutstanding /\ PollInv
  BY DEF IInv
<1>2. UNCHANGED <<pendingAnnouncement, renderedData, fileDownloadPaths, fileDownloadCancelled,
                  boardVars, pollVars, renderSemaphore, lastSetHash, signalling, log>>
  BY DEF ProvideDataForType, EnsureFilesDownloaded
<1>3. PICK kind \in {"text", "files"}, f \in FrameSet :
        /\ CanPaste(kind) /\ paste' = Pasted(FALSE, NoKey)
        /\ stack' = Append(stack, f) /\ f.paste = Len(paste) + 1
        /\ IF kind = "files" THEN InFiles(f) ELSE f.pc = "render"
        /\ kind = "files" => fileDownloadPaths = NoKey
  BY WaitCallback
<1>4. MainRuns /\ contents.from = "announced" BY <1>3 DEF CanPaste
<1>5. pendingAnnouncement # 0 BY DEF ProvideDataForType, EnsureFilesDownloaded
<1>6. pendingAnnouncement = contents.n BY <1>3, <1>5, KnownIsPasted
<1>7. /\ paste' \in Seq(PasteSet) /\ PasteFresh' /\ Len(paste) \in Nat
      /\ Len(paste') = Len(paste) + 1 /\ Len(paste) + 1 \in 1..Len(paste')
      /\ paste'[Len(paste) + 1].item = contents.n
      /\ \A p \in 1..Len(paste) : p \in 1..Len(paste') /\ paste'[p] = paste[p]
      /\ \A p \in 1..Len(paste') : /\ paste'[p].item \in 1..Len(log)
                                   /\ paste'[p].at \in 0..Len(log)
      /\ contents.n \in 1..Len(log) /\ Kind[log[contents.n]] = kind
  BY <1>2, <1>3, PastedProperties
<1>8. DOMAIN paste' = 1..Len(paste') BY <1>7, LenProperties
<1>9. /\ stack' \in Seq(FrameSet) /\ stack' # <<>> /\ Top' = f
      /\ DOMAIN stack' = 1..Len(stack') /\ Len(stack') \in Nat
      /\ \A i \in 1..Len(stack') :
           \/ i \in 1..Len(stack) /\ stack'[i] = stack[i] /\ InFiles(stack'[i])
           \/ i = Len(stack') /\ stack'[i] = f
  BY <1>1, <1>3, <1>4, PushedProperties
<1>10. TypeOK'
  <2>1. \A i \in 1..Len(stack') :
          /\ stack'[i].pc \in {"declare", "record", "render", "primary", "secondary"}
          /\ stack'[i].paste \in 0..Len(paste')
          /\ i < Len(stack') => stack'[i].pc \in {"primary", "secondary"}
    <3> TAKE i \in 1..Len(stack')
    <3>1. CASE i \in 1..Len(stack) /\ stack'[i] = stack[i] /\ InFiles(stack'[i])
      <4>1. i \in DOMAIN stack BY <1>1, <3>1, LenProperties DEF ShapeInv
      <4> QED BY <1>1, <1>7, <3>1, <4>1 DEF TypeOK, InFiles
    <3>2. CASE i = Len(stack') /\ stack'[i] = f
      <4> DEFINE n == Len(paste)
                 m == Len(paste')
                 h == Len(stack')
      <4>11. n \in Nat /\ m = n + 1 /\ f.paste = n + 1 /\ h \in Nat /\ i = h
        BY <1>3, <1>7, <1>9, <3>2
      <4> HIDE DEF n, m, h
      <4>12. f.paste \in 0..m /\ ~(i < h) BY <4>11
      <4>1. f.paste \in 0..Len(paste') BY <4>12 DEF m
      <4>2. ~(i < Len(stack')) BY <4>12 DEF h
      <4>3. f.pc \in {"declare", "record", "render", "primary", "secondary"} BY DEF FrameSet
      <4> QED BY <3>2, <4>1, <4>2, <4>3
    <3> QED BY <1>9, <3>1, <3>2
  <2>2. isRequestInFlight' \in BOOLEAN /\ fileDownloadTriggered' \in BOOLEAN
    <3>1. \/ isRequestInFlight' = TRUE /\ fileDownloadTriggered' = fileDownloadTriggered
          \/ isRequestInFlight' = isRequestInFlight /\ fileDownloadTriggered' = TRUE
      BY DEF ProvideDataForType, EnsureFilesDownloaded
    <3>2. isRequestInFlight \in BOOLEAN /\ fileDownloadTriggered \in BOOLEAN
      BY <1>1 DEF TypeOK
    <3> QED BY <3>1, <3>2, Zenon
  <2>3. asked' \subseteq Key
    <3>1. KeyOf(pendingAnnouncement) \in Key BY <1>1, <1>5, KeyOfPending
    <3> QED BY <1>1, <3>1 DEF ProvideDataForType, EnsureFilesDownloaded, TypeOK
  <2> QED BY <1>1, <1>2, <1>7, <1>8, <1>9, <2>1, <2>2, <2>3 DEF TypeOK, KeyOf
<1>11. ShapeInv'
  <2>1. \A i \in 1..Len(stack') : InFiles(stack'[i]) \/ stack'[i].pc = "render"
          => stack'[i].paste \in 1..Len(paste')
    BY <1>1, <1>3, <1>7, <1>9 DEF ShapeInv
  <2> QED BY <1>1, <1>2, <1>7, <1>9, <2>1 DEF ShapeInv
<1>12. OrderInv'
  <2>1. ~Declaring /\ ~Declaring'
    BY <1>3, <1>4, <1>9 DEF Declaring, MainRuns, InFiles
  <2>2. ASSUME NEW i \in 1..Len(stack')
        PROVE  LET item == paste'[stack'[i].paste].item IN
               /\ stack'[i].pc = "render" => pendingAnnouncement = item
               /\ InFiles(stack'[i]) => /\ Kind[log[item]] = "files"
                                        /\ pendingAnnouncement # 0 => item <= pendingAnnouncement
    <3>1. CASE i \in 1..Len(stack) /\ stack'[i] = stack[i] /\ InFiles(stack'[i])
      <4>1. paste'[stack[i].paste] = paste[stack[i].paste] BY <1>1, <1>7, <3>1 DEF ShapeInv
      <4> QED BY <1>1, <3>1, <4>1 DEF OrderInv, InFiles
    <3>2. CASE stack'[i] = f
      <4>1. paste'[stack'[i].paste].item = pendingAnnouncement BY <1>3, <1>6, <1>7, <3>2
      <4>2. pendingAnnouncement <= pendingAnnouncement BY <1>1 DEF TypeOK
      <4>3. InFiles(f) => Kind[log[pendingAnnouncement]] = "files"
        BY <1>3, <1>6, <1>7 DEF InFiles
      <4> QED BY <3>2, <4>1, <4>2, <4>3
    <3> QED BY <1>9, <3>1, <3>2
  <2> QED BY <1>1, <1>2, <2>1, <2>2 DEF OrderInv
<1>13. FilesInv'
  <2> SUFFICES ASSUME fileDownloadPaths # NoKey PROVE FilesInv' BY <1>2 DEF FilesInv
  <2>1. f.pc = "render" /\ ~InFiles(f) BY <1>3 DEF InFiles
  <2>2. \A i \in 1..Len(stack') : InFiles(stack'[i]) =>
          /\ i \in 1..Len(stack) /\ stack'[i] = stack[i]
          /\ paste'[stack[i].paste] = paste[stack[i].paste]
    BY <1>1, <1>7, <1>9, <2>1 DEF ShapeInv
  <2> QED BY <1>1, <1>2, <2>2 DEF FilesInv
<1>14. RequestOutstanding'
  <2>1. KeyOf(pendingAnnouncement)' = KeyOf(pendingAnnouncement) BY <1>2 DEF KeyOf
  <2>2. CASE ProvideDataForType BY <1>1, <2>1, <2>2 DEF ProvideDataForType, RequestOutstanding
  <2>3. CASE EnsureFilesDownloaded
    BY <1>1, <2>1, <2>3 DEF EnsureFilesDownloaded, RequestOutstanding
  <2> QED BY <2>2, <2>3
<1>15. PollInv'
  <2>1. changeCount = lastChangeCount BY <1>1, <1>4 DEF PollInv, MainRuns
  <2> QED BY <1>1, <1>2, <1>4, <2>1 DEF PollInv
<1> QED BY <1>7, <1>10, <1>11, <1>12, <1>13, <1>14, <1>15 DEF IInv

\* What a paste of the n-th announcement may be given.
Fresh(k, n) ==
  IF Kind[log[n]] = "text" THEN k = log[n] ELSE \E i \in n..Len(log) : log[i] = k

\* The paths at hand are fresh for every render of files on the stack.
LEMMA PathsFresh ==
  ASSUME IInv, NEW i \in 1..Len(stack), InFiles(stack[i]), fileDownloadPaths # NoKey
  PROVE  Fresh(fileDownloadPaths, paste[stack[i].paste].item)
<1> DEFINE item == paste[stack[i].paste].item
<1>1. ShapeInv /\ OrderInv /\ FilesInv BY DEF IInv
<1>2. Kind[log[item]] = "files" BY <1>1 DEF OrderInv
<1>3. item \in 1..Len(log) BY <1>1 DEF ShapeInv
<1>4. PICK n \in 1..Len(log) : log[n] = fileDownloadPaths /\ item <= n BY <1>1 DEF FilesInv
<1>5. n \in item..Len(log) BY <1>3, <1>4
<1> QED BY <1>2, <1>4, <1>5 DEF Fresh

\* So are the bytes at hand, which are those of the pending announcement.
LEMMA BytesFresh ==
  ASSUME IInv, NEW i \in 1..Len(stack), renderedData # NoKey,
         InFiles(stack[i]) \/ stack[i].pc = "render"
  PROVE  /\ pendingAnnouncement \in 1..Len(log) /\ renderedData = log[pendingAnnouncement]
         /\ Fresh(renderedData, paste[stack[i].paste].item)
<1> DEFINE item == paste[stack[i].paste].item
<1>1. TypeOK /\ ShapeInv /\ OrderInv BY DEF IInv
<1>2. item \in 1..Len(log) BY <1>1 DEF ShapeInv
<1>3. renderedData = KeyOf(pendingAnnouncement) /\ pendingAnnouncement # 0
  BY <1>1 DEF TypeOK, KeyOf
<1>4. renderedData = log[pendingAnnouncement] BY <1>3 DEF KeyOf
<1>5. pendingAnnouncement \in 1..Len(log)
  <2> DEFINE n == Len(log)
  <2>1. n \in Nat /\ pendingAnnouncement \in 0..n BY <1>1, LenProperties DEF TypeOK
  <2> HIDE DEF n
  <2>2. pendingAnnouncement \in 1..n BY <1>3, <2>1
  <2> QED BY <2>2 DEF n
<1>6. CASE stack[i].pc = "render"
  <2>1. pendingAnnouncement = item BY <1>1, <1>6 DEF OrderInv
  <2>2. item \in item..Len(log) BY <1>2
  <2> QED BY <1>4, <1>5, <2>1, <2>2 DEF Fresh
<1>7. CASE InFiles(stack[i])
  <2>1. Kind[log[item]] = "files" /\ item <= pendingAnnouncement
    BY <1>1, <1>3, <1>7 DEF OrderInv
  <2>2. pendingAnnouncement \in item..Len(log) BY <1>2, <1>5, <2>1
  <2> QED BY <1>4, <1>5, <2>1, <2>2 DEF Fresh
<1> QED BY <1>6, <1>7

\* What a render that ends gives to its paste.
LEMMA EndedCallback ==
  ASSUME IInv, Render \/ TimedOut
  PROVE  /\ stack # <<>> /\ stack' = Pop /\ UNCHANGED log /\ Len(stack) \in 1..Len(stack)
         /\ InFiles(Top) \/ Top.pc = "render"
         /\ Top.paste \in 1..Len(paste)
         /\ \E k \in Key \cup {NoKey} :
              paste' = Got(Top.paste, k) /\ (k # NoKey => Fresh(k, paste[Top.paste].item))
<1> DEFINE p == Top.paste
           item == paste[p].item
<1>10. TypeOK /\ ShapeInv BY DEF IInv
<1>11. /\ stack # <<>> /\ Top.pc \in {"render", "primary", "secondary"} /\ stack' = Pop
       /\ UNCHANGED log
  BY DEF Render, TimedOut, RenderWoken, PrimaryEnds, SecondaryEnds, RenderTimedOut,
     DownloadTimedOut
<1>12. Len(stack) \in 1..Len(stack) /\ Top = stack[Len(stack)]
  BY <1>10, <1>11, Popped DEF ShapeInv
<1>13. InFiles(Top) \/ Top.pc = "render" BY <1>11 DEF InFiles
<1>14. Top.paste \in 1..Len(paste) BY <1>10, <1>12, <1>13 DEF ShapeInv
<1>15. renderedData # NoKey => Fresh(renderedData, item) BY <1>12, <1>13, BytesFresh
<1>16. InFiles(Top) /\ fileDownloadPaths # NoKey => Fresh(fileDownloadPaths, item)
  BY <1>12, PathsFresh
<1>17. renderedData \in Key \cup {NoKey} /\ fileDownloadPaths \in Key \cup {NoKey}
  BY <1>10, KeyOfPending DEF TypeOK
<1>18. \E k \in Key \cup {NoKey} : paste' = Got(p, k) /\ (k # NoKey => Fresh(k, item))
  <2>1. CASE RenderWoken BY <1>15, <1>17, <2>1 DEF RenderWoken
  <2>2. CASE RenderTimedOut BY <2>2 DEF RenderTimedOut
  <2>3. CASE PrimaryEnds
    <3>1. InFiles(Top) BY <2>3 DEF PrimaryEnds, InFiles
    <3>2. \/ paste' = Got(p, renderedData) /\ renderedData # NoKey
          \/ paste' = Got(p, fileDownloadPaths)
      BY <2>3 DEF PrimaryEnds
    <3> QED BY <1>15, <1>16, <1>17, <3>1, <3>2
  <2>4. CASE SecondaryEnds BY <1>16, <1>17, <2>4 DEF SecondaryEnds, InFiles
  <2>5. CASE DownloadTimedOut
    <3>1. InFiles(Top) /\ (paste' = Got(p, NoKey) \/ paste' = Got(p, fileDownloadPaths))
      BY <2>5 DEF DownloadTimedOut, InFiles
    <3> QED BY <1>16, <1>17, <3>1
  <2> QED BY <2>1, <2>2, <2>3, <2>4, <2>5 DEF Render, TimedOut
<1> QED BY <1>11, <1>12, <1>13, <1>14, <1>18

\* A render that ends: woken, complete, cancelled, superseded or timed out.
LEMMA RenderEndsStep ==
  ASSUME IInv, Render \/ TimedOut
  PROVE  IInv'
<1> USE DEF lockVars, fileVars, boardVars, pollVars
<1>1. TypeOK /\ ShapeInv /\ OrderInv /\ FilesInv /\ PasteFresh /\ RequestOutstanding /\ PollInv
  BY DEF IInv
<1>2. /\ UNCHANGED <<lockVars, fileDownloadTriggered, fileDownloadCancelled, boardVars, pollVars,
                     lastSetHash, signalling, asked, log>>
      /\ stack # <<>> /\ Top.pc \in {"render", "primary", "secondary"} /\ stack' = Pop
  BY DEF Render, TimedOut, RenderWoken, PrimaryEnds, SecondaryEnds, RenderTimedOut,
     DownloadTimedOut
<1>3. /\ Len(stack) \in 1..Len(stack) /\ Len(stack) \in Nat /\ Len(stack') = Len(stack) - 1
      /\ stack' \in Seq(FrameSet) /\ Top = stack[Len(stack)]
      /\ \A i \in 1..Len(stack') : i \in 1..Len(stack) /\ i # Len(stack) /\ stack'[i] = stack[i]
  BY <1>1, <1>2, Popped DEF ShapeInv
<1>4. InFiles(Top) \/ Top.pc = "render" BY <1>2 DEF InFiles
<1>5. Top.paste \in 1..Len(paste) BY <1>1, <1>3, <1>4 DEF ShapeInv
<1> DEFINE p == Top.paste
           item == paste[p].item
<1>6. renderedData # NoKey =>
        /\ Fresh(renderedData, item)
        /\ pendingAnnouncement \in 1..Len(log) /\ renderedData = log[pendingAnnouncement]
  BY <1>3, <1>4, BytesFresh
<1>7. InFiles(Top) /\ fileDownloadPaths # NoKey => Fresh(fileDownloadPaths, item)
  BY <1>3, PathsFresh
<1>8. renderedData \in Key \cup {NoKey} /\ fileDownloadPaths \in Key \cup {NoKey}
  BY <1>1, KeyOfPending DEF TypeOK
<1>9. /\ renderSemaphore' \in Nat
      /\ \/ UNCHANGED fileDownloadPaths
         \/ fileDownloadPaths' = renderedData /\ renderedData # NoKey
  BY <1>1 DEF Render, TimedOut, RenderWoken, PrimaryEnds, SecondaryEnds, RenderTimedOut,
     DownloadTimedOut, TypeOK
<1>10. PICK k \in Key \cup {NoKey} : paste' = Got(p, k) /\ (k # NoKey => Fresh(k, item))
  BY EndedCallback
<1>11. /\ paste' \in Seq(PasteSet) /\ Len(paste') = Len(paste)
       /\ \A q \in 1..Len(paste) :
            /\ paste'[q].item = paste[q].item /\ paste'[q].at = paste[q].at
            /\ paste'[q].got = IF q = p THEN k ELSE paste[q].got
  <2>1. paste \in Seq(PasteSet) /\ p \in 1..Len(paste) BY <1>1, <1>5 DEF ShapeInv
  <2> HIDE DEF p
  <2>2. /\ Got(p, k) \in Seq(PasteSet) /\ Len(Got(p, k)) = Len(paste)
        /\ \A q \in 1..Len(paste) :
             /\ Got(p, k)[q].item = paste[q].item /\ Got(p, k)[q].at = paste[q].at
             /\ Got(p, k)[q].got = IF q = p THEN k ELSE paste[q].got
    BY <2>1, GotProperties
  <2> QED BY <1>10, <2>2
<1>12. /\ DOMAIN paste = 1..Len(paste) /\ DOMAIN paste' = 1..Len(paste)
       /\ DOMAIN stack = 1..Len(stack) /\ DOMAIN stack' = 1..Len(stack')
  BY <1>1, <1>3, <1>11, LenProperties DEF ShapeInv
<1>13. \A i \in 1..Len(stack') : /\ i \in 1..Len(stack) /\ stack'[i] = stack[i]
                                 /\ InFiles(stack[i]) /\ stack[i].paste \in 1..Len(paste)
  <2> TAKE i \in 1..Len(stack')
  <2>1. i \in 1..Len(stack) /\ i # Len(stack) /\ stack'[i] = stack[i] BY <1>3
  <2>2. i < Len(stack)
    <3> DEFINE n == Len(stack)
    <3>1. n \in Nat /\ i \in 1..n /\ i # n BY <1>3, <2>1
    <3> HIDE DEF n
    <3>2. i < n BY <3>1
    <3> QED BY <3>2 DEF n
  <2>3. InFiles(stack[i]) BY <1>1, <1>12, <2>1, <2>2 DEF TypeOK, InFiles
  <2> QED BY <1>1, <2>1, <2>3 DEF ShapeInv
<1>14. TypeOK'
  <2>1. \A i \in 1..Len(stack') :
          /\ stack'[i].pc \in {"primary", "secondary"} /\ stack'[i].paste \in 0..Len(paste')
    BY <1>1, <1>11, <1>12, <1>13 DEF TypeOK, InFiles
  <2>2. \A q \in 1..Len(paste) : paste'[q].at \in 0..Len(log) BY <1>1, <1>11, <1>12 DEF TypeOK
  <2>3. fileDownloadPaths' \in Key \cup {NoKey} BY <1>8, <1>9
  <2> QED BY <1>1, <1>2, <1>9, <1>12, <2>1, <2>2, <2>3 DEF TypeOK, KeyOf
<1>15. ShapeInv' BY <1>1, <1>2, <1>3, <1>11, <1>13 DEF ShapeInv
<1>16. ~Declaring /\ ~Declaring'
  <2>1. ~Declaring BY <1>2 DEF Declaring
  <2>2. ASSUME stack' # <<>> PROVE InFiles(Top')
    <3>1. Len(stack') \in 1..Len(stack')
      <4> DEFINE n == Len(stack')
      <4>1. n \in Nat /\ n # 0 BY <1>3, <2>2, EmptySeq, LenProperties
      <4> HIDE DEF n
      <4>2. n \in 1..n BY <4>1
      <4> QED BY <4>2 DEF n
    <3> QED BY <1>13, <3>1 DEF Top
  <2> QED BY <2>1, <2>2 DEF Declaring, InFiles
<1>17. OrderInv'
  BY <1>1, <1>2, <1>11, <1>13, <1>16 DEF OrderInv, InFiles
<1>18. FilesInv'
  <2>1. CASE UNCHANGED fileDownloadPaths
    <3> SUFFICES ASSUME fileDownloadPaths # NoKey PROVE FilesInv' BY <2>1 DEF FilesInv
    <3>1. PICK n \in 1..Len(log) :
            /\ log[n] = fileDownloadPaths
            /\ \A i \in 1..Len(stack) : InFiles(stack[i]) => paste[stack[i].paste].item <= n
            /\ contents.from = "announced" /\ Kind[log[contents.n]] = "files" => contents.n <= n
      BY <1>1 DEF FilesInv
    <3>2. \A i \in 1..Len(stack') : paste'[stack'[i].paste].item <= n
      <4> TAKE i \in 1..Len(stack')
      <4>1. /\ i \in 1..Len(stack) /\ stack'[i] = stack[i] /\ InFiles(stack[i])
            /\ stack[i].paste \in 1..Len(paste)
        BY <1>13
      <4>2. paste[stack[i].paste].item <= n BY <3>1, <4>1
      <4>3. paste'[stack[i].paste].item = paste[stack[i].paste].item BY <1>11, <4>1
      <4> QED BY <4>1, <4>2, <4>3
    <3> QED BY <1>2, <2>1, <3>1, <3>2 DEF FilesInv
  <2>2. CASE fileDownloadPaths' = renderedData /\ renderedData # NoKey
    <3>1. pendingAnnouncement \in 1..Len(log) /\ log[pendingAnnouncement] = fileDownloadPaths'
      BY <1>6, <2>2
    <3>2. pendingAnnouncement # 0 BY <1>1, <2>2, PasteboardAssumption DEF TypeOK, KeyOf
    <3>3. \A i \in 1..Len(stack') : paste'[stack'[i].paste].item <= pendingAnnouncement
      BY <1>1, <1>11, <1>13, <3>2 DEF OrderInv
    <3>4. contents.from = "announced" => contents.n <= pendingAnnouncement
      BY <1>1, <1>16, <3>1, <3>2 DEF OrderInv
    <3> QED BY <1>2, <3>1, <3>3, <3>4 DEF FilesInv
  <2> QED BY <1>9, <2>1, <2>2
<1>19. PasteFresh'
  <2> SUFFICES ASSUME NEW q \in 1..Len(paste), paste'[q].got # NoKey
               PROVE  Fresh(paste'[q].got, paste[q].item)
    BY <1>2, <1>11, <1>12 DEF PasteFresh, Fresh
  <2>1. CASE q = p BY <1>10, <1>11, <2>1
  <2>2. CASE q # p BY <1>1, <1>11, <1>12, <2>2 DEF PasteFresh, Fresh
  <2> QED BY <2>1, <2>2
<1>20. RequestOutstanding' BY <1>1, <1>2 DEF RequestOutstanding, KeyOf
<1>21. PollInv' BY <1>1, <1>2 DEF PollInv
<1> QED BY <1>14, <1>15, <1>17, <1>18, <1>19, <1>20, <1>21 DEF IInv

\* A frame of the parent is logged: what was there keeps its number.
LEMMA LogGrows ==
  ASSUME TypeOK, ShapeInv, NEW k \in Key, log' = Append(log, k)
  PROVE  /\ log' \in Seq(Key) /\ Len(log) \in Nat /\ Len(log') = Len(log) + 1
         /\ log'[Len(log')] = k /\ Len(log') \in 1..Len(log')
         /\ \A n \in 1..Len(log) : n \in 1..Len(log') /\ log'[n] = log[n] /\ n <= Len(log')
         /\ \A n \in 0..Len(log) : n \in 0..Len(log')
         /\ UNCHANGED pendingAnnouncement => KeyOf(pendingAnnouncement)' = KeyOf(pendingAnnouncement)
<1>1. /\ log' \in Seq(Key) /\ Len(log) \in Nat /\ Len(log') = Len(log) + 1
      /\ log'[Len(log) + 1] = k /\ Len(log) + 1 \in 1..Len(log')
      /\ \A n \in 1..Len(log) : n \in 1..Len(log') /\ log'[n] = log[n]
  BY Appended DEF TypeOK
<1>2. /\ \A n \in 1..Len(log) : n <= Len(log')
      /\ \A n \in 0..Len(log) : n \in 0..Len(log') /\ (n # 0 => n \in 1..Len(log))
  <2> DEFINE m == Len(log)
             h == Len(log')
  <2>1. m \in Nat /\ h = m + 1 BY <1>1
  <2> HIDE DEF m, h
  <2>2. (\A n \in 1..m : n <= h) /\ \A n \in 0..m : n \in 0..h /\ (n # 0 => n \in 1..m)
    BY <2>1
  <2> QED BY <2>2 DEF m, h
<1>3. pendingAnnouncement \in 0..Len(log) BY DEF TypeOK
<1> QED BY <1>1, <1>2, <1>3 DEF KeyOf

\* setClipboard and announceDelayed.
LEMMA ParentStep ==
  ASSUME IInv, NEW k \in Key, SetClipboard(k) \/ AnnounceDelayed(k)
  PROVE  IInv'
<1> USE DEF lockVars, fileVars, boardVars, pollVars
<1>1. TypeOK /\ ShapeInv /\ OrderInv /\ FilesInv /\ PasteFresh /\ RequestOutstanding /\ PollInv
  BY DEF IInv
<1>2. /\ MainRuns /\ log' = Append(log, k) /\ lastSetHash' = k
      /\ UNCHANGED <<fileVars, copy, pollVars, renderSemaphore, signalling, asked, paste>>
  BY DEF SetClipboard, AnnounceDelayed
<1>3. /\ log' \in Seq(Key) /\ Len(log) \in Nat /\ Len(log') = Len(log) + 1
      /\ log'[Len(log')] = k /\ Len(log') \in 1..Len(log')
      /\ \A n \in 1..Len(log) : n \in 1..Len(log') /\ log'[n] = log[n] /\ n <= Len(log')
      /\ \A n \in 0..Len(log) : n \in 0..Len(log')
      /\ UNCHANGED pendingAnnouncement => KeyOf(pendingAnnouncement)' = KeyOf(pendingAnnouncement)
  BY <1>1, <1>2, LogGrows
<1>4. PICK f \in FrameSet :
        /\ stack' = Append(stack, f) /\ f.paste = 0
        /\ f.pc = IF SetClipboard(k) THEN "record" ELSE "declare"
  <2>1. CASE SetClipboard(k)
    <3>1. [pc |-> "record", paste |-> 0] \in FrameSet BY DEF FrameSet
    <3> QED BY <2>1, <3>1 DEF SetClipboard
  <2>2. CASE ~SetClipboard(k)
    <3>1. [pc |-> "declare", paste |-> 0] \in FrameSet BY DEF FrameSet
    <3>2. stack' = Append(stack, [pc |-> "declare", paste |-> 0]) BY <2>2 DEF AnnounceDelayed
    <3> QED BY <2>2, <3>1, <3>2
  <2> QED BY <2>1, <2>2
<1>5. /\ stack' \in Seq(FrameSet) /\ stack' # <<>> /\ Top' = f
      /\ DOMAIN stack' = 1..Len(stack') /\ Len(stack') \in Nat
      /\ \A i \in 1..Len(stack') :
           \/ i \in 1..Len(stack) /\ stack'[i] = stack[i] /\ InFiles(stack'[i])
           \/ i = Len(stack') /\ stack'[i] = f
  BY <1>1, <1>2, <1>4, PushedProperties
<1>6. ~InFiles(f) /\ f.pc # "render" BY <1>4 DEF InFiles
<1>7. /\ DOMAIN paste = 1..Len(paste) /\ DOMAIN stack = 1..Len(stack)
  BY <1>1, LenProperties DEF ShapeInv
<1>8. \A q \in 1..Len(paste) : paste[q].item \in 1..Len(log) /\ paste[q].at \in 0..Len(log)
  BY <1>1, <1>7 DEF TypeOK, ShapeInv
<1>9. PasteFresh'
  <2> SUFFICES ASSUME NEW q \in 1..Len(paste), paste[q].got # NoKey
               PROVE  IF Kind[log'[paste[q].item]] = "text" THEN paste[q].got = log'[paste[q].item]
                      ELSE \E i \in paste[q].item..Len(log') : log'[i] = paste[q].got
    BY <1>2, <1>7 DEF PasteFresh
  <2>1. log'[paste[q].item] = log[paste[q].item] /\ paste[q].item \in Nat BY <1>3, <1>8
  <2>2. \A i \in paste[q].item..Len(log) : i \in paste[q].item..Len(log') /\ log'[i] = log[i]
    <3> TAKE i \in paste[q].item..Len(log)
    <3>1. i \in 1..Len(log) BY <1>3, <1>8
    <3>2. log'[i] = log[i] /\ i <= Len(log') BY <1>3, <3>1
    <3>3. paste[q].item \in Nat /\ i \in Nat /\ paste[q].item <= i BY <1>8, <2>1
    <3>4. Len(log') \in Nat BY <1>3
    <3> QED BY <3>2, <3>3, <3>4
  <2> QED BY <1>1, <1>7, <2>1, <2>2 DEF PasteFresh
<1>10. /\ contents' \in [from : {"none", "announced", "set", "copy"}, n : Nat]
       /\ changeCount' \in Nat /\ lastChangeCount' \in 0..changeCount'
       /\ \/ contents'.from = "set" /\ contents'.n = Len(log')
          \/ UNCHANGED <<contents, changeCount>>
  <2>1. CASE SetClipboard(k)
    <3>1. contents' = [from |-> "set", n |-> Len(log')] /\ changeCount' = changeCount + 1
      BY <1>3, <2>1 DEF SetClipboard, Contents
    <3>2. Len(log') \in Nat BY <1>3
    <3> QED BY <1>1, <1>2, <3>1, <3>2 DEF TypeOK, ShapeInv
  <2>2. CASE AnnounceDelayed(k) BY <1>1, <1>2, <2>2 DEF AnnounceDelayed, TypeOK, ShapeInv
  <2> QED BY <2>1, <2>2
<1>11. /\ pendingAnnouncement' \in 0..Len(log')
       /\ renderedData' \in {NoKey, KeyOf(pendingAnnouncement)'}
       /\ isRequestInFlight' \in BOOLEAN
  <2>1. CASE SetClipboard(k) BY <1>1, <1>3, <2>1 DEF SetClipboard, TypeOK
  <2>2. CASE AnnounceDelayed(k)
    <3>1. isRequestInFlight' \in BOOLEAN BY <2>2, Zenon DEF AnnounceDelayed
    <3>2. pendingAnnouncement' = Len(log') /\ renderedData' = NoKey
      BY <1>3, <2>2 DEF AnnounceDelayed
    <3>3. Len(log') \in 0..Len(log') BY <1>3
    <3> QED BY <3>1, <3>2, <3>3
  <2> QED BY <2>1, <2>2
<1>12. TypeOK'
  <2>1. \A i \in 1..Len(stack') :
          /\ stack'[i].pc \in {"declare", "record", "render", "primary", "secondary"}
          /\ stack'[i].paste \in 0..Len(paste)
          /\ i < Len(stack') => stack'[i].pc \in {"primary", "secondary"}
    <3> TAKE i \in 1..Len(stack')
    <3>1. CASE i \in 1..Len(stack) /\ stack'[i] = stack[i] /\ InFiles(stack'[i])
      BY <1>1, <1>7, <3>1 DEF TypeOK, InFiles
    <3>2. CASE i = Len(stack') /\ stack'[i] = f
      <4>1. 0 \in 0..Len(paste) BY <1>1, LenProperties DEF ShapeInv
      <4>2. ~(i < Len(stack'))
        <5> DEFINE h == Len(stack')
        <5>1. h \in Nat /\ i = h BY <1>5, <3>2
        <5> HIDE DEF h
        <5>2. ~(i < h) BY <5>1
        <5> QED BY <5>2 DEF h
      <4> QED BY <1>4, <3>2, <4>1, <4>2
    <3> QED BY <1>5, <3>1, <3>2
  <2>2. \A q \in 1..Len(paste) : paste[q].at \in 0..Len(log') BY <1>3, <1>8
  <2> QED BY <1>1, <1>2, <1>3, <1>5, <1>7, <1>10, <1>11, <2>1, <2>2 DEF TypeOK
<1>13. ShapeInv'
  <2>1. \A i \in 1..Len(stack') : InFiles(stack'[i]) \/ stack'[i].pc = "render"
          => stack'[i].paste \in 1..Len(paste)
    BY <1>1, <1>5, <1>6 DEF ShapeInv
  <2>2. /\ contents'.from \in {"announced", "set"} => contents'.n \in 1..Len(log')
        /\ contents'.from = "copy" => contents'.n \in 1..Len(copy)
    BY <1>1, <1>3, <1>10 DEF ShapeInv
  <2>3. \A q \in 1..Len(paste) : paste[q].item \in 1..Len(log') BY <1>3, <1>8
  <2> QED BY <1>1, <1>2, <1>5, <1>10, <2>1, <2>2, <2>3 DEF ShapeInv
<1>14. \A i \in 1..Len(stack') : InFiles(stack'[i]) \/ stack'[i].pc = "render" =>
         /\ i \in 1..Len(stack) /\ stack'[i] = stack[i] /\ InFiles(stack[i])
         /\ paste[stack[i].paste].item \in 1..Len(log)
         /\ Kind[log[paste[stack[i].paste].item]] = "files"
  BY <1>1, <1>5, <1>6, <1>8 DEF ShapeInv, OrderInv
<1>15. OrderInv'
  <2>1. ASSUME NEW i \in 1..Len(stack'), InFiles(stack'[i]) \/ stack'[i].pc = "render"
        PROVE  LET item == paste[stack'[i].paste].item IN
               /\ stack'[i].pc # "render" /\ Kind[log'[item]] = "files"
               /\ pendingAnnouncement' # 0 => item <= pendingAnnouncement'
    <3>1. /\ i \in 1..Len(stack) /\ stack'[i] = stack[i] /\ InFiles(stack[i])
          /\ paste[stack[i].paste].item \in 1..Len(log)
          /\ Kind[log[paste[stack[i].paste].item]] = "files"
      BY <1>14, <2>1
    <3>2. Kind[log'[paste[stack[i].paste].item]] = "files" BY <1>3, <3>1
    <3>3. pendingAnnouncement' # 0 => paste[stack[i].paste].item <= pendingAnnouncement'
      <4>1. CASE SetClipboard(k) BY <1>1, <3>1, <4>1 DEF SetClipboard, OrderInv
      <4>2. CASE AnnounceDelayed(k) BY <1>3, <3>1, <4>2 DEF AnnounceDelayed
      <4> QED BY <4>1, <4>2
    <3> QED BY <3>1, <3>2, <3>3 DEF InFiles
  <2>2. contents'.from = "announced" => Declaring'
    <3>1. CASE SetClipboard(k) BY <3>1 DEF SetClipboard, Contents
    <3>2. CASE ~SetClipboard(k) BY <1>4, <1>5, <3>2 DEF Declaring
    <3> QED BY <3>1, <3>2
  <2>3. Declaring' => pendingAnnouncement' = Len(log') /\ Len(log') > 0
    <3>1. Declaring' => AnnounceDelayed(k) BY <1>4, <1>5 DEF Declaring
    <3> QED BY <1>3, <3>1 DEF AnnounceDelayed
  <2> QED BY <1>2, <2>1, <2>2, <2>3 DEF OrderInv
<1>16. FilesInv'
  <2> SUFFICES ASSUME fileDownloadPaths # NoKey PROVE FilesInv' BY <1>2 DEF FilesInv
  <2>1. PICK n \in 1..Len(log) :
          /\ log[n] = fileDownloadPaths
          /\ \A i \in 1..Len(stack) : InFiles(stack[i]) => paste[stack[i].paste].item <= n
          /\ contents.from = "announced" /\ Kind[log[contents.n]] = "files" => contents.n <= n
    BY <1>1 DEF FilesInv
  <2>2. \A i \in 1..Len(stack') : InFiles(stack'[i]) => paste[stack'[i].paste].item <= n
    BY <1>14, <2>1
  <2>3. n \in 1..Len(log') /\ log'[n] = fileDownloadPaths BY <1>3, <2>1
  <2>4. contents'.from = "announced" /\ Kind[log'[contents'.n]] = "files" => contents'.n <= n
    BY <1>1, <1>3, <1>10, <2>1 DEF ShapeInv
  <2> QED BY <1>2, <2>2, <2>3, <2>4 DEF FilesInv
<1>17. RequestOutstanding'
  BY <1>1, <1>2, <1>3 DEF SetClipboard, AnnounceDelayed, RequestOutstanding
<1>18. PollInv'
  <2>1. lastSetHash' # NoKey => \E i \in 1..Len(log') : log'[i] = lastSetHash' BY <1>2, <1>3
  <2>2. CASE SetClipboard(k)
    <3>1. contents'.from = "set" BY <2>2 DEF SetClipboard, Contents
    <3>2. stack' # <<>> /\ Top'.pc = "record" BY <1>4, <1>5, <2>2
    <3> QED BY <2>1, <3>1, <3>2 DEF PollInv
  <2>3. CASE AnnounceDelayed(k)
    <3>1. UNCHANGED <<contents, changeCount>> BY <2>3 DEF AnnounceDelayed
    <3>2. changeCount # lastChangeCount => contents.from = "copy"
      BY <1>1, <1>2 DEF PollInv, MainRuns
    <3>3. changeCount = lastChangeCount /\ contents.from = "copy" =>
            \/ contents.n \in reported \cup missed
            \/ \E i \in 1..Len(log') : log'[i] = copy[contents.n]
      BY <1>1, <1>3 DEF PollInv
    <3> QED BY <1>2, <2>1, <3>1, <3>2, <3>3 DEF PollInv
  <2> QED BY <2>2, <2>3
<1> QED BY <1>9, <1>12, <1>13, <1>15, <1>16, <1>17, <1>18 DEF IInv

\* What is left on the stack when the innermost handler returns.
LEMMA LeftOnStack ==
  ASSUME TypeOK, ShapeInv, stack # <<>>
  PROVE  /\ Pop \in Seq(FrameSet)
         /\ \A i \in 1..Len(Pop) : /\ i \in 1..Len(stack) /\ Pop[i] = stack[i] /\ InFiles(stack[i])
                                   /\ stack[i].paste \in 1..Len(paste)
         /\ Pop # <<>> => InFiles(Pop[Len(Pop)])
<1>1. /\ Pop \in Seq(FrameSet) /\ Len(stack) \in Nat
      /\ \A i \in 1..Len(Pop) : i \in 1..Len(stack) /\ i # Len(stack) /\ Pop[i] = stack[i]
  BY Popped DEF ShapeInv
<1>2. DOMAIN stack = 1..Len(stack) BY LenProperties DEF ShapeInv
<1>3. ASSUME NEW i \in 1..Len(Pop) PROVE InFiles(stack[i])
  <2>1. i < Len(stack)
    <3> DEFINE n == Len(stack)
    <3>1. n \in Nat /\ i \in 1..n /\ i # n BY <1>1
    <3> HIDE DEF n
    <3>2. i < n BY <3>1
    <3> QED BY <3>2 DEF n
  <2> QED BY <1>1, <1>2, <2>1 DEF TypeOK, InFiles
<1>4. ASSUME Pop # <<>> PROVE Len(Pop) \in 1..Len(Pop)
  <2> DEFINE n == Len(Pop)
  <2>1. n \in Nat /\ n # 0 BY <1>1, <1>4, EmptySeq, LenProperties
  <2> HIDE DEF n
  <2>2. n \in 1..n BY <2>1
  <2> QED BY <2>2 DEF n
<1> QED BY <1>1, <1>3, <1>4 DEF ShapeInv

\* The rest of announceDelayed: the pasteboard now holds what is pending.
LEMMA DeclareStep ==
  ASSUME IInv, Declare
  PROVE  IInv'
<1> USE DEF lockVars, fileVars, boardVars, pollVars
<1>1. TypeOK /\ ShapeInv /\ OrderInv /\ FilesInv /\ PasteFresh /\ RequestOutstanding /\ PollInv
  BY DEF IInv
<1> DEFINE f == [pc |-> "record", paste |-> 0]
<1>2. /\ stack # <<>> /\ Top.pc = "declare" /\ stack' = Append(Pop, f)
      /\ UNCHANGED <<pendingAnnouncement, copy, pollVars, lastSetHash, signalling, asked, log, paste>>
      /\ renderSemaphore' = 0 /\ changeCount' = changeCount + 1
  BY DEF Declare
<1>3. pendingAnnouncement = Len(log) /\ Len(log) > 0 BY <1>1, <1>2 DEF OrderInv, Declaring
<1>4. Len(log) \in Nat /\ Len(log) \in 1..Len(log)
  <2> DEFINE n == Len(log)
  <2>1. n \in Nat /\ n > 0 BY <1>1, <1>3, LenProperties DEF TypeOK
  <2> HIDE DEF n
  <2>2. n \in 1..n BY <2>1
  <2> QED BY <2>1, <2>2 DEF n
<1>5. contents' = [from |-> "announced", n |-> Len(log)] BY DEF Declare, Contents
<1>6. f \in FrameSet /\ f.pc = "record" /\ f.paste = 0 /\ ~InFiles(f) BY DEF FrameSet, InFiles
<1>7. /\ Pop \in Seq(FrameSet)
      /\ \A i \in 1..Len(Pop) : /\ i \in 1..Len(stack) /\ Pop[i] = stack[i] /\ InFiles(stack[i])
                                /\ stack[i].paste \in 1..Len(paste)
  BY <1>1, <1>2, LeftOnStack
<1> HIDE DEF f
<1>8. /\ stack' \in Seq(FrameSet) /\ stack' # <<>> /\ Len(Pop) \in Nat
      /\ Len(stack') = Len(Pop) + 1 /\ stack'[Len(Pop) + 1] = f
      /\ \A i \in 1..Len(Pop) : i \in 1..Len(stack') /\ stack'[i] = Pop[i]
      /\ \A i \in 1..Len(stack') : i \in 1..Len(Pop) \/ i = Len(Pop) + 1
  BY <1>2, <1>6, <1>7, Appended
<1>9. \A i \in 1..Len(stack') :
        \/ /\ i \in 1..Len(stack) /\ stack'[i] = stack[i] /\ InFiles(stack'[i])
           /\ stack[i].paste \in 1..Len(paste)
        \/ i = Len(stack') /\ stack'[i] = f
  BY <1>7, <1>8
<1>10. Top' = f BY <1>8 DEF Top
<1>11. /\ DOMAIN stack' = 1..Len(stack') /\ DOMAIN stack = 1..Len(stack) /\ Len(stack') \in Nat
  BY <1>1, <1>8, LenProperties DEF ShapeInv
<1>12. TypeOK'
  <2>1. \A i \in 1..Len(stack') :
          /\ stack'[i].pc \in {"declare", "record", "render", "primary", "secondary"}
          /\ stack'[i].paste \in 0..Len(paste)
          /\ i < Len(stack') => stack'[i].pc \in {"primary", "secondary"}
    <3> TAKE i \in 1..Len(stack')
    <3>1. CASE /\ i \in 1..Len(stack) /\ stack'[i] = stack[i] /\ InFiles(stack'[i])
      BY <1>1, <1>11, <3>1 DEF TypeOK, InFiles
    <3>2. CASE i = Len(stack') /\ stack'[i] = f
      <4>1. 0 \in 0..Len(paste) BY <1>1, LenProperties DEF ShapeInv
      <4>2. ~(i < Len(stack'))
        <5> DEFINE h == Len(stack')
        <5>1. h \in Nat /\ i = h BY <1>11, <3>2
        <5> HIDE DEF h
        <5>2. ~(i < h) BY <5>1
        <5> QED BY <5>2 DEF h
      <4> QED BY <1>6, <3>2, <4>1, <4>2
    <3> QED BY <1>9, <3>1, <3>2
  <2>2. /\ isRequestInFlight' \in BOOLEAN /\ fileDownloadTriggered' \in BOOLEAN
        /\ fileDownloadCancelled' \in BOOLEAN
    <3>1. /\ isRequestInFlight' = FALSE \/ isRequestInFlight' = isRequestInFlight
          /\ fileDownloadTriggered' = FALSE \/ fileDownloadTriggered' = fileDownloadTriggered
          /\ fileDownloadCancelled' = FALSE \/ fileDownloadCancelled' = fileDownloadCancelled
      BY DEF Declare
    <3>2. /\ isRequestInFlight \in BOOLEAN /\ fileDownloadTriggered \in BOOLEAN
          /\ fileDownloadCancelled \in BOOLEAN
      BY <1>1 DEF TypeOK
    <3> QED BY <3>1, <3>2, Zenon
  <2>3. /\ renderedData' \in {NoKey, KeyOf(pendingAnnouncement)'}
        /\ fileDownloadPaths' \in Key \cup {NoKey}
    BY <1>1, <1>2 DEF Declare, TypeOK, KeyOf
  <2>4. lastChangeCount' \in 0..changeCount' BY <1>1, <1>2 DEF TypeOK, ShapeInv
  <2> QED BY <1>1, <1>2, <1>11, <2>1, <2>2, <2>3, <2>4 DEF TypeOK
<1>13. ShapeInv'
  <2>1. \A i \in 1..Len(stack') : InFiles(stack'[i]) \/ stack'[i].pc = "render"
          => stack'[i].paste \in 1..Len(paste)
    BY <1>6, <1>9
  <2> QED BY <1>1, <1>2, <1>4, <1>5, <1>8, <2>1 DEF ShapeInv
<1>14. OrderInv'
  <2>1. \A i \in 1..Len(stack') : InFiles(stack'[i]) \/ stack'[i].pc = "render" =>
          i \in 1..Len(stack) /\ stack'[i] = stack[i]
    BY <1>6, <1>9
  <2>2. ~Declaring' BY <1>6, <1>10 DEF Declaring
  <2>3. pendingAnnouncement' = contents'.n BY <1>2, <1>3, <1>5
  <2>4. ASSUME NEW i \in 1..Len(stack')
        PROVE  LET item == paste'[stack'[i].paste].item IN
               /\ stack'[i].pc = "render" => pendingAnnouncement' = item
               /\ InFiles(stack'[i]) => /\ Kind[log'[item]] = "files"
                                        /\ pendingAnnouncement' # 0
                                             => item <= pendingAnnouncement'
    <3>1. CASE InFiles(stack'[i]) \/ stack'[i].pc = "render"
      <4>1. i \in 1..Len(stack) /\ stack'[i] = stack[i] BY <2>1, <3>1
      <4>2. paste' = paste /\ log' = log /\ pendingAnnouncement' = pendingAnnouncement BY <1>2
      <4> QED BY <1>1, <4>1, <4>2 DEF OrderInv
    <3>2. CASE ~(InFiles(stack'[i]) \/ stack'[i].pc = "render") BY <3>2
    <3> QED BY <3>1, <3>2
  <2> QED BY <2>2, <2>3, <2>4 DEF OrderInv
<1>15. FilesInv'
  <2>1. CASE Kind[log[Len(log)]] = "files" BY <2>1 DEF Declare, FilesInv
  <2>2. CASE Kind[log[Len(log)]] # "files"
    <3>1. UNCHANGED fileDownloadPaths BY <2>2 DEF Declare
    <3> SUFFICES ASSUME fileDownloadPaths # NoKey PROVE FilesInv' BY <3>1 DEF FilesInv
    <3>2. PICK n \in 1..Len(log) :
            /\ log[n] = fileDownloadPaths
            /\ \A i \in 1..Len(stack) : InFiles(stack[i]) => paste[stack[i].paste].item <= n
      BY <1>1 DEF FilesInv
    <3>3. \A i \in 1..Len(stack') : InFiles(stack'[i]) => paste[stack'[i].paste].item <= n
      BY <1>6, <1>9, <3>2
    <3>4. ~(contents'.from = "announced" /\ Kind[log[contents'.n]] = "files") BY <1>5, <2>2
    <3> QED BY <1>2, <3>1, <3>2, <3>3, <3>4 DEF FilesInv
  <2> QED BY <2>1, <2>2
<1>16. PasteFresh' BY <1>1, <1>2 DEF PasteFresh
<1>17. RequestOutstanding' BY <1>1, <1>2 DEF Declare, RequestOutstanding, KeyOf
<1>18. PollInv' BY <1>1, <1>2, <1>5, <1>6, <1>8, <1>10 DEF PollInv
<1> QED BY <1>12, <1>13, <1>14, <1>15, <1>16, <1>17, <1>18 DEF IInv

\* The change count is recorded and the handler returns.
LEMMA RecordStep ==
  ASSUME IInv, RecordChangeCount
  PROVE  IInv'
<1> USE DEF lockVars, fileVars, boardVars, pollVars
<1>1. TypeOK /\ ShapeInv /\ OrderInv /\ FilesInv /\ PasteFresh /\ RequestOutstanding /\ PollInv
  BY DEF IInv
<1>2. /\ stack # <<>> /\ Top.pc = "record" /\ stack' = Pop /\ lastChangeCount' = changeCount
      /\ UNCHANGED <<lockVars, fileVars, boardVars, reported, renderSemaphore, lastSetHash,
                     signalling, asked, log, paste>>
  BY DEF RecordChangeCount
<1>3. /\ stack' \in Seq(FrameSet)
      /\ \A i \in 1..Len(stack') : /\ i \in 1..Len(stack) /\ stack'[i] = stack[i]
                                   /\ InFiles(stack[i]) /\ stack[i].paste \in 1..Len(paste)
      /\ stack' # <<>> => InFiles(Top')
  BY <1>1, <1>2, LeftOnStack DEF Top
<1>4. DOMAIN stack' = 1..Len(stack') /\ DOMAIN stack = 1..Len(stack)
  BY <1>1, <1>3, LenProperties DEF ShapeInv
<1>5. TypeOK'
  <2>1. \A i \in 1..Len(stack') : /\ stack'[i].pc \in {"primary", "secondary"}
                                  /\ stack'[i].paste \in 0..Len(paste)
    BY <1>1, <1>3, <1>4 DEF TypeOK, InFiles
  <2>2. changeCount \in 0..changeCount BY <1>1 DEF ShapeInv
  <2> QED BY <1>1, <1>2, <1>4, <2>1, <2>2 DEF TypeOK, KeyOf
<1>6. ShapeInv' BY <1>1, <1>2, <1>3 DEF ShapeInv
<1>7. ~Declaring /\ ~Declaring' BY <1>2, <1>3 DEF Declaring, InFiles
<1>8. OrderInv' BY <1>1, <1>2, <1>3, <1>7 DEF OrderInv
<1>9. FilesInv' BY <1>1, <1>2, <1>3 DEF FilesInv
<1>10. PasteFresh' /\ RequestOutstanding' BY <1>1, <1>2 DEF PasteFresh, RequestOutstanding, KeyOf
<1>11. PollInv' BY <1>1, <1>2 DEF RecordChangeCount, PollInv
<1> QED BY <1>5, <1>6, <1>8, <1>9, <1>10, <1>11 DEF IInv

\* Another application takes the pasteboard, and the main thread hears of it.
LEMMA OwnerStep ==
  ASSUME IInv, PasteboardChangedOwner \/ \E k \in Key \cup {Other} : AppCopy(k)
  PROVE  IInv'
<1> USE DEF lockVars, fileVars, boardVars, pollVars
<1>1. TypeOK /\ ShapeInv /\ OrderInv /\ FilesInv /\ PasteFresh /\ RequestOutstanding /\ PollInv
  BY DEF IInv
<1>2. UNCHANGED <<stack, paste, log, fileVars, pollVars, lastSetHash, signalling, asked>>
  BY DEF PasteboardChangedOwner, AppCopy
<1>3. CASE PasteboardChangedOwner
  <2>1. /\ MainRuns /\ pendingAnnouncement' = 0 /\ renderedData' = NoKey
        /\ isRequestInFlight' = FALSE /\ renderSemaphore' = 0
        /\ UNCHANGED <<contents, changeCount, copy>>
    BY <1>3 DEF PasteboardChangedOwner
  <2>2. TypeOK'
    <3>1. isRequestInFlight' \in BOOLEAN BY <2>1, Zenon
    <3>2. 0 \in 0..Len(log) BY <1>1, LenProperties DEF TypeOK
    <3> QED BY <1>1, <1>2, <2>1, <3>1, <3>2 DEF TypeOK
  <2>3. (\A i \in 1..Len(stack) : InFiles(stack[i])) /\ ~Declaring
    BY <1>1, <2>1, RunsMeansFiles
  <2>4. OrderInv' BY <1>1, <1>2, <2>1, <2>3 DEF OrderInv, Declaring, Top, InFiles
  <2>5. ShapeInv' /\ FilesInv' /\ PasteFresh' /\ RequestOutstanding'
    BY <1>1, <1>2, <2>1 DEF ShapeInv, FilesInv, PasteFresh, RequestOutstanding
  <2>6. PollInv' BY <1>1, <1>2, <2>1 DEF PollInv, Top
  <2> QED BY <2>2, <2>4, <2>5, <2>6 DEF IInv
<1>4. CASE \E k \in Key \cup {Other} : AppCopy(k)
  <2>1. PICK k \in Key \cup {Other} : AppCopy(k) BY <1>4
  <2>2. /\ copy' = Append(copy, k) /\ changeCount' = changeCount + 1
        /\ contents' = [from |-> "copy", n |-> Len(copy) + 1]
        /\ UNCHANGED <<lockVars, renderSemaphore>>
    BY <2>1 DEF AppCopy, Contents
  <2>3. /\ copy' \in Seq(Key \cup {Other}) /\ Len(copy) \in Nat /\ Len(copy) + 1 \in 1..Len(copy')
    BY <1>1, <2>2, Appended DEF ShapeInv
  <2>4. /\ changeCount' \in Nat /\ lastChangeCount' \in 0..changeCount'
        /\ changeCount' # lastChangeCount'
    BY <1>1, <1>2, <2>2 DEF ShapeInv, TypeOK
  <2>5. TypeOK' BY <1>1, <1>2, <2>2, <2>4 DEF TypeOK, KeyOf
  <2>6. ShapeInv' BY <1>1, <1>2, <2>2, <2>3, <2>4 DEF ShapeInv
  <2>7. OrderInv' BY <1>1, <1>2, <2>2 DEF OrderInv, Declaring, Top
  <2>8. FilesInv' /\ PasteFresh' /\ RequestOutstanding'
    BY <1>1, <1>2, <2>2 DEF FilesInv, PasteFresh, RequestOutstanding, KeyOf
  <2>9. PollInv' BY <1>1, <1>2, <2>2, <2>4 DEF PollInv
  <2> QED BY <2>5, <2>6, <2>7, <2>8, <2>9 DEF IInv
<1> QED BY <1>3, <1>4
-----------------------------------------------------------------------------
(* The theorems. *)

\* The initial states satisfy the invariant and every step keeps it.
LEMMA InvHolds == Spec => []IInv
<1>1. Init => IInv
  <2> SUFFICES ASSUME Init PROVE IInv OBVIOUS
  <2>1. /\ <<>> \in Seq(Key) /\ <<>> \in Seq(FrameSet) /\ <<>> \in Seq(PasteSet)
        /\ <<>> \in Seq(Key \cup {Other}) /\ Len(<<>>) = 0
    BY EmptySeq
  <2>2. contents = [from |-> "none", n |-> 0] BY DEF Init, Contents
  <2>3. /\ isRequestInFlight \in BOOLEAN /\ fileDownloadTriggered \in BOOLEAN
        /\ fileDownloadCancelled \in BOOLEAN
    BY Zenon DEF Init
  <2>4. TypeOK BY <2>1, <2>3 DEF Init, TypeOK, KeyOf
  <2>5. ShapeInv BY <2>1, <2>2 DEF Init, ShapeInv
  <2>6. OrderInv /\ FilesInv BY <2>1, <2>2 DEF Init, OrderInv, FilesInv, Declaring
  <2>7. PasteFresh /\ RequestOutstanding BY DEF Init, PasteFresh, RequestOutstanding
  <2>8. PollInv BY <2>2 DEF Init, PollInv
  <2> QED BY <2>4, <2>5, <2>6, <2>7, <2>8 DEF IInv
<1>2. IInv /\ [Next]_vars => IInv'
  <2> SUFFICES ASSUME IInv, [Next]_vars PROVE IInv' OBVIOUS
  <2>1. CASE \E k \in Key : SetClipboard(k) \/ AnnounceDelayed(k) BY <2>1, ParentStep
  <2>2. CASE \/ \E k \in Key : ProvideData(k)
             \/ CheckForChanges \/ CancelFileDownload \/ Signal \/ DismissPanel
    BY <2>2, LightStep
  <2>3. CASE Handler BY <2>3, DeclareStep, RecordStep DEF Handler
  <2>4. CASE ProvideCached \/ ProvideFileCached BY <2>4, CachedStep
  <2>5. CASE ProvideDataForType \/ EnsureFilesDownloaded BY <2>5, WaitStep
  <2>6. CASE Render \/ TimedOut BY <2>6, RenderEndsStep
  <2>7. CASE PasteboardChangedOwner \/ \E k \in Key \cup {Other} : AppCopy(k) BY <2>7, OwnerStep
  <2>8. CASE UNCHANGED vars
    <3> USE <2>8 DEF IInv, vars, lockVars, fileVars, boardVars, pollVars, Declaring, Top, KeyOf
    <3>1. TypeOK' BY DEF TypeOK
    <3>2. ShapeInv' BY DEF ShapeInv
    <3>3. OrderInv' BY DEF OrderInv
    <3>4. FilesInv' BY DEF FilesInv
    <3>5. PasteFresh' /\ RequestOutstanding' BY DEF PasteFresh, RequestOutstanding
    <3>6. PollInv' BY DEF PollInv
    <3> QED BY <3>1, <3>2, <3>3, <3>4, <3>5, <3>6
  <2> QED BY <2>1, <2>2, <2>3, <2>4, <2>5, <2>6, <2>7, <2>8 DEF Next
<1> QED BY <1>1, <1>2, PTL DEF Spec

\* Type correctness of the pasteboard manager: the bytes under stateLock are
\* those of the pending announcement, and only renders of files are entered
\* again.
THEOREM TypeCorrect == Spec => []TypeOK
<1>1. IInv => TypeOK BY DEF IInv
<1> QED BY <1>1, InvHolds, PTL

\* No data-provider callback writes another announcement's bytes, or paths
\* older than the files it was called for, to the pasteboard.
THEOREM PasteIsFresh == Spec => []PasteFresh
<1>1. IInv => PasteFresh BY DEF IInv
<1> QED BY <1>1, InvHolds, PTL

\* isRequestInFlight never holds back a DATA_REQUEST that nobody has sent.
THEOREM RequestIsOutstanding == Spec => []RequestOutstanding
<1>1. IInv => RequestOutstanding BY DEF IInv
<1> QED BY <1>1, InvHolds, PTL

\* checkForChanges never reads contents of our own.
THEOREM NoReadOfOurOwn == Spec => []NoSelfRead
<1>1. IInv => NoSelfRead BY DEF IInv, PollInv, NoSelfRead, MainRuns
<1> QED BY <1>1, InvHolds, PTL

\* A copy the poll has caught up with has been reported, or is excused.
THEOREM CopyIsReported == Spec => []CopyReported
<1>1. IInv => CopyReported
  <2> SUFFICES ASSUME IInv PROVE CopyReported OBVIOUS
  <2>1. DOMAIN log = 1..Len(log) BY LenProperties DEF IInv, TypeOK
  <2> QED BY <2>1 DEF IInv, PollInv, CopyReported
<1> QED BY <1>1, InvHolds, PTL
-----------------------------------------------------------------------------
(* The refinement: what the applications see of the callbacks. *)

\* The frame of a data-provider callback that waits.
Waits(f) == InFiles(f) \/ f.pc = "render"

\* A callback returns once: each on the stack has not returned, and is there
\* once.
OnceInv ==
  /\ Len(paste) <= MaxPaste
  /\ \A i \in 1..Len(stack) : Waits(stack[i]) =>
       /\ ~paste[stack[i].paste].done
       /\ \A j \in 1..Len(stack) :
            Waits(stack[j]) /\ stack[j].paste = stack[i].paste => j = i

\* A step that adds no callback and ends none.
LEMMA OnceKept ==
  ASSUME OnceInv, UNCHANGED paste,
         \A i \in 1..Len(stack') :
           Waits(stack'[i]) => i \in 1..Len(stack) /\ stack'[i] = stack[i]
  PROVE  OnceInv'
<1>1. Len(paste') <= MaxPaste BY DEF OnceInv
<1>2. ASSUME NEW i \in 1..Len(stack'), Waits(stack'[i])
      PROVE  ~paste'[stack'[i].paste].done
  BY <1>2 DEF OnceInv
<1>3. ASSUME NEW i \in 1..Len(stack'), NEW j \in 1..Len(stack'), Waits(stack'[i]),
             Waits(stack'[j]), stack'[j].paste = stack'[i].paste
      PROVE  j = i
  BY <1>3 DEF OnceInv
<1>4. (\A i \in 1..Len(stack) : Waits(stack[i]) =>
         /\ ~paste[stack[i].paste].done
         /\ \A j \in 1..Len(stack) :
              Waits(stack[j]) /\ stack[j].paste = stack[i].paste => j = i)'
  BY <1>2, <1>3 DEF Waits, InFiles
<1> QED BY <1>1, <1>4 DEF OnceInv

\* The frames of announceDelayed and setClipboard are no callbacks.
LEMMA HandlersDoNotWait ==
  ASSUME IInv,
         \/ \E k \in Key : SetClipboard(k) \/ AnnounceDelayed(k)
         \/ Handler
  PROVE  \A i \in 1..Len(stack') :
           Waits(stack'[i]) => i \in 1..Len(stack) /\ stack'[i] = stack[i]
<1>1. TypeOK /\ ShapeInv BY DEF IInv
<1>2. ASSUME NEW pc \in {"record", "declare"}
      PROVE  [pc |-> pc, paste |-> 0] \in FrameSet /\ ~Waits([pc |-> pc, paste |-> 0])
  BY <1>2 DEF FrameSet, Waits, InFiles
<1>3. CASE \E k \in Key : SetClipboard(k) \/ AnnounceDelayed(k)
  <2>1. PICK f \in FrameSet : MainRuns /\ stack' = Append(stack, f) /\ ~Waits(f)
    BY <1>2, <1>3 DEF SetClipboard, AnnounceDelayed
  <2>2. \A i \in 1..Len(stack') : \/ i \in 1..Len(stack) /\ stack'[i] = stack[i]
                                  \/ stack'[i] = f
    BY <1>1, <2>1, PushedProperties
  <2> QED BY <2>1, <2>2
<1>4. CASE Declare
  <2> DEFINE f == [pc |-> "record", paste |-> 0]
  <2>1. stack # <<>> /\ stack' = Append(Pop, f) BY <1>4 DEF Declare
  <2>2. f \in FrameSet /\ ~Waits(f) BY <1>2
  <2>3. Pop \in Seq(FrameSet) /\ \A i \in 1..Len(Pop) : i \in 1..Len(stack) /\ Pop[i] = stack[i]
    BY <1>1, <2>1, LeftOnStack
  <2> HIDE DEF f
  <2>4. /\ stack'[Len(Pop) + 1] = f
        /\ \A i \in 1..Len(Pop) : stack'[i] = Pop[i]
        /\ \A i \in 1..Len(stack') : i \in 1..Len(Pop) \/ i = Len(Pop) + 1
    BY <2>1, <2>2, <2>3, Appended
  <2> QED BY <2>2, <2>3, <2>4
<1>5. CASE RecordChangeCount
  <2>1. stack # <<>> /\ stack' = Pop BY <1>5 DEF RecordChangeCount
  <2> QED BY <1>1, <2>1, LeftOnStack
<1> QED BY <1>3, <1>4, <1>5 DEF Handler

\* A new callback is at the end of the pastes and has not been seen before.
LEMMA CallbackSeen ==
  ASSUME IInv, OnceInv, NEW kind, CanPaste(kind), NEW d \in BOOLEAN, NEW g \in Key \cup {NoKey},
         paste' = Pasted(d, g), UNCHANGED log,
         g # NoKey => IF kind = "text" THEN g = log[contents.n]
                      ELSE \E n \in contents.n..Len(log) : log[n] = g
  PROVE  LET p == Len(paste) + 1
             S == [q \in 1..MaxPaste |-> Seen(q)] IN
         /\ p \in 1..MaxPaste /\ S[p].pc = "none" /\ Len(paste') <= MaxPaste
         /\ contents.n \in 1..Len(log) /\ g \in Lazy!Answers(contents.n)
         /\ S' = [S EXCEPT ![p] = [pc |-> IF d THEN "done" ELSE "open", on |-> contents.n,
                                   answer |-> g]]
<1> DEFINE p == Len(paste) + 1
           S == [q \in 1..MaxPaste |-> Seen(q)]
<1>1. /\ Len(paste) \in Nat /\ Len(paste') = Len(paste) + 1
      /\ paste'[p].item = contents.n /\ paste'[p].done = d
      /\ paste'[p].got = g /\ p \in 1..Len(paste')
      /\ \A q \in 1..Len(paste) : paste'[q] = paste[q]
      /\ contents.n \in 1..Len(log) /\ Kind[log[contents.n]] = kind
  BY PastedProperties
<1>2. Len(paste) < MaxPaste BY DEF CanPaste
<1>3. MaxPaste \in Nat BY PasteboardAssumption
<1>4. /\ p \in 1..MaxPaste /\ p \notin 1..Len(paste) /\ Len(paste') <= MaxPaste
      /\ \A q \in 1..MaxPaste : q # p => (q \in 1..Len(paste') <=> q \in 1..Len(paste))
  <2> DEFINE m == Len(paste)
             n == Len(paste')
  <2>1. m \in Nat /\ n = m + 1 /\ m < MaxPaste /\ p = m + 1 BY <1>1, <1>2
  <2> HIDE DEF m, n, p
  <2>2. /\ p \in 1..MaxPaste /\ p \notin 1..m /\ n <= MaxPaste
        /\ \A q \in 1..MaxPaste : q # p => (q \in 1..n <=> q \in 1..m)
    BY <1>3, <2>1
  <2> QED BY <2>2 DEF m, n
<1>5. g \in Lazy!Answers(contents.n)
  <2>1. contents.n \in contents.n..Len(log)
    <3> DEFINE n == Len(log)
               c == contents.n
    <3>1. n \in Nat /\ c \in 1..n BY <1>1, LenProperties DEF IInv, TypeOK
    <3> HIDE DEF n, c
    <3>2. c \in c..n BY <3>1
    <3> QED BY <3>2 DEF n, c
  <2> QED BY <2>1 DEF Lazy!Answers
<1> HIDE DEF p
<1>6. S[p].pc = "none" BY <1>4 DEF Seen
<1>7. S' = [S EXCEPT ![p] = [pc |-> IF d THEN "done" ELSE "open", on |-> contents.n,
                             answer |-> g]]
  <2>1. ASSUME NEW q \in 1..MaxPaste, q # p PROVE Seen(q)' = Seen(q)
    <3>1. q \in 1..Len(paste') <=> q \in 1..Len(paste) BY <1>4, <2>1
    <3>2. CASE q \in 1..Len(paste)
      <4>1. paste'[q] = paste[q] BY <1>1, <3>2
      <4> QED BY <3>1, <3>2, <4>1 DEF Seen
    <3>3. CASE q \notin 1..Len(paste) BY <3>1, <3>3 DEF Seen
    <3> QED BY <3>2, <3>3
  <2>2. ASSUME NEW q \in 1..MaxPaste, q = p
        PROVE  Seen(q)' = [pc |-> IF d THEN "done" ELSE "open", on |-> contents.n, answer |-> g]
    BY <1>1, <2>2 DEF Seen
  <2> QED BY <1>4, <2>1, <2>2
<1> QED BY <1>1, <1>4, <1>5, <1>6, <1>7 DEF p

\* A callback that is answered at once is a paste that ends as it begins.
LEMMA CachedSeen ==
  ASSUME IInv, OnceInv, ProvideCached \/ ProvideFileCached
  PROVE  OnceInv' /\ Lazy!Next
<1> DEFINE p == Len(paste) + 1
           S == [q \in 1..MaxPaste |-> Seen(q)]
<1>1. PICK kind \in {"text", "files"}, g \in Key \cup {NoKey} :
        /\ CanPaste(kind) /\ paste' = Pasted(TRUE, g)
        /\ g # NoKey => IF kind = "text" THEN g = log[contents.n]
                        ELSE \E n \in contents.n..Len(log) : log[n] = g
  BY CachedCallback
<1>2. UNCHANGED <<log, stack>> BY DEF ProvideCached, ProvideFileCached
<1>3. /\ p \in 1..MaxPaste /\ S[p].pc = "none" /\ Len(paste') <= MaxPaste
      /\ contents.n \in 1..Len(log) /\ g \in Lazy!Answers(contents.n)
      /\ S' = [S EXCEPT ![p] = [pc |-> "done", on |-> contents.n, answer |-> g]]
  BY <1>1, <1>2, CallbackSeen
<1>4. Lazy!Serve(p) BY <1>2, <1>3 DEF Lazy!Serve
<1>5. Lazy!Next BY <1>3, <1>4 DEF Lazy!Next
<1>6. \A q \in 1..Len(paste) : paste'[q] = paste[q] BY <1>1, <1>2, PastedProperties
<1>7. ASSUME NEW i \in 1..Len(stack), Waits(stack[i])
      PROVE  paste'[stack[i].paste] = paste[stack[i].paste]
  BY <1>6, <1>7 DEF IInv, ShapeInv, Waits
<1>8. OnceInv' BY <1>2, <1>3, <1>7 DEF OnceInv, Waits, InFiles
<1> QED BY <1>5, <1>8

\* A callback that has to wait is a paste that begins.
LEMMA WaitSeen ==
  ASSUME IInv, OnceInv, ProvideDataForType \/ EnsureFilesDownloaded
  PROVE  OnceInv' /\ Lazy!Next
<1> DEFINE p == Len(paste) + 1
           S == [q \in 1..MaxPaste |-> Seen(q)]
<1>1. PICK kind \in {"text", "files"}, f \in FrameSet :
        /\ CanPaste(kind) /\ paste' = Pasted(FALSE, NoKey)
        /\ stack' = Append(stack, f) /\ f.paste = p
  BY WaitCallback
<1>2. UNCHANGED log BY DEF ProvideDataForType, EnsureFilesDownloaded
<1>3. /\ p \in 1..MaxPaste /\ S[p].pc = "none" /\ Len(paste') <= MaxPaste
      /\ contents.n \in 1..Len(log)
      /\ S' = [S EXCEPT ![p] = [pc |-> "open", on |-> contents.n, answer |-> NoKey]]
  BY <1>1, <1>2, CallbackSeen
<1>4. Lazy!Begin(p) BY <1>2, <1>3 DEF Lazy!Begin
<1>5. Lazy!Next BY <1>3, <1>4 DEF Lazy!Next
<1>6. /\ \A q \in 1..Len(paste) : paste'[q] = paste[q]
      /\ paste'[p].done = FALSE /\ Len(paste) \in Nat
  BY <1>1, <1>2, PastedProperties
<1>7. \A i \in 1..Len(stack') :
        \/ i \in 1..Len(stack) /\ stack'[i] = stack[i] /\ InFiles(stack[i])
        \/ i = Len(stack') /\ stack'[i] = f
  BY <1>1, PushedProperties DEF IInv, CanPaste
<1>8. \A i \in 1..Len(stack) : Waits(stack[i]) => stack[i].paste \in 1..Len(paste)
  BY DEF IInv, ShapeInv, Waits
<1>9. p \notin 1..Len(paste) BY <1>6
<1> HIDE DEF p
<1>10. ASSUME NEW i \in 1..Len(stack'), Waits(stack'[i])
       PROVE  ~paste'[stack'[i].paste].done
  <2>1. CASE i \in 1..Len(stack) /\ stack'[i] = stack[i]
    BY <1>6, <1>8, <1>10, <2>1 DEF OnceInv
  <2>2. CASE stack'[i] = f BY <1>1, <1>6, <2>2
  <2> QED BY <1>7, <2>1, <2>2
<1>11. ASSUME NEW i \in 1..Len(stack'), NEW j \in 1..Len(stack'), Waits(stack'[i]),
              Waits(stack'[j]), stack'[j].paste = stack'[i].paste
       PROVE  j = i
  <2>1. CASE /\ i \in 1..Len(stack) /\ stack'[i] = stack[i]
             /\ j \in 1..Len(stack) /\ stack'[j] = stack[j]
    BY <1>11, <2>1 DEF OnceInv
  <2>2. CASE i = Len(stack') /\ stack'[i] = f /\ j \in 1..Len(stack) /\ stack'[j] = stack[j]
    BY <1>1, <1>8, <1>9, <1>11, <2>2
  <2>3. CASE j = Len(stack') /\ stack'[j] = f /\ i \in 1..Len(stack) /\ stack'[i] = stack[i]
    BY <1>1, <1>8, <1>9, <1>11, <2>3
  <2>4. CASE i = Len(stack') /\ j = Len(stack') BY <2>4
  <2> QED BY <1>7, <2>1, <2>2, <2>3, <2>4
<1>12. OnceInv' BY <1>3, <1>10, <1>11 DEF OnceInv, Waits, InFiles
<1> QED BY <1>5, <1>12

\* A render that ends is an answer to its paste, the only one.
LEMMA EndedSeen ==
  ASSUME IInv, OnceInv, Render \/ TimedOut
  PROVE  OnceInv' /\ Lazy!Next
<1> DEFINE S == [q \in 1..MaxPaste |-> Seen(q)]
<1>1. /\ stack # <<>> /\ stack' = Pop /\ UNCHANGED log /\ Len(stack) \in 1..Len(stack)
      /\ Waits(Top) /\ Top.paste \in 1..Len(paste)
  BY EndedCallback DEF Waits
<1>2. PICK k \in Key \cup {NoKey} :
        paste' = Got(Top.paste, k) /\ (k # NoKey => Fresh(k, paste[Top.paste].item))
  BY EndedCallback
<1>3. PICK p \in 1..Len(paste) : p = Top.paste BY <1>1
<1>4. paste \in Seq(PasteSet) /\ stack \in Seq(FrameSet) /\ log \in Seq(Key)
  BY DEF IInv, ShapeInv, TypeOK
<1>5. /\ Len(paste') = Len(paste)
      /\ \A q \in 1..Len(paste) :
           /\ paste'[q].item = paste[q].item
           /\ paste'[q].got = IF q = p THEN k ELSE paste[q].got
           /\ paste'[q].done = IF q = p THEN TRUE ELSE paste[q].done
  <2>1. /\ Len(Got(p, k)) = Len(paste)
        /\ \A q \in 1..Len(paste) :
             /\ Got(p, k)[q].item = paste[q].item
             /\ Got(p, k)[q].got = IF q = p THEN k ELSE paste[q].got
             /\ Got(p, k)[q].done = IF q = p THEN TRUE ELSE paste[q].done
    BY <1>4, GotProperties
  <2>2. paste' = Got(p, k) BY <1>2, <1>3
  <2> QED BY <2>1, <2>2
<1>6. Top = stack[Len(stack)] BY DEF Top
<1>7. ~paste[p].done BY <1>1, <1>3, <1>6 DEF OnceInv
<1>8. p \in 1..MaxPaste
  <2> DEFINE m == Len(paste)
  <2>1. m \in Nat /\ m <= MaxPaste /\ p \in 1..m /\ MaxPaste \in Nat
    BY <1>3, <1>4, LenProperties, PasteboardAssumption DEF OnceInv
  <2> HIDE DEF m
  <2> QED BY <2>1
<1>9. S[p].pc = "open" /\ S[p].on = paste[p].item BY <1>3, <1>7, <1>8 DEF Seen
<1>10. k \in Lazy!Answers(paste[p].item)
  <2>1. paste[p].item \in paste[p].item..Len(log)
    <3> DEFINE n == Len(log)
               c == paste[p].item
    <3>1. n \in Nat /\ c \in 1..n BY <1>4, LenProperties DEF IInv, ShapeInv
    <3> HIDE DEF n, c
    <3>2. c \in c..n BY <3>1
    <3> QED BY <3>2 DEF n, c
  <2>2. k # NoKey => \E i \in paste[p].item..Len(log) : log[i] = k
    BY <1>2, <1>3, <2>1 DEF Fresh
  <2> QED BY <2>2 DEF Lazy!Answers
<1>11. S' = [S EXCEPT ![p] = [pc |-> "done", on |-> S[p].on, answer |-> k]]
  <2>1. ASSUME NEW q \in 1..MaxPaste, q # p PROVE Seen(q)' = Seen(q)
    <3>1. CASE q \in 1..Len(paste) BY <1>5, <2>1, <3>1 DEF Seen
    <3>2. CASE q \notin 1..Len(paste) BY <1>5, <3>2 DEF Seen
    <3> QED BY <3>1, <3>2
  <2>2. Seen(p)' = [pc |-> "done", on |-> paste[p].item, answer |-> k] BY <1>3, <1>5 DEF Seen
  <2> QED BY <1>8, <1>9, <2>1, <2>2
<1>12. Lazy!Answer(p) BY <1>1, <1>9, <1>10, <1>11 DEF Lazy!Answer
<1>13. Lazy!Next BY <1>8, <1>12 DEF Lazy!Next
<1>14. \A i \in 1..Len(stack') : i \in 1..Len(stack) /\ i # Len(stack) /\ stack'[i] = stack[i]
  BY <1>1, <1>4, Popped
<1>15. ASSUME NEW i \in 1..Len(stack'), Waits(stack'[i])
       PROVE  ~paste'[stack'[i].paste].done
  <2>1. /\ i \in 1..Len(stack) /\ i # Len(stack) /\ stack'[i] = stack[i] /\ Waits(stack[i])
    BY <1>14, <1>15
  <2>2. stack[i].paste # p BY <1>1, <1>3, <1>6, <2>1 DEF OnceInv
  <2>3. stack[i].paste \in 1..Len(paste) BY <2>1 DEF IInv, ShapeInv, Waits
  <2>4. ~paste[stack[i].paste].done BY <2>1 DEF OnceInv
  <2> QED BY <1>5, <2>1, <2>2, <2>3, <2>4
<1>16. ASSUME NEW i \in 1..Len(stack'), NEW j \in 1..Len(stack'), Waits(stack'[i]),
              Waits(stack'[j]), stack'[j].paste = stack'[i].paste
       PROVE  j = i
  BY <1>14, <1>16 DEF OnceInv
<1>17. Len(paste') <= MaxPaste BY <1>5 DEF OnceInv
<1>18. OnceInv' BY <1>15, <1>16, <1>17 DEF OnceInv, Waits, InFiles
<1> QED BY <1>13, <1>18

\* Nothing else is seen but announcements.
LEMMA StepSeen ==
  ASSUME IInv, OnceInv, [Next]_vars
  PROVE  OnceInv' /\ [Lazy!Next]_(Lazy!vars)
<1> USE DEF lockVars, fileVars, boardVars, pollVars
<1>1. ASSUME UNCHANGED paste, NEW q \in 1..MaxPaste PROVE Seen(q)' = Seen(q) BY <1>1 DEF Seen
<1>2. ASSUME UNCHANGED <<log, paste>> PROVE UNCHANGED Lazy!vars BY <1>1, <1>2 DEF Lazy!vars
<1>3. CASE \E k \in Key : SetClipboard(k) \/ AnnounceDelayed(k)
  <2>1. UNCHANGED paste /\ \E k \in Key : log' = Append(log, k)
    BY <1>3 DEF SetClipboard, AnnounceDelayed
  <2>2. Lazy!Announce BY <1>1, <2>1 DEF Lazy!Announce
  <2>3. OnceInv' BY <1>3, <2>1, HandlersDoNotWait, OnceKept
  <2> QED BY <2>2, <2>3 DEF Lazy!Next
<1>4. CASE Handler
  <2>1. UNCHANGED <<log, paste>> BY <1>4 DEF Handler, Declare, RecordChangeCount
  <2>2. OnceInv' BY <1>4, <2>1, HandlersDoNotWait, OnceKept
  <2> QED BY <1>2, <2>1, <2>2
<1>5. CASE ProvideCached \/ ProvideFileCached BY <1>5, CachedSeen
<1>6. CASE ProvideDataForType \/ EnsureFilesDownloaded BY <1>6, WaitSeen
<1>7. CASE Render \/ TimedOut BY <1>7, EndedSeen
<1>8. CASE UNCHANGED <<log, paste, stack>> BY <1>2, <1>8, OnceKept
<1>9. ASSUME \/ \E k \in Key : ProvideData(k)
             \/ PasteboardChangedOwner \/ CheckForChanges \/ Signal \/ CancelFileDownload
             \/ DismissPanel \/ \E k \in Key \cup {Other} : AppCopy(k)
             \/ UNCHANGED vars
      PROVE  UNCHANGED <<log, paste, stack>>
  BY <1>9 DEF ProvideData, PasteboardChangedOwner, CheckForChanges, Signal,
     CancelFileDownload, DismissPanel, AppCopy, vars
<1> QED BY <1>3, <1>4, <1>5, <1>6, <1>7, <1>8, <1>9 DEF Next

\* The pasteboard manager implements the lazy clipboard: however callbacks
\* nest, time out, are cancelled or find their announcement replaced, each
\* returns once, with nothing or with what was announced since.
THEOREM RefinesLazy == Spec => ImplementsLazy
<1>1. Init => OnceInv /\ Lazy!Init
  <2> SUFFICES ASSUME Init PROVE OnceInv /\ Lazy!Init OBVIOUS
  <2>1. paste = <<>> /\ stack = <<>> /\ log = <<>> /\ Len(<<>>) = 0 BY EmptySeq DEF Init
  <2>2. ASSUME NEW p \in 1..MaxPaste
        PROVE  Seen(p) = [pc |-> "none", on |-> 0, answer |-> NoKey]
    BY <2>1 DEF Seen
  <2>3. OnceInv BY <2>1, PasteboardAssumption DEF OnceInv
  <2> QED BY <2>1, <2>2, <2>3 DEF Lazy!Init
<1>2. IInv /\ OnceInv /\ [Next]_vars => OnceInv' /\ [Lazy!Next]_(Lazy!vars) BY StepSeen
<1> QED BY <1>1, <1>2, InvHolds, PTL DEF Spec, ImplementsLazy, Lazy!Spec
=============================================================================
