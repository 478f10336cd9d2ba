---------------------- MODULE LinuxDataControlProofs ----------------------
(***************************************************************************)
(* Proofs about LinuxDataControl, for any contents and any number of       *)
(* announcements, pastes and copies: its type invariant, the freshness of  *)
(* pastes, that it implements LazyClipboard, and that helper and           *)
(* compositor agree on who owns the clipboard.                             *)
(***************************************************************************)
EXTENDS LinuxDataControl, SequenceTheorems, TLAPS

(* The inductive invariant, in parts: each speaks of few variables. *)

\* The announcement at hand is the last one, and bytes are kept for no other.
LogInv ==
  /\ log \in Seq(Key) /\ Len(log) <= MaxAnnounce
  /\ log = <<>> => current_hash = NoKey
  /\ log # <<>> => current_hash = log[Len(log)]
  /\ pending_data \in {NoKey, current_hash}

ServerRequest == [req : {"set_selection", "destroy"}, source : 1..MaxAnnounce]

\* Whatever source is on its way, or selected, was announced.
SourceInv ==
  /\ owner \in 0..MaxAnnounce /\ owner <= Len(log)
  /\ mainQueue \in Seq(1..MaxAnnounce)
  /\ \A i \in 1..Len(mainQueue) : mainQueue[i] <= Len(log)
  /\ toServer \in Seq(ServerRequest)
  /\ \A i \in 1..Len(toServer) :
       toServer[i].req = "set_selection" => toServer[i].source <= Len(log)

PasteRec ==
  [pc : {"none", "sent", "asking", "wait", "done"}, source : 0..MaxAnnounce,
   mime : {"text", "image", "files"}, hash : OptKey, since : 0..MaxAnnounce, got : OptKey,
   awake : BOOLEAN]

\* A paste began on an announcement; a worker waits for one that was made then
\* or later; nothing is got before the end, and nothing older than the source.
PasteOK(r, l) ==
  /\ r.source <= Len(l) /\ r.since <= Len(l)
  /\ r.pc # "none" => r.source > 0
  /\ r.pc \in {"asking", "wait"} => r.source <= r.since /\ r.hash = l[r.since]
  /\ r.pc # "done" => r.got = NoKey
  /\ r.got # NoKey => \E i \in r.source..Len(l) : l[i] = r.got

PasteInv ==
  /\ paste \in [Pastes -> PasteRec]
  /\ \A p \in Pastes : PasteOK(paste[p], log)

\* Each paste is announced to the helper by one event and handled by the main
\* thread once.
SendInv ==
  /\ toClient \in Seq(Event)
  /\ \A i \in 1..Len(toClient) :
       toClient[i].type = "send" => paste[toClient[i].paste].pc = "sent"
  /\ \A i, j \in 1..Len(toClient) :
       /\ toClient[i].type = "send" /\ toClient[j].type = "send"
       /\ toClient[i].paste = toClient[j].paste
       => i = j
  /\ sending \in 0..MaxPaste
  /\ sending # 0 => paste[sending].pc = "asking"

MainInv ==
  /\ current_source \in 0..MaxAnnounce
  /\ live \subseteq {current_source} \ {0}
  /\ offer_mimes \subseteq Offer /\ echoed \in BOOLEAN

OtherInv ==
  /\ cached_clipboard_text \in 0..MaxCopy /\ copies \in 0..MaxCopy /\ offers \in Nat
  /\ drain \in [Copies -> {"none", "lost", "reading", "calling", "done"}]
  /\ phase \in {"running", "quit", "detached", "destroyed"}
  /\ asked \subseteq Key

IInv == LogInv /\ SourceInv /\ PasteInv /\ SendInv /\ MainInv /\ OtherInv

(* What leaves the variables of a part alone keeps it. *)

\* The announcements and the answer at hand.
LEMMA LogKept == LogInv /\ UNCHANGED stateVars => LogInv'
BY DEF LogInv, stateVars

\* The sources that requests and queued closures name.
LEMMA SourceKept ==
  SourceInv /\ UNCHANGED <<log, owner, mainQueue, toServer>> => SourceInv'
BY DEF SourceInv, ServerRequest

\* The pastes.
LEMMA PasteKept == PasteInv /\ UNCHANGED <<log, paste>> => PasteInv'
BY DEF PasteInv, PasteOK

\* The events of the compositor and the send being handled.
LEMMA SendKept == SendInv /\ UNCHANGED <<toClient, sending, paste>> => SendInv'
BY DEF SendInv

\* What the main thread owns.
LEMMA MainKept ==
  MainInv /\ UNCHANGED <<current_source, live, offer_mimes, echoed>> => MainInv'
BY DEF MainInv

\* The cache, the drains and the counters.
LEMMA OtherKept ==
  OtherInv /\ UNCHANGED <<cached_clipboard_text, copies, offers, drain, phase, asked>>
    => OtherInv'
BY DEF OtherInv

(* The queues. *)

\* The first element of a queue is taken off.
LEMMA Taken ==
  ASSUME NEW S, NEW q \in Seq(S), q # <<>>
  PROVE  /\ Head(q) \in S /\ Head(q) = q[1] /\ 1 \in 1..Len(q)
         /\ Tail(q) \in Seq(S)
         /\ \A i \in 1..Len(Tail(q)) : i + 1 \in 1..Len(q) /\ Tail(q)[i] = q[i + 1]
<1>1. Len(q) \in Nat /\ Len(q) # 0 BY EmptySeq, LenProperties
<1>2. /\ Head(q) \in S /\ Tail(q) \in Seq(S) /\ Len(Tail(q)) = Len(q) - 1
      /\ \A i \in 1..Len(Tail(q)) : Tail(q)[i] = q[i + 1]
  BY HeadTailProperties
<1>3. Head(q) = q[1] OBVIOUS
<1> QED BY <1>1, <1>2, <1>3

\* Events other than send may be added.
LEMMA EventsAdded ==
  ASSUME SendInv, UNCHANGED <<sending, paste>>,
         NEW evs \in Seq(Event), \A i \in 1..Len(evs) : evs[i].type # "send",
         toClient' = toClient \o evs
  PROVE  SendInv'
<1>1. /\ toClient' \in Seq(Event) /\ Len(toClient') = Len(toClient) + Len(evs)
      /\ \A i \in 1..Len(toClient') :
           toClient'[i] = IF i <= Len(toClient) THEN toClient[i] ELSE evs[i - Len(toClient)]
  BY ConcatProperties DEF SendInv
<1>2. Len(toClient) \in Nat /\ Len(evs) \in Nat BY LenProperties DEF SendInv
<1>3. ASSUME NEW i \in 1..Len(toClient'), toClient'[i].type = "send"
      PROVE  i \in 1..Len(toClient) /\ toClient'[i] = toClient[i]
  <2>1. CASE i <= Len(toClient) BY <1>1, <1>2, <2>1
  <2>2. CASE i > Len(toClient)
    <3>1. i - Len(toClient) \in 1..Len(evs) BY <1>1, <1>2, <2>2
    <3> QED BY <1>1, <1>2, <1>3, <2>2, <3>1
  <2> QED BY <1>2, <2>1, <2>2
<1>4. ASSUME NEW i \in 1..Len(toClient'), toClient'[i].type = "send"
      PROVE  paste'[toClient'[i].paste].pc = "sent"
  BY <1>3, <1>4 DEF SendInv
<1>5. ASSUME NEW i \in 1..Len(toClient'), NEW j \in 1..Len(toClient'),
             toClient'[i].type = "send", toClient'[j].type = "send",
             toClient'[i].paste = toClient'[j].paste
      PROVE  i = j
  <2>1. /\ i \in 1..Len(toClient) /\ toClient'[i] = toClient[i]
        /\ j \in 1..Len(toClient) /\ toClient'[j] = toClient[j]
    BY <1>3, <1>5
  <2> QED BY <1>5, <2>1 DEF SendInv
<1>6. sending' \in 0..MaxPaste /\ (sending' # 0 => paste'[sending'].pc = "asking")
  BY DEF SendInv
<1> QED BY <1>1, <1>4, <1>5, <1>6 DEF SendInv

\* The first event is taken off.
LEMMA EventTaken ==
  ASSUME SendInv, toClient # <<>>, toClient' = Tail(toClient)
  PROVE  /\ toClient' \in Seq(Event)
         /\ Head(toClient) \in Event
         /\ \A i \in 1..Len(toClient') : i + 1 \in 1..Len(toClient) /\ toClient'[i] = toClient[i + 1]
         /\ Head(toClient) = toClient[1] /\ 1 \in 1..Len(toClient)
<1>1. toClient \in Seq(Event) BY DEF SendInv
<1> QED BY <1>1, Taken

\* So are the events that carry no paste.
LEMMA OtherEventTaken ==
  ASSUME SendInv, toClient # <<>>, toClient' = Tail(toClient), UNCHANGED <<sending, paste>>
  PROVE  SendInv'
BY EventTaken DEF SendInv

\* A send event taken off names a paste no other event names.
LEMMA SendTaken ==
  ASSUME SendInv, Dispatch("send"), Dispatched
  PROVE  LET p == Head(toClient).paste IN
         /\ p \in Pastes /\ paste[p].pc = "sent"
         /\ toClient' \in Seq(Event)
         /\ \A i \in 1..Len(toClient') :
              toClient'[i].type = "send" => /\ toClient'[i].paste # p
                                            /\ paste[toClient'[i].paste].pc = "sent"
         /\ \A i, j \in 1..Len(toClient') :
              /\ toClient'[i].type = "send" /\ toClient'[j].type = "send"
              /\ toClient'[i].paste = toClient'[j].paste
              => i = j
<1>1. /\ toClient # <<>> /\ toClient' = Tail(toClient) /\ Head(toClient).type = "send"
  BY DEF Dispatch, Dispatched
<1>2. /\ toClient' \in Seq(Event) /\ Head(toClient) \in Event
      /\ \A i \in 1..Len(toClient') : i + 1 \in 1..Len(toClient) /\ toClient'[i] = toClient[i + 1]
      /\ Head(toClient) = toClient[1] /\ 1 \in 1..Len(toClient)
  BY <1>1, EventTaken
<1>3. Head(toClient).paste \in Pastes BY <1>1, <1>2 DEF Event
<1>4. paste[Head(toClient).paste].pc = "sent" BY <1>1, <1>2 DEF SendInv
<1>5. ASSUME NEW i \in 1..Len(toClient'), toClient'[i].type = "send"
      PROVE  toClient'[i].paste # Head(toClient).paste /\ paste[toClient'[i].paste].pc = "sent"
  <2>1. i + 1 \in 1..Len(toClient) /\ toClient[i + 1].type = "send" BY <1>2, <1>5
  <2>2. i + 1 # 1 OBVIOUS
  <2> QED BY <1>1, <1>2, <2>1, <2>2 DEF SendInv
<1>6. ASSUME NEW i \in 1..Len(toClient'), NEW j \in 1..Len(toClient'),
             toClient'[i].type = "send", toClient'[j].type = "send",
             toClient'[i].paste = toClient'[j].paste
      PROVE  i = j
  <2>1. i + 1 = j + 1 BY <1>2, <1>6 DEF SendInv
  <2> QED BY <2>1
<1> QED BY <1>2, <1>3, <1>4, <1>5, <1>6

(* The pastes. *)

\* A paste stays sound when something else is announced.
LEMMA AnnouncedLater ==
  ASSUME NEW l \in Seq(Key), NEW k \in Key, NEW r \in PasteRec, PasteOK(r, l)
  PROVE  PasteOK(r, Append(l, k))
<1> DEFINE m == Append(l, k)
<1>1. /\ Len(l) \in Nat /\ Len(m) = Len(l) + 1 /\ \A i \in 1..Len(l) : m[i] = l[i]
  BY AppendProperties, LenProperties
<1> HIDE DEF m
<1>2. r.source \in Nat /\ r.since \in Nat BY DEF PasteRec
<1>3. r.source <= Len(m) /\ r.since <= Len(m) BY <1>1, <1>2 DEF PasteOK
<1>4. ASSUME r.pc \in {"asking", "wait"} PROVE r.source <= r.since /\ r.hash = m[r.since]
  <2>1. r.source <= r.since /\ r.hash = l[r.since] /\ r.source > 0 BY <1>4 DEF PasteOK
  <2>2. r.since \in 1..Len(l) BY <1>1, <1>2, <2>1 DEF PasteOK
  <2> QED BY <1>1, <2>1, <2>2
<1>5. ASSUME r.got # NoKey PROVE \E i \in r.source..Len(m) : m[i] = r.got
  <2>1. PICK i \in r.source..Len(l) : l[i] = r.got BY <1>5 DEF PasteOK
  <2>2. r.pc # "none" BY <1>5 DEF PasteOK
  <2>3. r.source > 0 BY <2>2 DEF PasteOK
  <2>4. i \in 1..Len(l) /\ i \in r.source..Len(m) BY <1>1, <1>2, <2>3
  <2> QED BY <1>1, <2>1, <2>4
<1>6. PasteOK(r, m) BY <1>3, <1>4, <1>5 DEF PasteOK
<1> QED BY <1>6 DEF m

\* notify_all disturbs no paste.
LEMMA NotifyPaste ==
  ASSUME PasteInv, paste' = NotifyAll
  PROVE  /\ paste' \in [Pastes -> PasteRec]
         /\ \A p \in Pastes :
              /\ paste'[p].pc = paste[p].pc /\ paste'[p].source = paste[p].source
              /\ paste'[p].since = paste[p].since /\ paste'[p].hash = paste[p].hash
              /\ paste'[p].got = paste[p].got
<1>1. paste \in [Pastes -> PasteRec] BY DEF PasteInv
<1>2. ASSUME NEW p \in Pastes
      PROVE  /\ paste'[p] \in PasteRec /\ paste'[p].pc = paste[p].pc
             /\ paste'[p].source = paste[p].source /\ paste'[p].since = paste[p].since
             /\ paste'[p].hash = paste[p].hash /\ paste'[p].got = paste[p].got
  <2>1. paste[p] \in PasteRec BY <1>1
  <2>2. paste'[p] = [paste[p] EXCEPT !.awake = (paste[p].pc = "wait")] BY DEF NotifyAll
  <2>3. (paste[p].pc = "wait") \in BOOLEAN OBVIOUS
  <2> QED BY <2>1, <2>2, <2>3 DEF PasteRec
<1>3. paste' = [p \in Pastes |-> paste'[p]] BY <1>1 DEF NotifyAll
<1> QED BY <1>2, <1>3

\* Pastes that differ only in whether their worker is awake are equally sound.
LEMMA AwakeOnly ==
  ASSUME NEW r, NEW s, NEW l, PasteOK(r, l), r.pc = s.pc, r.source = s.source,
         r.since = s.since, r.hash = s.hash, r.got = s.got
  PROVE  PasteOK(s, l)
BY DEF PasteOK

\* notify_all leaves every paste as sound as it was.
LEMMA NotifyKeeps ==
  ASSUME PasteInv, paste' = NotifyAll, UNCHANGED log
  PROVE  PasteInv'
<1>1. ASSUME NEW p \in Pastes PROVE PasteOK(paste'[p], log)
  BY NotifyPaste, AwakeOnly DEF PasteInv
<1> QED BY <1>1, NotifyPaste DEF PasteInv

\* A paste moves on; the others are left alone.
LEMMA PasteMoves ==
  ASSUME PasteInv, UNCHANGED log, NEW p \in Pastes, NEW r \in PasteRec, PasteOK(r, log),
         paste' = [paste EXCEPT ![p] = r]
  PROVE  PasteInv'
<1>1. ASSUME NEW q \in Pastes PROVE PasteOK(paste'[q], log)
  <2>1. paste'[q] = IF q = p THEN r ELSE paste[q] BY DEF PasteInv
  <2> QED BY <2>1 DEF PasteInv
<1> QED BY <1>1 DEF PasteInv

\* The end of a paste.
LEMMA ClosePaste ==
  ASSUME PasteInv, UNCHANGED log, NEW p \in Pastes, paste[p].pc # "none",
         NEW k \in OptKey, Close(p, k),
         k # NoKey => \E i \in paste[p].source..Len(log) : log[i] = k
  PROVE  PasteInv'
<1> DEFINE r == [paste[p] EXCEPT !.pc = "done", !.got = k, !.awake = FALSE]
<1>1. paste' = [paste EXCEPT ![p] = r] BY DEF Close, PasteInv
<1>2. r \in PasteRec BY DEF PasteInv, PasteRec
<1>3. PasteOK(r, log)
  <2>1. /\ r.source = paste[p].source /\ r.since = paste[p].since /\ r.pc = "done"
        /\ r.got = k
    BY DEF PasteInv, PasteRec
  <2> QED BY <2>1 DEF PasteInv, PasteOK
<1> QED BY <1>1, <1>2, <1>3, PasteMoves

\* The events still name pastes that wait for them when another paste moves.
LEMMA SendMoves ==
  ASSUME SendInv, PasteInv, NEW p \in Pastes, paste[p].pc \notin {"sent", "asking"},
         UNCHANGED <<toClient, sending>>, paste' \in [Pastes -> PasteRec],
         \A q \in Pastes : q # p => paste'[q].pc = paste[q].pc
  PROVE  SendInv'
<1>1. ASSUME NEW i \in 1..Len(toClient), toClient[i].type = "send"
      PROVE  paste'[toClient[i].paste].pc = "sent"
  <2>1. toClient[i] \in Event BY ElementOfSeq DEF SendInv
  <2>2. toClient[i].paste \in Pastes BY <1>1, <2>1 DEF Event
  <2>3. paste[toClient[i].paste].pc = "sent" BY <1>1 DEF SendInv
  <2> QED BY <2>2, <2>3
<1>2. sending # 0 => paste'[sending].pc = "asking"
  BY DEF SendInv, Pastes
<1> QED BY <1>1, <1>2 DEF SendInv

\* notify_all does not move a send event either.
LEMMA SendNotified ==
  ASSUME SendInv, PasteInv, paste' = NotifyAll, UNCHANGED <<toClient, sending>>
  PROVE  SendInv'
<1>1. \A p \in Pastes : paste'[p].pc = paste[p].pc BY NotifyPaste
<1>2. ASSUME NEW i \in 1..Len(toClient), toClient[i].type = "send"
      PROVE  paste'[toClient[i].paste].pc = "sent"
  <2>1. toClient[i] \in Event BY ElementOfSeq DEF SendInv
  <2>2. toClient[i].paste \in Pastes BY <1>2, <2>1 DEF Event
  <2> QED BY <1>1, <1>2, <2>2 DEF SendInv
<1>3. sending # 0 => paste'[sending].pc = "asking"
  BY <1>1 DEF SendInv, Pastes
<1> QED BY <1>2, <1>3 DEF SendInv

(* The steps. *)

\* A manager with an empty clipboard satisfies the invariant.
LEMMA InvInit == Init => IInv
<1> SUFFICES ASSUME Init PROVE IInv OBVIOUS
<1>1. LogInv BY KeyAssumption, EmptySeq DEF Init, LogInv
<1>2. SourceInv BY KeyAssumption, EmptySeq DEF Init, SourceInv
<1>3. NoPaste \in PasteRec BY KeyAssumption DEF NoPaste, PasteRec, OptKey
<1>4. PasteInv BY <1>3, EmptySeq DEF Init, PasteInv, PasteOK, NoPaste
<1>5. SendInv BY KeyAssumption, EmptySeq DEF Init, SendInv
<1>6. MainInv
  <2>1. current_source \in 0..MaxAnnounce BY KeyAssumption DEF Init
  <2>2. live \subseteq {current_source} \ {0} /\ offer_mimes \subseteq Offer BY DEF Init
  <2>3. echoed \in BOOLEAN BY Zenon DEF Init
  <2> QED BY <2>1, <2>2, <2>3 DEF MainInv
<1>7. OtherInv BY KeyAssumption DEF Init, OtherInv
<1> QED BY <1>1, <1>2, <1>4, <1>5, <1>6, <1>7 DEF IInv

\* An announcement replaces hash and answer together and queues one closure.
LEMMA AnnounceStep == ASSUME IInv, NEW k \in Key, Announce(k) PROVE IInv'
<1> USE DEF IInv
<1>1. /\ Len(log) \in Nat /\ log' = Append(log, k) /\ log' \in Seq(Key)
      /\ Len(log') = Len(log) + 1 /\ log'[Len(log')] = k /\ log' # <<>>
      /\ Len(log) < MaxAnnounce
  BY AppendProperties, LenProperties DEF Announce, LogInv
<1>2. LogInv' BY <1>1, KeyAssumption DEF Announce, LogInv
<1>3. SourceInv'
  <2>1. owner' \in 0..MaxAnnounce /\ owner' <= Len(log')
    BY <1>1 DEF Announce, SourceInv, serverVars
  <2>2. /\ mainQueue' = Append(mainQueue, Len(log) + 1) /\ Len(log) + 1 \in 1..MaxAnnounce
    BY <1>1, KeyAssumption DEF Announce
  <2>3. /\ mainQueue' \in Seq(1..MaxAnnounce) /\ Len(mainQueue') = Len(mainQueue) + 1
        /\ \A i \in 1..Len(mainQueue) : mainQueue'[i] = mainQueue[i]
        /\ mainQueue'[Len(mainQueue) + 1] = Len(log) + 1
    BY <2>2, AppendProperties DEF SourceInv
  <2>4. ASSUME NEW i \in 1..Len(mainQueue') PROVE mainQueue'[i] <= Len(log')
    <3>1. Len(mainQueue) \in Nat BY LenProperties DEF SourceInv
    <3>2. CASE i = Len(mainQueue) + 1 BY <1>1, <2>3, <3>2
    <3>3. CASE i # Len(mainQueue) + 1
      <4>1. i \in 1..Len(mainQueue) BY <2>3, <3>1, <3>3
      <4>2. mainQueue[i] \in 1..MaxAnnounce BY <4>1, ElementOfSeq DEF SourceInv
      <4> QED BY <1>1, <2>3, <4>1, <4>2 DEF SourceInv
    <3> QED BY <3>2, <3>3
  <2>5. ASSUME NEW i \in 1..Len(toServer), toServer[i].req = "set_selection"
        PROVE  toServer[i].source <= Len(log')
    <3>1. toServer[i] \in ServerRequest BY ElementOfSeq DEF SourceInv
    <3>2. toServer[i].source \in Nat BY <3>1 DEF ServerRequest
    <3> QED BY <1>1, <2>5, <3>2 DEF SourceInv
  <2>6. toServer' = toServer BY DEF Announce, serverVars
  <2> QED BY <2>1, <2>3, <2>4, <2>5, <2>6 DEF SourceInv
<1>4. PasteInv'
  <2>1. paste' = NotifyAll BY DEF Announce
  <2>2. ASSUME NEW p \in Pastes PROVE PasteOK(paste'[p], log')
    <3>1. PasteOK(paste'[p], log) /\ paste'[p] \in PasteRec
      BY <2>1, NotifyPaste, AwakeOnly DEF PasteInv
    <3> QED BY <1>1, <3>1, AnnouncedLater DEF LogInv
  <2> QED BY <2>1, <2>2, NotifyPaste DEF PasteInv
<1>5. SendInv' BY SendNotified DEF Announce, serverVars
<1>6. MainInv' BY MainKept DEF Announce
<1>7. OtherInv' BY OtherKept DEF Announce, serverVars
<1> QED BY <1>2, <1>3, <1>4, <1>5, <1>6, <1>7

\* An answer is stored only under the pending hash.
LEMMA ProvideDataStep == ASSUME IInv, NEW h \in Key, ProvideData(h) PROVE IInv'
<1> USE DEF IInv
<1>1. LogInv' BY DEF ProvideData, LogInv
<1>2. SourceInv' BY SourceKept DEF ProvideData, mainVars, serverVars
<1>3. PasteInv' BY NotifyKeeps DEF ProvideData
<1>4. SendInv' BY SendNotified DEF ProvideData, serverVars
<1>5. MainInv' BY MainKept DEF ProvideData, mainVars
<1>6. OtherInv' BY DEF ProvideData, serverVars, OtherInv
<1> QED BY <1>1, <1>2, <1>3, <1>4, <1>5, <1>6

\* Requests to the compositor are added behind the others.
LEMMA RequestsAdded ==
  ASSUME SourceInv, UNCHANGED <<log, owner>>, NEW reqs \in Seq(ServerRequest),
         \A i \in 1..Len(reqs) : reqs[i].req = "set_selection" => reqs[i].source <= Len(log),
         toServer' = toServer \o reqs
  PROVE  /\ toServer' \in Seq(ServerRequest)
         /\ \A i \in 1..Len(toServer') :
              toServer'[i].req = "set_selection" => toServer'[i].source <= Len(log)
<1>1. /\ toServer' \in Seq(ServerRequest) /\ Len(toServer') = Len(toServer) + Len(reqs)
      /\ \A i \in 1..Len(toServer') :
           toServer'[i] = IF i <= Len(toServer) THEN toServer[i] ELSE reqs[i - Len(toServer)]
  BY ConcatProperties DEF SourceInv
<1>2. Len(toServer) \in Nat /\ Len(reqs) \in Nat BY LenProperties DEF SourceInv
<1>3. ASSUME NEW i \in 1..Len(toServer'), toServer'[i].req = "set_selection"
      PROVE  toServer'[i].source <= Len(log)
  <2>1. CASE i <= Len(toServer)
    <3>1. i \in 1..Len(toServer) /\ toServer'[i] = toServer[i] BY <1>1, <1>2, <2>1
    <3> QED BY <1>3, <3>1 DEF SourceInv
  <2>2. CASE i > Len(toServer)
    <3>1. i - Len(toServer) \in 1..Len(reqs) /\ toServer'[i] = reqs[i - Len(toServer)]
      BY <1>1, <1>2, <2>2
    <3> QED BY <1>3, <3>1
  <2> QED BY <1>2, <2>1, <2>2
<1> QED BY <1>1, <1>3

\* What destroying the current source sends is a destroy request.
LEMMA DestroyRequest ==
  ASSUME MainInv
  PROVE  /\ DestroySource \in Seq(ServerRequest)
         /\ \A i \in 1..Len(DestroySource) : DestroySource[i].req = "destroy"
<1>1. CASE current_source = 0 BY <1>1, EmptySeq DEF DestroySource
<1>2. CASE current_source # 0
  <2> DEFINE r == [req |-> "destroy", source |-> current_source]
  <2>1. r \in ServerRequest BY <1>2, KeyAssumption DEF MainInv, ServerRequest
  <2>2. DestroySource = <<r>> BY <1>2 DEF DestroySource
  <2> QED BY <2>1, <2>2
<1> QED BY <1>1, <1>2

\* The request to destroy the current source, behind the others.
LEMMA DestroySent ==
  ASSUME SourceInv, MainInv, UNCHANGED <<log, owner, mainQueue>>,
         toServer' = toServer \o DestroySource
  PROVE  SourceInv'
<1>1. /\ DestroySource \in Seq(ServerRequest)
      /\ \A i \in 1..Len(DestroySource) :
           DestroySource[i].req = "set_selection" => DestroySource[i].source <= Len(log)
  BY DestroyRequest
<1>2. /\ toServer' \in Seq(ServerRequest)
      /\ \A i \in 1..Len(toServer') :
           toServer'[i].req = "set_selection" => toServer'[i].source <= Len(log)
  BY <1>1, RequestsAdded
<1> QED BY <1>2 DEF SourceInv

\* An announcement's closure destroys the old source, publishes the new one.
LEMMA RecreateStep == ASSUME IInv, RecreateSource PROVE IInv'
<1> USE DEF IInv
<1> DEFINE s == Head(mainQueue)
           r == [req |-> "set_selection", source |-> s]
<1>1. /\ mainQueue # <<>> /\ mainQueue' = Tail(mainQueue) /\ mainQueue \in Seq(1..MaxAnnounce)
  BY DEF RecreateSource, SourceInv
<1>2. /\ s \in 1..MaxAnnounce /\ s = mainQueue[1] /\ 1 \in 1..Len(mainQueue)
      /\ mainQueue' \in Seq(1..MaxAnnounce)
      /\ \A i \in 1..Len(mainQueue') :
           i + 1 \in 1..Len(mainQueue) /\ mainQueue'[i] = mainQueue[i + 1]
  BY <1>1, Taken
<1>3. s <= Len(log) BY <1>2 DEF SourceInv
<1>4. r \in ServerRequest BY <1>2 DEF ServerRequest
<1> DEFINE reqs == DestroySource \o <<r>>
<1>5. /\ reqs \in Seq(ServerRequest)
      /\ \A i \in 1..Len(reqs) : reqs[i].req = "set_selection" => reqs[i].source <= Len(log)
  <2>1. /\ DestroySource \in Seq(ServerRequest) /\ <<r>> \in Seq(ServerRequest)
        /\ \A i \in 1..Len(DestroySource) : DestroySource[i].req = "destroy"
        /\ Len(<<r>>) = 1 /\ <<r>>[1] = r
    BY <1>4, DestroyRequest
  <2>2. /\ reqs \in Seq(ServerRequest) /\ Len(reqs) = Len(DestroySource) + 1
        /\ \A i \in 1..Len(reqs) :
             reqs[i] = IF i <= Len(DestroySource) THEN DestroySource[i] ELSE <<r>>[i - Len(DestroySource)]
    BY <2>1, ConcatProperties
  <2>3. ASSUME NEW i \in 1..Len(reqs), reqs[i].req = "set_selection"
        PROVE  reqs[i].source <= Len(log)
    <3>1. Len(DestroySource) \in Nat BY <2>1, LenProperties
    <3>2. CASE i <= Len(DestroySource) BY <2>1, <2>2, <2>3, <3>1, <3>2
    <3>3. CASE i > Len(DestroySource)
      <4>1. i - Len(DestroySource) = 1 BY <2>2, <3>1, <3>3
      <4>2. reqs[i] = r BY <2>1, <2>2, <3>1, <3>3, <4>1
      <4> QED BY <1>3, <4>2
    <3> QED BY <3>1, <3>2, <3>3
  <2> QED BY <2>2, <2>3
<1>6. toServer' = toServer \o reqs
  <2>1. toServer' = (toServer \o DestroySource) \o <<r>> BY DEF RecreateSource
  <2>2. <<r>> \in Seq(ServerRequest) BY <1>4
  <2>3. toServer \in Seq(ServerRequest) /\ DestroySource \in Seq(ServerRequest)
    BY DestroyRequest DEF SourceInv
  <2> HIDE DEF r
  <2> QED BY <2>1, <2>2, <2>3, ConcatAssociative
<1> HIDE DEF reqs
<1>7. LogInv' BY LogKept DEF RecreateSource
<1>8. SourceInv'
  <2>1. UNCHANGED <<log, owner>> BY DEF RecreateSource, stateVars
  <2>2. /\ toServer' \in Seq(ServerRequest)
        /\ \A i \in 1..Len(toServer') :
             toServer'[i].req = "set_selection" => toServer'[i].source <= Len(log)
    BY <1>5, <1>6, <2>1, RequestsAdded
  <2>3. \A i \in 1..Len(mainQueue') : mainQueue'[i] <= Len(log) BY <1>2 DEF SourceInv
  <2> QED BY <1>2, <2>1, <2>2, <2>3 DEF SourceInv
<1>9. PasteInv' BY PasteKept DEF RecreateSource, stateVars
<1>10. SendInv' BY SendKept DEF RecreateSource
<1>11. MainInv'
  <2>1. current_source' = s /\ live' = (live \ {current_source}) \cup {s}
    BY DEF RecreateSource
  <2>2. UNCHANGED <<offer_mimes, echoed>> BY DEF RecreateSource
  <2>3. s \in 0..MaxAnnounce /\ s # 0 BY <1>2
  <2> QED BY <2>1, <2>2, <2>3 DEF MainInv
<1>12. OtherInv' BY OtherKept DEF RecreateSource
<1> QED BY <1>7, <1>8, <1>9, <1>10, <1>11, <1>12

(* The steps of the main thread. *)

\* Bytes that may be materialised give a paste nothing, or themselves.
LEMMA MaterialiseGives ==
  ASSUME NEW k \in Key, NEW mime
  PROVE  Materialise(k, mime) \in {NoKey, k}
BY DEF Materialise

\* The bytes at hand answer a paste that began before.
LEMMA PendingAnswers ==
  ASSUME LogInv, PasteInv, NEW p \in Pastes, pending_data # NoKey, NEW mime
  PROVE  LET k == Materialise(pending_data, mime) IN
         /\ k \in OptKey
         /\ k # NoKey => \E i \in paste[p].source..Len(log) : log[i] = k
<1>1. log # <<>> /\ pending_data = log[Len(log)] BY DEF LogInv
<1>2. Len(log) \in Nat /\ Len(log) # 0 BY <1>1, EmptySeq, LenProperties DEF LogInv
<1>3. pending_data \in Key BY <1>1, <1>2, ElementOfSeq DEF LogInv
<1>4. paste[p].source \in Nat /\ paste[p].source <= Len(log)
  BY DEF PasteInv, PasteOK, PasteRec
<1>5. Len(log) \in paste[p].source..Len(log) BY <1>2, <1>4
<1> QED BY <1>1, <1>3, <1>5, MaterialiseGives DEF OptKey

\* The events left name pastes other than the one that is handled.
LEMMA SendHandled ==
  ASSUME SendInv, PasteInv, Dispatch("send"), Dispatched, sending = 0,
         paste' \in [Pastes -> PasteRec],
         \A q \in Pastes : q # Head(toClient).paste => paste'[q].pc = paste[q].pc,
         \/ sending' = 0
         \/ /\ sending' = Head(toClient).paste
            /\ paste'[Head(toClient).paste].pc = "asking"
  PROVE  SendInv'
<1> DEFINE p == Head(toClient).paste
<1>1. /\ p \in Pastes /\ toClient' \in Seq(Event)
      /\ \A i \in 1..Len(toClient') :
           toClient'[i].type = "send" => /\ toClient'[i].paste # p
                                         /\ paste[toClient'[i].paste].pc = "sent"
      /\ \A i, j \in 1..Len(toClient') :
           /\ toClient'[i].type = "send" /\ toClient'[j].type = "send"
           /\ toClient'[i].paste = toClient'[j].paste
           => i = j
  BY SendTaken
<1>2. ASSUME NEW i \in 1..Len(toClient'), toClient'[i].type = "send"
      PROVE  paste'[toClient'[i].paste].pc = "sent"
  <2>1. toClient'[i] \in Event BY <1>1, ElementOfSeq
  <2>2. toClient'[i].paste \in Pastes BY <1>2, <2>1 DEF Event
  <2> QED BY <1>1, <1>2, <2>2
<1>3. sending' \in 0..MaxPaste BY <1>1, KeyAssumption DEF Pastes
<1>4. sending' # 0 => paste'[sending'].pc = "asking" OBVIOUS
<1> QED BY <1>1, <1>2, <1>3, <1>4 DEF SendInv

\* A paste that is closed is the only one to move.
LEMMA CloseMoves ==
  ASSUME PasteInv, NEW p \in Pastes, NEW k \in OptKey, Close(p, k)
  PROVE  /\ paste' \in [Pastes -> PasteRec]
         /\ \A q \in Pastes : q # p => paste'[q] = paste[q]
         /\ paste'[p].pc = "done" /\ paste'[p].got = k /\ paste'[p].source = paste[p].source
<1> DEFINE r == [paste[p] EXCEPT !.pc = "done", !.got = k, !.awake = FALSE]
<1>1. paste' = [paste EXCEPT ![p] = r] BY DEF Close, PasteInv
<1>2. r \in PasteRec BY DEF PasteInv, PasteRec
<1>3. r.pc = "done" /\ r.got = k /\ r.source = paste[p].source BY DEF PasteInv, PasteRec
<1> HIDE DEF r
<1> QED BY <1>1, <1>2, <1>3 DEF PasteInv

\* A send answered from the bytes at hand closes its paste.
LEMMA SendEagerStep == ASSUME IInv, OnSourceSendEager PROVE IInv'
<1> USE DEF IInv
<1> DEFINE p == Head(toClient).paste
           k == Materialise(pending_data, paste[p].mime)
<1>1. /\ Dispatch("send") /\ Dispatched /\ pending_data # NoKey /\ Close(p, k)
      /\ UNCHANGED <<stateVars, mainVars, owner, lastText, offers, copies, toServer,
                     cached_clipboard_text, sending, drain, phase, asked>>
  BY DEF OnSourceSendEager
<1>2. p \in Pastes /\ paste[p].pc = "sent" BY <1>1, SendTaken
<1>3. k \in OptKey /\ (k # NoKey => \E i \in paste[p].source..Len(log) : log[i] = k)
  BY <1>1, <1>2, PendingAnswers
<1> HIDE DEF k
<1>4. LogInv' BY <1>1, LogKept
<1>5. SourceInv' BY <1>1, SourceKept DEF stateVars, mainVars
<1>6. PasteInv' BY <1>1, <1>2, <1>3, ClosePaste DEF stateVars
<1>7. SendInv' BY <1>1, <1>2, <1>3, CloseMoves, SendHandled DEF Dispatch, MainIdle
<1>8. MainInv' BY <1>1, MainKept DEF mainVars
<1>9. OtherInv' BY <1>1, OtherKept
<1> QED BY <1>4, <1>5, <1>6, <1>7, <1>8, <1>9

\* A send to a source that is destroyed closes its paste empty.
LEMMA SendDiscardedStep == ASSUME IInv, SendDiscarded PROVE IInv'
<1> USE DEF IInv
<1> DEFINE p == Head(toClient).paste
<1>1. /\ Dispatch("send") /\ Dispatched /\ Close(p, NoKey)
      /\ UNCHANGED <<stateVars, mainVars, owner, lastText, offers, copies, toServer,
                     cached_clipboard_text, sending, drain, phase, asked>>
  BY DEF SendDiscarded
<1>2. p \in Pastes /\ paste[p].pc = "sent" BY <1>1, SendTaken
<1>3. NoKey \in OptKey BY DEF OptKey
<1>4. LogInv' BY <1>1, LogKept
<1>5. SourceInv' BY <1>1, SourceKept DEF stateVars, mainVars
<1>6. PasteInv' BY <1>1, <1>2, <1>3, ClosePaste DEF stateVars
<1>7. SendInv' BY <1>1, <1>2, <1>3, CloseMoves, SendHandled DEF Dispatch, MainIdle
<1>8. MainInv' BY <1>1, MainKept DEF mainVars
<1>9. OtherInv' BY <1>1, OtherKept
<1> QED BY <1>4, <1>5, <1>6, <1>7, <1>8, <1>9

\* The worker will wait for the announcement at hand.
LEMMA SendStep == ASSUME IInv, OnSourceSend PROVE IInv'
<1> USE DEF IInv
<1> DEFINE p == Head(toClient).paste
           r == [paste[p] EXCEPT !.pc = "asking", !.hash = current_hash, !.since = Len(log)]
<1>1. /\ Dispatch("send") /\ Dispatched /\ sending' = p
      /\ paste' = [paste EXCEPT ![p].pc = "asking", ![p].hash = current_hash,
                                ![p].since = Len(log)]
      /\ UNCHANGED <<stateVars, mainVars, owner, lastText, offers, copies, toServer,
                     cached_clipboard_text, drain, phase, asked>>
  BY DEF OnSourceSend
<1>2. p \in Pastes /\ paste[p].pc = "sent" BY <1>1, SendTaken
<1>3. /\ paste[p] \in PasteRec /\ paste[p].source \in Nat /\ paste[p].source > 0
      /\ paste[p].source <= Len(log) /\ paste[p].got = NoKey
  BY <1>2 DEF PasteInv, PasteOK, PasteRec
<1>4. Len(log) \in Nat /\ Len(log) # 0 BY <1>3, LenProperties DEF LogInv
<1>5. current_hash = log[Len(log)] /\ current_hash \in Key
  BY <1>4, EmptySeq, ElementOfSeq DEF LogInv
<1>6. r \in PasteRec
  <2>1. Len(log) \in 0..MaxAnnounce BY <1>4, KeyAssumption DEF LogInv
  <2>2. current_hash \in OptKey BY <1>5 DEF OptKey
  <2> QED BY <1>3, <2>1, <2>2 DEF PasteRec
<1>7. /\ r.pc = "asking" /\ r.source = paste[p].source /\ r.got = NoKey
      /\ r.since = Len(log) /\ r.hash = current_hash
  BY <1>3 DEF PasteRec
<1>8. paste' = [paste EXCEPT ![p] = r] BY <1>1, <1>2 DEF PasteInv
<1> HIDE DEF r
<1>9. PasteOK(r, log) BY <1>3, <1>4, <1>5, <1>7 DEF PasteOK
<1>10. LogInv' BY <1>1, LogKept
<1>11. SourceInv' BY <1>1, SourceKept DEF stateVars, mainVars
<1>12. PasteInv' BY <1>1, <1>2, <1>6, <1>8, <1>9, PasteMoves DEF stateVars
<1>13. SendInv'
  <2>1. /\ paste' \in [Pastes -> PasteRec] /\ paste'[p].pc = "asking"
        /\ \A q \in Pastes : q # p => paste'[q] = paste[q]
    BY <1>2, <1>6, <1>7, <1>8 DEF PasteInv
  <2> QED BY <1>1, <2>1, SendHandled DEF Dispatch, MainIdle
<1>14. MainInv' BY <1>1, MainKept DEF mainVars
<1>15. OtherInv' BY <1>1, OtherKept
<1> QED BY <1>10, <1>11, <1>12, <1>13, <1>14, <1>15

\* The worker starts to wait for the hash its send was asked under.
LEMMA SpawnStep == ASSUME IInv, SpawnWorker PROVE IInv'
<1> USE DEF IInv
<1> DEFINE p == sending
           r == [paste[p] EXCEPT !.pc = "wait", !.awake = TRUE]
<1>1. /\ sending # 0 /\ sending' = 0 /\ asked' = asked \cup {paste[p].hash}
      /\ paste' = [paste EXCEPT ![p].pc = "wait", ![p].awake = TRUE]
      /\ UNCHANGED <<stateVars, mainVars, serverVars, cached_clipboard_text, drain, phase>>
  BY DEF SpawnWorker
<1>2. p \in Pastes /\ paste[p].pc = "asking" BY <1>1 DEF SendInv, Pastes
<1>3. /\ paste[p] \in PasteRec /\ PasteOK(paste[p], log) BY <1>2 DEF PasteInv
<1>4. r \in PasteRec BY <1>3 DEF PasteRec
<1>5. /\ r.pc = "wait" /\ r.source = paste[p].source /\ r.got = paste[p].got
      /\ r.since = paste[p].since /\ r.hash = paste[p].hash
  BY <1>3 DEF PasteRec
<1>6. paste' = [paste EXCEPT ![p] = r] BY <1>1, <1>2 DEF PasteInv
<1> HIDE DEF r
<1>7. PasteOK(r, log) BY <1>2, <1>3, <1>5 DEF PasteOK
<1>8. LogInv' BY <1>1, LogKept
<1>9. SourceInv' BY <1>1, SourceKept DEF stateVars, mainVars, serverVars
<1>10. PasteInv' BY <1>1, <1>2, <1>4, <1>6, <1>7, PasteMoves DEF stateVars
<1>11. SendInv'
  <2>1. \A q \in Pastes : q # p => paste'[q] = paste[q] BY <1>2, <1>6 DEF PasteInv
  <2>2. ASSUME NEW i \in 1..Len(toClient), toClient[i].type = "send"
        PROVE  paste'[toClient[i].paste].pc = "sent"
    <3>1. toClient[i] \in Event BY ElementOfSeq DEF SendInv
    <3>2. toClient[i].paste \in Pastes BY <2>2, <3>1 DEF Event
    <3>3. paste[toClient[i].paste].pc = "sent" BY <2>2 DEF SendInv
    <3> QED BY <1>2, <2>1, <3>2, <3>3
  <2>3. toClient' = toClient BY <1>1 DEF serverVars
  <2>4. sending' = 0 /\ sending' \in 0..MaxPaste BY <1>1, KeyAssumption
  <2> QED BY <2>2, <2>3, <2>4 DEF SendInv
<1>12. MainInv' BY <1>1, MainKept DEF mainVars
<1>13. OtherInv'
  <2>1. paste[p].hash \in Key
    <3>1. /\ paste[p].hash = log[paste[p].since] /\ paste[p].source <= paste[p].since
          /\ paste[p].source > 0 /\ paste[p].since <= Len(log)
      BY <1>2, <1>3 DEF PasteOK
    <3>2. paste[p].source \in Nat /\ paste[p].since \in Nat /\ Len(log) \in Nat
      BY <1>3, LenProperties DEF PasteRec, LogInv
    <3>3. paste[p].since \in 1..Len(log) BY <3>1, <3>2
    <3> QED BY <3>1, <3>3, ElementOfSeq DEF LogInv
  <2> QED BY <1>1, <2>1 DEF OtherInv, serverVars
<1> QED BY <1>8, <1>9, <1>10, <1>11, <1>12, <1>13

\* The current source is destroyed, or none.
LEMMA CancelledStep == ASSUME IInv, OnSourceCancelled PROVE IInv'
<1> USE DEF IInv
<1>1. /\ toClient # <<>> /\ toClient' = Tail(toClient)
      /\ \/ /\ toServer' = toServer \o DestroySource
            /\ live' = live \ {current_source} /\ current_source' = 0
         \/ UNCHANGED <<toServer, live, current_source>>
      /\ UNCHANGED <<stateVars, offer_mimes, mainQueue, echoed, owner, lastText, offers,
                     copies, cached_clipboard_text, sending, paste, drain, phase, asked>>
  BY DEF OnSourceCancelled, Dispatch, Dispatched
<1>2. LogInv' BY <1>1, LogKept
<1>3. SourceInv'
  <2>1. UNCHANGED <<log, owner, mainQueue>> BY <1>1 DEF stateVars
  <2>2. CASE UNCHANGED toServer BY <2>1, <2>2, SourceKept
  <2>3. CASE toServer' = toServer \o DestroySource BY <2>1, <2>3, DestroySent
  <2> QED BY <1>1, <2>2, <2>3
<1>4. PasteInv' BY <1>1, PasteKept DEF stateVars
<1>5. SendInv' BY <1>1, OtherEventTaken
<1>6. MainInv'
  <2>1. UNCHANGED <<offer_mimes, echoed>> BY <1>1
  <2>2. CASE UNCHANGED <<live, current_source>> BY <2>1, <2>2 DEF MainInv
  <2>3. CASE live' = live \ {current_source} /\ current_source' = 0
    <3>1. 0 \in 0..MaxAnnounce BY KeyAssumption
    <3>2. live' \subseteq {current_source'} \ {0} BY <2>3 DEF MainInv
    <3> QED BY <2>1, <2>3, <3>1, <3>2 DEF MainInv
  <2> QED BY <1>1, <2>2, <2>3
<1>7. OtherInv' BY <1>1, OtherKept
<1> QED BY <1>2, <1>3, <1>4, <1>5, <1>6, <1>7

\* A new offer is remembered with its mime types.
LEMMA DataOfferStep == ASSUME IInv, OnDeviceDataOffer PROVE IInv'
<1> USE DEF IInv
<1>1. /\ toClient # <<>> /\ Head(toClient).type = "data_offer" /\ toClient' = Tail(toClient)
      /\ offer_mimes' = offer_mimes \cup {Head(toClient).offer}
      /\ UNCHANGED <<stateVars, current_source, live, mainQueue, echoed, owner, lastText,
                     offers, copies, toServer, cached_clipboard_text, sending, paste, drain,
                     phase, asked>>
  BY DEF OnDeviceDataOffer, Dispatch, Dispatched
<1>2. LogInv' BY <1>1, LogKept
<1>3. SourceInv' BY <1>1, SourceKept DEF stateVars
<1>4. PasteInv' BY <1>1, PasteKept DEF stateVars
<1>5. SendInv' BY <1>1, OtherEventTaken
<1>6. MainInv'
  <2>1. Head(toClient) \in Event BY <1>1, EventTaken
  <2>2. Head(toClient).offer \in Offer BY <1>1, <2>1 DEF Event
  <2>3. offer_mimes' \subseteq Offer BY <1>1, <2>2 DEF MainInv
  <2>4. UNCHANGED <<current_source, live, echoed>> BY <1>1
  <2> QED BY <2>3, <2>4 DEF MainInv
<1>7. OtherInv' BY <1>1, OtherKept
<1> QED BY <1>2, <1>3, <1>4, <1>5, <1>6, <1>7

\* A selection of another application starts a drain, one of ours does not.
LEMMA SelectionStep == ASSUME IInv, OnDeviceSelection PROVE IInv'
<1> USE DEF IInv
<1> DEFINE o == Head(toClient).offer
<1>1. /\ toClient # <<>> /\ Head(toClient).type = "selection" /\ toClient' = Tail(toClient)
      /\ offer_mimes' = {}
      /\ UNCHANGED <<stateVars, current_source, live, mainQueue, owner, lastText, offers,
                     copies, toServer, cached_clipboard_text, sending, paste, phase, asked>>
  BY DEF OnDeviceSelection, Dispatch, Dispatched
<1>2. LogInv' BY <1>1, LogKept
<1>3. SourceInv' BY <1>1, SourceKept DEF stateVars
<1>4. PasteInv' BY <1>1, PasteKept DEF stateVars
<1>5. SendInv' BY <1>1, OtherEventTaken
<1>6. MainInv'
  <2>1. echoed' = echoed \/ echoed' = (echoed \/ o.from = "us")
    BY Zenon DEF OnDeviceSelection
  <2>2. echoed' \in BOOLEAN BY <2>1, Zenon DEF MainInv
  <2>3. offer_mimes' \subseteq Offer BY <1>1
  <2>4. UNCHANGED <<current_source, live>> BY <1>1
  <2> QED BY <2>2, <2>3, <2>4 DEF MainInv
<1>7. OtherInv'
  <2>1. \/ drain' = drain
        \/ \E d \in {"reading", "lost"} : drain' = [drain EXCEPT ![o.n] = d]
    BY DEF OnDeviceSelection
  <2>2. drain' \in [Copies -> {"none", "lost", "reading", "calling", "done"}]
    BY <2>1 DEF OtherInv
  <2> QED BY <1>1, <2>2 DEF OtherInv
<1> QED BY <1>2, <1>3, <1>4, <1>5, <1>6, <1>7

\* An emptied selection empties the cache and the offers.
LEMMA ClearedStep == ASSUME IInv, OnSelectionCleared PROVE IInv'
<1> USE DEF IInv
<1>1. /\ toClient # <<>> /\ toClient' = Tail(toClient)
      /\ cached_clipboard_text' = 0 /\ offer_mimes' = {}
      /\ UNCHANGED <<stateVars, current_source, live, mainQueue, echoed, owner, lastText,
                     offers, copies, toServer, sending, paste, drain, phase, asked>>
  BY DEF OnSelectionCleared, Dispatch, Dispatched
<1>2. LogInv' BY <1>1, LogKept
<1>3. SourceInv' BY <1>1, SourceKept DEF stateVars
<1>4. PasteInv' BY <1>1, PasteKept DEF stateVars
<1>5. SendInv' BY <1>1, OtherEventTaken
<1>6. MainInv'
  <2>1. UNCHANGED <<current_source, live, echoed>> BY <1>1
  <2>2. offer_mimes' \subseteq Offer BY <1>1
  <2> QED BY <2>1, <2>2 DEF MainInv
<1>7. OtherInv' BY <1>1, KeyAssumption DEF OtherInv
<1> QED BY <1>2, <1>3, <1>4, <1>5, <1>6, <1>7

\* The offer of a primary selection is destroyed.
LEMMA PrimaryStep == ASSUME IInv, OnPrimarySelection PROVE IInv'
<1> USE DEF IInv
<1>1. /\ toClient # <<>> /\ toClient' = Tail(toClient)
      /\ UNCHANGED <<stateVars, mainVars, owner, lastText, offers, copies, toServer,
                     cached_clipboard_text, sending, paste, drain, phase, asked>>
  BY DEF OnPrimarySelection, Dispatch, Dispatched
<1>2. LogInv' BY <1>1, LogKept
<1>3. SourceInv' BY <1>1, SourceKept DEF stateVars, mainVars
<1>4. PasteInv' BY <1>1, PasteKept DEF stateVars
<1>5. SendInv' BY <1>1, OtherEventTaken
<1>6. MainInv' BY <1>1, MainKept DEF mainVars
<1>7. OtherInv' BY <1>1, OtherKept
<1> QED BY <1>2, <1>3, <1>4, <1>5, <1>6, <1>7

(* Shutdown. *)

\* The main thread leaves its event loop.
LEMMA QuitStep == ASSUME IInv, Quit \/ Detach PROVE IInv'
<1> USE DEF IInv
<1>1. /\ phase' \in {"quit", "detached"}
      /\ UNCHANGED <<stateVars, mainVars, serverVars, cached_clipboard_text, sending, paste,
                     drain, asked>>
  BY DEF Quit, Detach
<1>2. LogInv' BY <1>1, LogKept
<1>3. SourceInv' BY <1>1, SourceKept DEF stateVars, mainVars, serverVars
<1>4. PasteInv' BY <1>1, PasteKept DEF stateVars
<1>5. SendInv' BY <1>1, SendKept DEF serverVars
<1>6. MainInv' BY <1>1, MainKept DEF mainVars
<1>7. OtherInv' BY <1>1 DEF OtherInv, serverVars
<1> QED BY <1>2, <1>3, <1>4, <1>5, <1>6, <1>7

\* The destructor destroys the source and wakes the workers.
LEMMA DestroyStep == ASSUME IInv, Destroy PROVE IInv'
<1> USE DEF IInv
<1>1. /\ phase' = "destroyed" /\ paste' = NotifyAll /\ offer_mimes' = {}
      /\ toServer' = toServer \o DestroySource
      /\ current_source' = 0 /\ live' = live \ {current_source}
      /\ UNCHANGED <<stateVars, mainQueue, echoed, owner, lastText, offers, copies, toClient,
                     cached_clipboard_text, sending, drain, asked>>
  BY DEF Destroy
<1>2. LogInv' BY <1>1, LogKept
<1>3. SourceInv' BY <1>1, DestroySent DEF stateVars
<1>4. PasteInv' BY <1>1, NotifyKeeps DEF stateVars
<1>5. SendInv' BY <1>1, SendNotified
<1>6. MainInv'
  <2>1. offer_mimes' \subseteq Offer /\ echoed' = echoed BY <1>1
  <2>2. current_source' \in 0..MaxAnnounce /\ live' \subseteq {current_source'} \ {0}
    BY <1>1, KeyAssumption DEF MainInv
  <2> QED BY <2>1, <2>2 DEF MainInv
<1>7. OtherInv' BY <1>1 DEF OtherInv
<1> QED BY <1>2, <1>3, <1>4, <1>5, <1>6, <1>7

(* The workers. *)

\* A worker answers, times out or goes back to sleep.
LEMMA WorkerStep ==
  ASSUME IInv, NEW p \in Pastes, WorkerCheck(p) \/ WorkerTimeout(p) PROVE IInv'
<1> USE DEF IInv
<1>1. /\ paste[p].pc = "wait"
      /\ UNCHANGED <<stateVars, mainVars, serverVars, cached_clipboard_text, sending, drain,
                     phase, asked>>
  BY DEF WorkerCheck, WorkerTimeout
<1>2. /\ log' = log /\ paste[p] \in PasteRec BY <1>1 DEF stateVars, PasteInv
<1>3. /\ PasteInv' /\ paste' \in [Pastes -> PasteRec]
      /\ \A q \in Pastes : q # p => paste'[q].pc = paste[q].pc
  <2>1. ASSUME NEW k \in OptKey, Close(p, k),
               k # NoKey => \E i \in paste[p].source..Len(log) : log[i] = k
        PROVE  /\ PasteInv' /\ paste' \in [Pastes -> PasteRec]
               /\ \A q \in Pastes : q # p => paste'[q].pc = paste[q].pc
    BY <1>1, <1>2, <2>1, ClosePaste, CloseMoves
  <2>2. CASE Close(p, NoKey)
    <3>1. NoKey \in OptKey BY DEF OptKey
    <3> QED BY <2>1, <2>2, <3>1
  <2>3. CASE /\ pending_data # NoKey
             /\ Close(p, Materialise(pending_data, paste[p].mime))
    <3> DEFINE k == Materialise(pending_data, paste[p].mime)
    <3>1. k \in OptKey /\ (k # NoKey => \E i \in paste[p].source..Len(log) : log[i] = k)
      BY <2>3, PendingAnswers
    <3>2. Close(p, k) BY <2>3
    <3> HIDE DEF k
    <3> QED BY <2>1, <3>1, <3>2
  <2>4. CASE paste' = [paste EXCEPT ![p].awake = FALSE]
    <3> DEFINE r == [paste[p] EXCEPT !.awake = FALSE]
    <3>1. r \in PasteRec BY <1>2 DEF PasteRec
    <3>2. /\ r.pc = paste[p].pc /\ r.source = paste[p].source /\ r.since = paste[p].since
          /\ r.hash = paste[p].hash /\ r.got = paste[p].got
      BY <1>2 DEF PasteRec
    <3>3. paste' = [paste EXCEPT ![p] = r] BY <2>4 DEF PasteInv
    <3> HIDE DEF r
    <3>4. PasteOK(r, log) BY <3>2, AwakeOnly DEF PasteInv
    <3>5. PasteInv' BY <1>2, <3>1, <3>3, <3>4, PasteMoves
    <3>6. paste' \in [Pastes -> PasteRec] BY <3>1, <3>3 DEF PasteInv
    <3>7. \A q \in Pastes : q # p => paste'[q].pc = paste[q].pc BY <3>3 DEF PasteInv
    <3> QED BY <3>5, <3>6, <3>7
  <2>5. \/ Close(p, NoKey)
        \/ pending_data # NoKey /\ Close(p, Materialise(pending_data, paste[p].mime))
        \/ paste' = [paste EXCEPT ![p].awake = FALSE]
    BY DEF WorkerCheck, WorkerTimeout
  <2> QED BY <2>2, <2>3, <2>4, <2>5
<1>4. LogInv' BY <1>1, LogKept
<1>5. SourceInv' BY <1>1, SourceKept DEF stateVars, mainVars, serverVars
<1>6. SendInv' BY <1>1, <1>3, SendMoves DEF serverVars
<1>7. MainInv' BY <1>1, MainKept DEF mainVars
<1>8. OtherInv' BY <1>1, OtherKept DEF serverVars
<1> QED BY <1>3, <1>4, <1>5, <1>6, <1>7, <1>8

\* A drain worker caches and reports one copy.
LEMMA DrainStep ==
  ASSUME IInv, NEW n \in Copies, DrainStore(n) \/ DrainCall(n) PROVE IInv'
<1> USE DEF IInv
<1>1. /\ cached_clipboard_text' \in {cached_clipboard_text, n}
      /\ \E d \in {"calling", "done"} : drain' = [drain EXCEPT ![n] = d]
      /\ UNCHANGED <<stateVars, mainVars, serverVars, sending, paste, phase, asked>>
  BY DEF DrainStore, DrainCall
<1>2. LogInv' BY <1>1, LogKept
<1>3. SourceInv' BY <1>1, SourceKept DEF stateVars, mainVars, serverVars
<1>4. PasteInv' BY <1>1, PasteKept DEF stateVars
<1>5. SendInv' BY <1>1, SendKept DEF serverVars
<1>6. MainInv' BY <1>1, MainKept DEF mainVars
<1>7. OtherInv'
  <2>1. drain' \in [Copies -> {"none", "lost", "reading", "calling", "done"}] BY <1>1 DEF OtherInv
  <2>2. cached_clipboard_text' \in 0..MaxCopy BY <1>1, KeyAssumption DEF OtherInv, Copies
  <2> QED BY <1>1, <2>1, <2>2 DEF OtherInv, serverVars
<1> QED BY <1>2, <1>3, <1>4, <1>5, <1>6, <1>7

(* The compositor and the applications. *)

\* What the compositor says of a new selection are events, and not send events.
LEMMA OfferedEvents ==
  ASSUME NEW o \in Offer, SourceInv
  PROVE  /\ Cancelled \o Offered(o) \in Seq(Event)
         /\ \A i \in 1..Len(Cancelled \o Offered(o)) :
              (Cancelled \o Offered(o))[i].type # "send"
<1> DEFINE a == [type |-> "data_offer", offer |-> o]
           b == [type |-> "selection", offer |-> o]
           c == [type |-> "cancelled", source |-> owner]
<1>1. a \in Event /\ b \in Event BY DEF Event
<1>2. a.type # "send" /\ b.type # "send" /\ c.type # "send" OBVIOUS
<1>3. owner > 0 => c \in Event BY KeyAssumption DEF Event, SourceInv
<1>4. Offered(o) = <<a, b>> BY DEF Offered
<1>5. Cancelled = IF owner > 0 THEN <<c>> ELSE <<>> BY DEF Cancelled
<1> HIDE DEF a, b, c
<1>6. Cancelled \in Seq(Event) /\ \A i \in 1..Len(Cancelled) : Cancelled[i].type # "send"
  <2>1. CASE owner > 0 BY <1>2, <1>3, <1>5, <2>1
  <2>2. CASE ~(owner > 0) BY <1>5, <2>2, EmptySeq
  <2> QED BY <2>1, <2>2
<1>7. Offered(o) \in Seq(Event) /\ \A i \in 1..Len(Offered(o)) : Offered(o)[i].type # "send"
  BY <1>1, <1>2, <1>4
<1> DEFINE evs == Cancelled \o Offered(o)
<1>8. /\ evs \in Seq(Event) /\ Len(evs) = Len(Cancelled) + Len(Offered(o))
      /\ \A i \in 1..Len(evs) :
           evs[i] = IF i <= Len(Cancelled) THEN Cancelled[i] ELSE Offered(o)[i - Len(Cancelled)]
  BY <1>6, <1>7, ConcatProperties
<1>9. Len(Cancelled) \in Nat /\ Len(Offered(o)) \in Nat BY <1>6, <1>7, LenProperties
<1> HIDE DEF evs
<1>10. ASSUME NEW i \in 1..Len(evs) PROVE evs[i].type # "send"
  <2>1. CASE i <= Len(Cancelled) BY <1>6, <1>8, <1>9, <2>1
  <2>2. CASE i > Len(Cancelled)
    <3>1. i - Len(Cancelled) \in 1..Len(Offered(o)) BY <1>8, <1>9, <2>2
    <3> QED BY <1>7, <1>8, <1>9, <2>2, <3>1
  <2> QED BY <1>9, <2>1, <2>2
<1> QED BY <1>8, <1>10 DEF evs

\* They are added behind the others.
LEMMA SelectionTold ==
  ASSUME SendInv, SourceInv, NEW o \in Offer, UNCHANGED <<sending, paste>>,
         toClient' = toClient \o Cancelled \o Offered(o)
  PROVE  SendInv'
<1> DEFINE evs == Cancelled \o Offered(o)
<1>1. /\ evs \in Seq(Event) /\ \A i \in 1..Len(evs) : evs[i].type # "send" BY OfferedEvents
<1>2. Cancelled \in Seq(Event) /\ Offered(o) \in Seq(Event)
  <2>1. [type |-> "data_offer", offer |-> o] \in Event /\ [type |-> "selection", offer |-> o] \in Event
    BY DEF Event
  <2>2. owner > 0 => [type |-> "cancelled", source |-> owner] \in Event
    BY KeyAssumption DEF Event, SourceInv
  <2> QED BY <2>1, <2>2, EmptySeq DEF Cancelled, Offered
<1>3. toClient' = toClient \o evs
  BY <1>2, ConcatAssociative DEF SendInv
<1> HIDE DEF evs
<1> QED BY <1>1, <1>3, EventsAdded

\* The first request is taken off.
LEMMA RequestTaken ==
  ASSUME SourceInv, toServer # <<>>, toServer' = Tail(toServer)
  PROVE  /\ Head(toServer) \in ServerRequest
         /\ Head(toServer).req = "set_selection" => Head(toServer).source <= Len(log)
         /\ toServer' \in Seq(ServerRequest)
         /\ \A i \in 1..Len(toServer') :
              toServer'[i].req = "set_selection" => toServer'[i].source <= Len(log)
<1>1. toServer \in Seq(ServerRequest) BY DEF SourceInv
<1>2. /\ Head(toServer) \in ServerRequest /\ Head(toServer) = toServer[1]
      /\ 1 \in 1..Len(toServer) /\ toServer' \in Seq(ServerRequest)
      /\ \A i \in 1..Len(toServer') :
           i + 1 \in 1..Len(toServer) /\ toServer'[i] = toServer[i + 1]
  BY <1>1, Taken
<1> QED BY <1>2 DEF SourceInv

\* A source becomes the selection: the old one is cancelled, an offer made.
LEMMA ServerSetSelectionStep == ASSUME IInv, ServerSetSelection PROVE IInv'
<1> USE DEF IInv
<1> DEFINE s == Head(toServer).source
           o == [id |-> offers + 1, from |-> "us", text |-> Kind[log[s]] = "text", n |-> 0]
<1>1. /\ toServer # <<>> /\ Head(toServer).req = "set_selection" /\ toServer' = Tail(toServer)
      /\ owner' = s /\ offers' = offers + 1
      /\ toClient' = toClient \o Cancelled \o Offered(o)
      /\ UNCHANGED <<stateVars, mainVars, copies, cached_clipboard_text, sending, paste,
                     drain, phase, asked>>
  BY DEF ServerSetSelection
<1>2. /\ s \in 1..MaxAnnounce /\ s <= Len(log) /\ toServer' \in Seq(ServerRequest)
      /\ \A i \in 1..Len(toServer') :
           toServer'[i].req = "set_selection" => toServer'[i].source <= Len(log)
  BY <1>1, RequestTaken DEF ServerRequest
<1>3. o \in Offer
  <2>1. offers + 1 \in Nat \ {0} BY DEF OtherInv
  <2>2. (Kind[log[s]] = "text") \in BOOLEAN OBVIOUS
  <2> QED BY <2>1, <2>2 DEF Offer
<1> HIDE DEF o
<1>4. LogInv' BY <1>1, LogKept
<1>5. SourceInv' BY <1>1, <1>2 DEF SourceInv, stateVars, mainVars
<1>6. PasteInv' BY <1>1, PasteKept DEF stateVars
<1>7. SendInv' BY <1>1, <1>3, SelectionTold
<1>8. MainInv' BY <1>1, MainKept DEF mainVars
<1>9. OtherInv' BY <1>1 DEF OtherInv
<1> QED BY <1>4, <1>5, <1>6, <1>7, <1>8, <1>9

\* The compositor destroys a source, and the selection it had.
LEMMA ServerDestroyStep == ASSUME IInv, ServerDestroy PROVE IInv'
<1> USE DEF IInv
<1> DEFINE e == [type |-> "cleared"]
<1>1. /\ toServer # <<>> /\ toServer' = Tail(toServer)
      /\ owner' \in {owner, 0}
      /\ toClient' = toClient \/ toClient' = Append(toClient, e)
      /\ UNCHANGED <<stateVars, mainVars, lastText, offers, copies, cached_clipboard_text,
                     sending, paste, drain, phase, asked>>
  BY DEF ServerDestroy
<1>2. LogInv' BY <1>1, LogKept
<1>3. SourceInv'
  <2>1. owner' \in 0..MaxAnnounce /\ owner' <= Len(log)
    BY <1>1, KeyAssumption, LenProperties DEF SourceInv, LogInv
  <2> QED BY <1>1, <2>1, RequestTaken DEF SourceInv, stateVars, mainVars
<1>4. PasteInv' BY <1>1, PasteKept DEF stateVars
<1>5. SendInv'
  <2>1. CASE toClient' = toClient BY <1>1, <2>1, SendKept
  <2>2. CASE toClient' = Append(toClient, e)
    <3>1. e \in Event /\ e.type # "send" BY DEF Event
    <3> HIDE DEF e
    <3>2. <<e>> \in Seq(Event) /\ \A i \in 1..Len(<<e>>) : <<e>>[i].type # "send" BY <3>1
    <3>3. toClient' = toClient \o <<e>> BY <2>2, <3>1, AppendIsConcat DEF SendInv
    <3> QED BY <1>1, <3>2, <3>3, EventsAdded
  <2> QED BY <1>1, <2>1, <2>2
<1>6. MainInv' BY <1>1, MainKept DEF mainVars
<1>7. OtherInv' BY <1>1, OtherKept
<1> QED BY <1>2, <1>3, <1>4, <1>5, <1>6, <1>7

\* Another application copies: the source that had the selection is cancelled.
LEMMA AppCopyStep == ASSUME IInv, NEW text \in BOOLEAN, AppCopy(text) PROVE IInv'
<1> USE DEF IInv
<1> DEFINE o == [id |-> offers + 1, from |-> "app", text |-> text, n |-> copies + 1]
<1>1. /\ copies < MaxCopy /\ copies' = copies + 1 /\ owner' = 0 /\ offers' = offers + 1
      /\ toClient' = toClient \o Cancelled \o Offered(o)
      /\ UNCHANGED <<stateVars, mainVars, toServer, cached_clipboard_text, sending, paste,
                     drain, phase, asked>>
  BY DEF AppCopy
<1>2. o \in Offer
  <2>1. offers + 1 \in Nat \ {0} BY DEF OtherInv
  <2>2. copies + 1 \in Copies BY <1>1, KeyAssumption DEF OtherInv, Copies
  <2> QED BY <2>1, <2>2 DEF Offer
<1> HIDE DEF o
<1>3. LogInv' BY <1>1, LogKept
<1>4. SourceInv'
  <2>1. owner' \in 0..MaxAnnounce /\ owner' <= Len(log)
    BY <1>1, KeyAssumption, LenProperties DEF LogInv
  <2> QED BY <1>1, <2>1 DEF SourceInv, stateVars, mainVars
<1>5. PasteInv' BY <1>1, PasteKept DEF stateVars
<1>6. SendInv' BY <1>1, <1>2, SelectionTold
<1>7. MainInv' BY <1>1, MainKept DEF mainVars
<1>8. OtherInv' BY <1>1, KeyAssumption DEF OtherInv
<1> QED BY <1>3, <1>4, <1>5, <1>6, <1>7, <1>8

\* Another application selects text: a primary selection of its own.
LEMMA AppSelectStep == ASSUME IInv, AppSelect PROVE IInv'
<1> USE DEF IInv
<1> DEFINE o == [id |-> offers + 1, from |-> "app", text |-> TRUE, n |-> 0]
           a == [type |-> "data_offer", offer |-> o]
           b == [type |-> "primary", offer |-> o]
<1>1. /\ copies < MaxCopy /\ copies' = copies + 1 /\ offers' = offers + 1
      /\ toClient' = toClient \o <<a, b>>
      /\ UNCHANGED <<stateVars, mainVars, owner, lastText, toServer, cached_clipboard_text,
                     sending, paste, drain, phase, asked>>
  BY DEF AppSelect
<1>2. o \in Offer
  <2>1. offers + 1 \in Nat \ {0} BY DEF OtherInv
  <2> QED BY <2>1 DEF Offer
<1> HIDE DEF o
<1>3. a \in Event /\ b \in Event /\ a.type # "send" /\ b.type # "send"
  BY <1>2 DEF Event
<1> HIDE DEF a, b
<1>4. <<a, b>> \in Seq(Event) /\ \A i \in 1..Len(<<a, b>>) : <<a, b>>[i].type # "send"
  BY <1>3
<1>5. LogInv' BY <1>1, LogKept
<1>6. SourceInv' BY <1>1, SourceKept DEF stateVars, mainVars
<1>7. PasteInv' BY <1>1, PasteKept DEF stateVars
<1>8. SendInv' BY <1>1, <1>4, EventsAdded
<1>9. MainInv' BY <1>1, MainKept DEF mainVars
<1>10. OtherInv' BY <1>1, KeyAssumption DEF OtherInv
<1> QED BY <1>5, <1>6, <1>7, <1>8, <1>9, <1>10

\* What a paste that begins looks like.
LEMMA PasteBegins ==
  ASSUME IInv, NEW p \in Pastes, AppPaste(p)
  PROVE  /\ owner \in 1..Len(log) /\ paste[p].pc = "none" /\ paste[p].got = NoKey
         /\ paste' \in [Pastes -> PasteRec]
         /\ \A q \in Pastes : q # p => paste'[q] = paste[q]
         /\ paste'[p].pc = "sent" /\ paste'[p].source = owner /\ paste'[p].got = NoKey
         /\ paste'[p].since = paste[p].since /\ PasteInv'
<1> USE DEF IInv
<1> DEFINE r == [paste[p] EXCEPT !.pc = "sent", !.source = owner, !.mime = Kind[log[owner]]]
<1>1. /\ owner > 0 /\ paste[p].pc = "none" /\ log' = log
      /\ paste' = [paste EXCEPT ![p].pc = "sent", ![p].source = owner,
                                ![p].mime = Kind[log[owner]]]
  BY DEF AppPaste, stateVars
<1>2. owner \in 1..Len(log) BY <1>1, LenProperties DEF SourceInv, LogInv
<1>3. Kind[log[owner]] \in {"text", "image", "files"}
  <2>1. log[owner] \in Key BY <1>2, ElementOfSeq DEF LogInv
  <2> QED BY <2>1, KeyAssumption
<1>4. paste[p] \in PasteRec /\ PasteOK(paste[p], log) BY DEF PasteInv
<1>5. paste[p].got = NoKey BY <1>1, <1>4 DEF PasteOK
<1>6. r \in PasteRec BY <1>3, <1>4 DEF PasteRec, SourceInv
<1>7. /\ r.pc = "sent" /\ r.source = owner /\ r.since = paste[p].since /\ r.got = NoKey
  BY <1>4, <1>5 DEF PasteRec
<1>8. paste' = [paste EXCEPT ![p] = r] BY <1>1 DEF PasteInv
<1> HIDE DEF r
<1>9. PasteOK(r, log) BY <1>2, <1>4, <1>7 DEF PasteOK
<1>10. PasteInv' BY <1>1, <1>6, <1>8, <1>9, PasteMoves
<1>11. paste' \in [Pastes -> PasteRec] /\ paste'[p] = r BY <1>6, <1>8 DEF PasteInv
<1>12. \A q \in Pastes : q # p => paste'[q] = paste[q] BY <1>8 DEF PasteInv
<1> QED BY <1>1, <1>2, <1>5, <1>7, <1>10, <1>11, <1>12

\* An application pastes from the source that has the selection.
LEMMA AppPasteStep == ASSUME IInv, NEW p \in Pastes, AppPaste(p) PROVE IInv'
<1> USE DEF IInv
<1> DEFINE e == [type |-> "send", paste |-> p]
<1>1. /\ toClient' = Append(toClient, e)
      /\ UNCHANGED <<stateVars, mainVars, owner, lastText, offers, copies, toServer,
                     cached_clipboard_text, sending, drain, phase, asked>>
  BY DEF AppPaste
<1>2. /\ paste[p].pc = "none" /\ paste'[p].pc = "sent" /\ PasteInv'
      /\ \A q \in Pastes : q # p => paste'[q] = paste[q]
  BY PasteBegins
<1>3. LogInv' BY <1>1, LogKept
<1>4. SourceInv' BY <1>1, SourceKept DEF stateVars, mainVars
<1>5. SendInv'
  <2>1. e \in Event /\ e.paste = p BY DEF Event
  <2> HIDE DEF e
  <2>2. /\ toClient' \in Seq(Event) /\ Len(toClient') = Len(toClient) + 1
        /\ \A i \in 1..Len(toClient) : toClient'[i] = toClient[i]
        /\ toClient'[Len(toClient) + 1] = e /\ Len(toClient) \in Nat
    BY <1>1, <2>1, AppendProperties, LenProperties DEF SendInv
  <2>3. ASSUME NEW i \in 1..Len(toClient), toClient[i].type = "send"
        PROVE  toClient[i].paste # p /\ paste'[toClient[i].paste].pc = "sent"
    <3>1. toClient[i] \in Event BY ElementOfSeq DEF SendInv
    <3>2. toClient[i].paste \in Pastes BY <2>3, <3>1 DEF Event
    <3>3. paste[toClient[i].paste].pc = "sent" BY <2>3 DEF SendInv
    <3> QED BY <1>2, <3>2, <3>3
  <2>4. ASSUME NEW i \in 1..Len(toClient') PROVE i \in 1..Len(toClient) \/ i = Len(toClient) + 1
    BY <2>2
  <2>5. ASSUME NEW i \in 1..Len(toClient'), toClient'[i].type = "send"
        PROVE  paste'[toClient'[i].paste].pc = "sent"
    BY <1>2, <2>1, <2>2, <2>3, <2>4, <2>5
  <2>6. ASSUME NEW i \in 1..Len(toClient'), NEW j \in 1..Len(toClient'),
               toClient'[i].type = "send", toClient'[j].type = "send",
               toClient'[i].paste = toClient'[j].paste
        PROVE  i = j
    <3>1. CASE i \in 1..Len(toClient) /\ j \in 1..Len(toClient)
      <4>1. toClient'[i] = toClient[i] /\ toClient'[j] = toClient[j] BY <2>2, <3>1
      <4> QED BY <2>6, <3>1, <4>1 DEF SendInv
    <3>2. CASE i \in 1..Len(toClient) /\ j = Len(toClient) + 1
      BY <2>1, <2>2, <2>3, <2>6, <3>2
    <3>3. CASE j \in 1..Len(toClient) /\ i = Len(toClient) + 1
      BY <2>1, <2>2, <2>3, <2>6, <3>3
    <3> QED BY <2>4, <3>1, <3>2, <3>3
  <2>7. sending' \in 0..MaxPaste /\ (sending' # 0 => paste'[sending'].pc = "asking")
    BY <1>1, <1>2 DEF SendInv, Pastes
  <2> QED BY <2>2, <2>5, <2>6, <2>7 DEF SendInv
<1>6. MainInv' BY <1>1, MainKept DEF mainVars
<1>7. OtherInv' BY <1>1, OtherKept
<1> QED BY <1>2, <1>3, <1>4, <1>5, <1>6, <1>7

(* The results. *)

\* The invariant is inductive.
LEMMA InvStep == IInv /\ [Next]_vars => IInv'
<1> SUFFICES ASSUME IInv, [Next]_vars PROVE IInv' OBVIOUS
<1>1. ASSUME NEW k \in Key, Announce(k) \/ ProvideData(k) PROVE IInv'
  BY <1>1, AnnounceStep, ProvideDataStep
<1>2. CASE MainNext
  BY <1>2, RecreateStep, SendEagerStep, SendStep, SpawnStep, SendDiscardedStep,
     CancelledStep, DataOfferStep, SelectionStep, ClearedStep, PrimaryStep DEF MainNext
<1>3. CASE Quit \/ Detach \/ Destroy BY <1>3, QuitStep, DestroyStep
<1>4. ASSUME NEW p \in Pastes, WorkerCheck(p) \/ WorkerTimeout(p) \/ AppPaste(p) PROVE IInv'
  BY <1>4, WorkerStep, AppPasteStep
<1>5. ASSUME NEW n \in Copies, DrainStore(n) \/ DrainCall(n) PROVE IInv'
  BY <1>5, DrainStep
<1>6. CASE ServerNext BY <1>6, ServerSetSelectionStep, ServerDestroyStep DEF ServerNext
<1>7. CASE AppCopy(TRUE) \/ AppCopy(FALSE) \/ AppSelect BY <1>7, AppCopyStep, AppSelectStep
<1>8. CASE UNCHANGED vars
  <2>1. UNCHANGED <<stateVars, mainVars, serverVars, cached_clipboard_text, sending, paste,
                    drain, phase, asked>>
    BY <1>8 DEF vars
  <2>2. LogInv' BY <2>1, LogKept DEF IInv
  <2>3. SourceInv' BY <2>1, SourceKept DEF IInv, stateVars, mainVars, serverVars
  <2>4. PasteInv' BY <2>1, PasteKept DEF IInv, stateVars
  <2>5. SendInv' BY <2>1, SendKept DEF IInv, serverVars
  <2>6. MainInv' BY <2>1, MainKept DEF IInv, mainVars
  <2>7. OtherInv' BY <2>1, OtherKept DEF IInv, serverVars
  <2> QED BY <2>2, <2>3, <2>4, <2>5, <2>6, <2>7 DEF IInv
<1> QED BY <1>1, <1>2, <1>3, <1>4, <1>5, <1>6, <1>7, <1>8 DEF Next

\* It holds throughout.
LEMMA InvHolds == Spec => []IInv
BY InvInit, InvStep, PTL DEF Spec

\* For any keys and bounds, the state of the backend is well formed; among its
\* sources only the current one is alive, and bytes are held only for the
\* announcement at hand (AnnounceDelayed, ProvideData, RecreateSource).
THEOREM TypeCorrect == Spec => []TypeOK
<1>1. IInv => TypeOK
  <2> SUFFICES ASSUME IInv PROVE TypeOK OBVIOUS
  <2>1. current_hash \in OptKey
    <3>1. Len(log) \in Nat /\ (log # <<>> => Len(log) # 0)
      BY EmptySeq, LenProperties DEF IInv, LogInv
    <3> QED BY <3>1, ElementOfSeq DEF IInv, LogInv, OptKey
  <2>2. pending_data \in {NoKey, current_hash} /\ log \in Seq(Key) BY DEF IInv, LogInv
  <2>3. /\ live \subseteq {current_source} \ {0} /\ offer_mimes \subseteq Offer
        /\ echoed \in BOOLEAN
    BY DEF IInv, MainInv
  <2>4. mainQueue \in Seq(1..MaxAnnounce) /\ owner \in 0..MaxAnnounce
    BY DEF IInv, SourceInv
  <2>5. sending \in 0..MaxPaste /\ toClient \in Seq(Event) BY DEF IInv, SendInv
  <2>6. ASSUME NEW p \in Pastes
        PROVE  /\ paste[p].pc \in {"none", "sent", "asking", "wait", "done"}
               /\ paste[p].source \in 0..MaxAnnounce /\ paste[p].since \in 0..Len(log)
               /\ paste[p].hash \in OptKey /\ paste[p].got \in OptKey
    <3>1. paste[p] \in PasteRec /\ PasteOK(paste[p], log) BY DEF IInv, PasteInv
    <3>2. Len(log) \in Nat BY LenProperties DEF IInv, LogInv
    <3> QED BY <3>1, <3>2 DEF PasteRec, PasteOK
  <2>7. /\ cached_clipboard_text \in 0..MaxCopy
        /\ drain \in [Copies -> {"none", "lost", "reading", "calling", "done"}]
        /\ phase \in {"running", "quit", "detached", "destroyed"} /\ asked \subseteq Key
    BY DEF IInv, OtherInv
  <2> QED BY <2>1, <2>2, <2>3, <2>4, <2>5, <2>6, <2>7 DEF TypeOK
<1> QED BY <1>1, InvHolds, PTL

\* For any keys and bounds, a paste never gets content older than the source it
\* pasted from: ProvideData keeps bytes for the current announcement only, and a
\* worker compares the hash its OnSourceSend captured.
THEOREM PasteIsFresh == Spec => []PasteFresh
<1>1. IInv => PasteFresh BY DEF IInv, PasteInv, PasteOK, PasteFresh
<1> QED BY <1>1, InvHolds, PTL

(* The refinement. *)

\* Nothing is seen of a step that moves no paste past its beginning or end.
LEMMA NothingSeen ==
  ASSUME UNCHANGED log,
         \A p \in Pastes : /\ paste'[p].source = paste[p].source /\ paste'[p].got = paste[p].got
                           /\ \/ paste'[p].pc = paste[p].pc
                              \/ /\ paste[p].pc \notin {"none", "done"}
                                 /\ paste'[p].pc \notin {"none", "done"}
  PROVE  UNCHANGED Lazy!vars
<1>1. ASSUME NEW p \in Pastes PROVE Seen(p)' = Seen(p) BY DEF Seen
<1> QED BY <1>1 DEF Lazy!vars

\* The end of a paste is an answer.
LEMMA CloseAnswers ==
  ASSUME PasteInv, UNCHANGED log, NEW p \in Pastes, paste[p].pc \notin {"none", "done"},
         NEW k \in OptKey, Close(p, k),
         k # NoKey => \E i \in paste[p].source..Len(log) : log[i] = k
  PROVE  Lazy!Next
<1> DEFINE S == [q \in Pastes |-> Seen(q)]
<1>1. /\ \A q \in Pastes : q # p => paste'[q] = paste[q]
      /\ paste'[p].pc = "done" /\ paste'[p].got = k /\ paste'[p].source = paste[p].source
  BY CloseMoves
<1>2. S[p].pc = "open" /\ S[p].on = paste[p].source BY DEF Seen
<1>3. k \in Lazy!Answers(paste[p].source) BY DEF Lazy!Answers
<1>4. S' = [S EXCEPT ![p] = [pc |-> "done", on |-> S[p].on, answer |-> k]]
  <2>1. ASSUME NEW q \in Pastes, q # p PROVE Seen(q)' = Seen(q) BY <1>1, <2>1 DEF Seen
  <2>2. Seen(p)' = [pc |-> "done", on |-> paste[p].source, answer |-> k] BY <1>1 DEF Seen
  <2> QED BY <1>2, <2>1, <2>2
<1>5. Lazy!Answer(p) BY <1>2, <1>3, <1>4 DEF Lazy!Answer
<1> QED BY <1>5 DEF Lazy!Next

\* The beginning of a paste.
LEMMA PasteSeen == ASSUME IInv, NEW p \in Pastes, AppPaste(p) PROVE Lazy!Next
<1> DEFINE S == [q \in Pastes |-> Seen(q)]
<1>1. /\ owner \in 1..Len(log) /\ paste[p].pc = "none"
      /\ \A q \in Pastes : q # p => paste'[q] = paste[q]
      /\ paste'[p].pc = "sent" /\ paste'[p].source = owner /\ paste'[p].got = NoKey
  BY PasteBegins
<1>2. S[p].pc = "none" BY <1>1 DEF Seen
<1>3. S' = [S EXCEPT ![p] = [pc |-> "open", on |-> owner, answer |-> NoKey]]
  <2>1. ASSUME NEW q \in Pastes, q # p PROVE Seen(q)' = Seen(q) BY <1>1, <2>1 DEF Seen
  <2>2. Seen(p)' = [pc |-> "open", on |-> owner, answer |-> NoKey] BY <1>1 DEF Seen
  <2> QED BY <2>1, <2>2
<1>4. log' = log BY DEF AppPaste, stateVars
<1>5. Lazy!Begin(p) BY <1>1, <1>2, <1>3, <1>4 DEF Lazy!Begin
<1> QED BY <1>5 DEF Lazy!Next

\* To the applications an announcement is an announcement.
LEMMA AnnounceSeen == ASSUME IInv, NEW k \in Key, Announce(k) PROVE Lazy!Next
<1>1. paste' = NotifyAll /\ log' = Append(log, k) BY DEF Announce
<1>2. ASSUME NEW p \in Pastes PROVE Seen(p)' = Seen(p)
  BY <1>1, NotifyPaste DEF Seen, IInv
<1>3. Lazy!Announce BY <1>1, <1>2 DEF Lazy!Announce
<1> QED BY <1>3 DEF Lazy!Next

\* The worker of a paste answers it, or is not seen.
LEMMA WorkerSeen ==
  ASSUME IInv, NEW p \in Pastes, WorkerCheck(p) \/ WorkerTimeout(p)
  PROVE  [Lazy!Next]_(Lazy!vars)
<1> USE DEF IInv
<1>1. paste[p].pc = "wait" /\ log' = log BY DEF WorkerCheck, WorkerTimeout, stateVars
<1>2. CASE Close(p, NoKey)
  <2>1. NoKey \in OptKey BY DEF OptKey
  <2> QED BY <1>1, <1>2, <2>1, CloseAnswers
<1>3. CASE pending_data # NoKey /\ Close(p, Materialise(pending_data, paste[p].mime))
  <2> DEFINE k == Materialise(pending_data, paste[p].mime)
  <2>1. k \in OptKey /\ (k # NoKey => \E i \in paste[p].source..Len(log) : log[i] = k)
    BY <1>3, PendingAnswers
  <2>2. Close(p, k) BY <1>3
  <2> HIDE DEF k
  <2> QED BY <1>1, <2>1, <2>2, CloseAnswers
<1>4. CASE paste' = [paste EXCEPT ![p].awake = FALSE]
  <2>1. ASSUME NEW q \in Pastes
        PROVE  /\ paste'[q].source = paste[q].source /\ paste'[q].got = paste[q].got
               /\ paste'[q].pc = paste[q].pc
    BY <1>4 DEF PasteInv, PasteRec
  <2> QED BY <1>1, <2>1, NothingSeen
<1>5. \/ Close(p, NoKey)
      \/ pending_data # NoKey /\ Close(p, Materialise(pending_data, paste[p].mime))
      \/ paste' = [paste EXCEPT ![p].awake = FALSE]
  BY DEF WorkerCheck, WorkerTimeout
<1> QED BY <1>2, <1>3, <1>4, <1>5

\* A send event answers its paste, or is not seen.
LEMMA SendSeen ==
  ASSUME IInv, OnSourceSendEager \/ OnSourceSend \/ SendDiscarded
  PROVE  [Lazy!Next]_(Lazy!vars)
<1> USE DEF IInv
<1> DEFINE p == Head(toClient).paste
<1>1. Dispatch("send") /\ Dispatched /\ log' = log
  BY DEF OnSourceSendEager, OnSourceSend, SendDiscarded, stateVars
<1>2. p \in Pastes /\ paste[p].pc = "sent" BY <1>1, SendTaken
<1>3. CASE OnSourceSendEager
  <2> DEFINE k == Materialise(pending_data, paste[p].mime)
  <2>1. pending_data # NoKey /\ Close(p, k) BY <1>3 DEF OnSourceSendEager
  <2>2. k \in OptKey /\ (k # NoKey => \E i \in paste[p].source..Len(log) : log[i] = k)
    BY <1>2, <2>1, PendingAnswers
  <2> HIDE DEF k
  <2> QED BY <1>1, <1>2, <2>1, <2>2, CloseAnswers
<1>4. CASE OnSourceSend
  <2>1. paste' = [paste EXCEPT ![p].pc = "asking", ![p].hash = current_hash,
                               ![p].since = Len(log)]
    BY <1>4 DEF OnSourceSend
  <2>2. ASSUME NEW q \in Pastes
        PROVE  /\ paste'[q].source = paste[q].source /\ paste'[q].got = paste[q].got
               /\ \/ paste'[q].pc = paste[q].pc
                  \/ paste[q].pc = "sent" /\ paste'[q].pc = "asking"
    <3>1. paste \in [Pastes -> PasteRec] BY DEF PasteInv
    <3>2. CASE q # p BY <2>1, <3>1, <3>2
    <3>3. CASE q = p
      <4>1. paste'[p] = [paste[p] EXCEPT !.pc = "asking", !.hash = current_hash,
                                         !.since = Len(log)]
        BY <1>2, <2>1, <3>1
      <4>2. paste[p] \in PasteRec BY <1>2, <3>1
      <4> HIDE DEF p
      <4> QED BY <1>2, <3>3, <4>1, <4>2 DEF PasteRec
    <3> QED BY <3>2, <3>3
  <2> QED BY <1>1, <2>2, NothingSeen
<1>5. CASE SendDiscarded
  <2>1. Close(p, NoKey) /\ NoKey \in OptKey BY <1>5 DEF SendDiscarded, OptKey
  <2> QED BY <1>1, <1>2, <2>1, CloseAnswers
<1> QED BY <1>3, <1>4, <1>5

\* Starting the worker is invisible to the applications.
LEMMA SpawnSeen == ASSUME IInv, SpawnWorker PROVE UNCHANGED Lazy!vars
<1>1. /\ sending # 0 /\ log' = log
      /\ paste' = [paste EXCEPT ![sending].pc = "wait", ![sending].awake = TRUE]
  BY DEF SpawnWorker, stateVars
<1>2. sending \in Pastes /\ paste[sending].pc = "asking" BY <1>1 DEF IInv, SendInv, Pastes
<1>3. ASSUME NEW q \in Pastes
      PROVE  /\ paste'[q].source = paste[q].source /\ paste'[q].got = paste[q].got
             /\ \/ paste'[q].pc = paste[q].pc
                \/ paste[q].pc = "asking" /\ paste'[q].pc = "wait"
  BY <1>1, <1>2 DEF IInv, PasteInv, PasteRec
<1> QED BY <1>1, <1>3, NothingSeen

\* Every step of the backend is a step of the lazy clipboard, or not seen.
LEMMA StepRefines == IInv /\ [Next]_vars => [Lazy!Next]_(Lazy!vars)
<1> SUFFICES ASSUME IInv, [Next]_vars PROVE [Lazy!Next]_(Lazy!vars) OBVIOUS
<1>1. ASSUME UNCHANGED <<log, paste>> PROVE UNCHANGED Lazy!vars BY <1>1, NothingSeen
<1>2. ASSUME UNCHANGED log, paste' = NotifyAll PROVE UNCHANGED Lazy!vars
  BY <1>2, NotifyPaste, NothingSeen DEF IInv
<1>3. ASSUME NEW k \in Key, Announce(k) \/ ProvideData(k) PROVE [Lazy!Next]_(Lazy!vars)
  <2>1. CASE Announce(k) BY <2>1, AnnounceSeen
  <2>2. CASE ProvideData(k) BY <1>2, <2>2 DEF ProvideData
  <2> QED BY <1>3, <2>1, <2>2
<1>4. CASE MainNext
  <2>1. CASE OnSourceSendEager \/ OnSourceSend \/ SendDiscarded BY <2>1, SendSeen
  <2>2. CASE SpawnWorker BY <2>2, SpawnSeen
  <2>3. CASE RecreateSource \/ OnSourceCancelled \/ OnDeviceDataOffer \/ OnDeviceSelection
               \/ OnSelectionCleared \/ OnPrimarySelection
    BY <1>1, <2>3 DEF RecreateSource, OnSourceCancelled, OnDeviceDataOffer,
       OnDeviceSelection, OnSelectionCleared, OnPrimarySelection, stateVars
  <2> QED BY <1>4, <2>1, <2>2, <2>3 DEF MainNext
<1>5. CASE Quit \/ Detach BY <1>1, <1>5 DEF Quit, Detach, stateVars
<1>6. CASE Destroy BY <1>2, <1>6 DEF Destroy, stateVars
<1>7. ASSUME NEW p \in Pastes, WorkerCheck(p) \/ WorkerTimeout(p) \/ AppPaste(p)
      PROVE  [Lazy!Next]_(Lazy!vars)
  BY <1>7, WorkerSeen, PasteSeen
<1>8. ASSUME NEW n \in Copies, DrainStore(n) \/ DrainCall(n) PROVE UNCHANGED Lazy!vars
  BY <1>1, <1>8 DEF DrainStore, DrainCall, stateVars
<1>9. CASE ServerNext \/ AppCopy(TRUE) \/ AppCopy(FALSE) \/ AppSelect
  BY <1>1, <1>9 DEF ServerNext, ServerSetSelection, ServerDestroy, AppCopy, AppSelect, stateVars
<1>10. CASE UNCHANGED vars BY <1>1, <1>10 DEF vars, stateVars
<1> QED BY <1>3, <1>4, <1>5, <1>6, <1>7, <1>8, <1>9, <1>10 DEF Next

\* For any keys and bounds, the backend with its queues, threads and destroyed
\* sources implements a lazy clipboard: OnSourceSend, its workers and the
\* discarded events answer a paste once, with nothing or with what was announced
\* since it began.
THEOREM RefinesLazy == Spec => ImplementsLazy
<1>1. Init => Lazy!Init
  <2> SUFFICES ASSUME Init PROVE Lazy!Init OBVIOUS
  <2>1. ASSUME NEW p \in Pastes
        PROVE  Seen(p) = [pc |-> "none", on |-> 0, answer |-> NoKey]
    BY DEF Init, Seen, NoPaste
  <2> QED BY <2>1 DEF Init, Lazy!Init
<1> QED BY <1>1, InvHolds, StepRefines, PTL DEF Spec, ImplementsLazy, Lazy!Spec

(* Who owns the clipboard. *)

\* The number of the source created last; mainQueue holds the ones after it.
Made == Len(log) - Len(mainQueue)

Selects(r) == r.req = "set_selection"

Ours(e) == e.type = "selection" /\ e.offer.from = "us"

CancelsLast(e) == e.type = "cancelled" /\ e.source = Made

\* A selection of ours is on its way to the compositor.
SelectPending == \E i \in 1..Len(toServer) : Selects(toServer[i])

\* The source created last was cancelled, and the helper is yet to hear of it.
CancelPending == \E i \in 1..Len(toClient) : CancelsLast(toClient[i])

\* Sources are created in the order of their announcements, and the current one
\* is the last: nobody names a later one.
OrderInv ==
  /\ Len(mainQueue) <= Len(log)
  /\ \A i \in 1..Len(mainQueue) : mainQueue[i] = Made + i
  /\ current_source \in {0, Made} /\ live = {current_source} \ {0}
  /\ owner <= Made
  /\ \A i \in 1..Len(toServer) : toServer[i].source <= Made
  /\ \A i \in 1..Len(toClient) :
       toClient[i].type = "cancelled" => toClient[i].source <= Made

\* The last selection requested is that of the source created last, and the
\* current source is not about to be destroyed.
RequestInv ==
  /\ \A i \in 1..Len(toServer) :
       Selects(toServer[i]) =>
         \E j \in 1..Len(toServer) :
           i <= j /\ Selects(toServer[j]) /\ toServer[j].source = Made
  /\ \A i, j \in 1..Len(toServer) :
       i < j /\ Selects(toServer[i]) /\ toServer[i].source = Made => ~Selects(toServer[j])
  /\ \A i \in 1..Len(toServer) :
       ~Selects(toServer[i]) => toServer[i].source # current_source

\* The source created last is to be selected, or selected, or to be cancelled,
\* and only the helper may think it still has one that is cancelled; after that
\* it hears of no selection of its own.
LastInv ==
  /\ SelectPending => current_source # 0 /\ owner # Made /\ ~CancelPending
  /\ CancelPending => owner = 0
  /\ \A i, j \in 1..Len(toClient) : i < j /\ CancelsLast(toClient[i]) => ~Ours(toClient[j])
  /\ current_source = 0 => owner = 0 /\ \A i \in 1..Len(toClient) : ~Ours(toClient[i])
  /\ current_source # 0 => SelectPending \/ owner = Made \/ CancelPending

\* An event selects the text on the clipboard, and will not be taken for an echo.
Heard(i) ==
  /\ toClient[i].type = "selection"
  /\ toClient[i].offer.from = "app" /\ toClient[i].offer.text
  /\ toClient[i].offer.n = lastText
  /\ i = 1 => toClient[i].offer \in offer_mimes
  /\ i # 1 => /\ toClient[i - 1].type = "data_offer"
              /\ toClient[i - 1].offer = toClient[i].offer
  /\ current_source # 0 => \E j \in 1..Len(toClient) : j < i /\ CancelsLast(toClient[j])

\* The text of another application is drained, or replaced, or heard of.
TextInv ==
  /\ lastText \in 0..MaxCopy
  /\ lastText # 0 => owner = 0
  /\ lastText # 0 => \/ drain[lastText] # "none"
                     \/ SelectPending
                     \/ \E i \in 1..Len(toClient) : Heard(i)

OwnInv == OrderInv /\ RequestInv /\ LastInv /\ TextInv

\* While the event loop runs; nothing is dispatched afterwards.
EchoInv == ~echoed /\ (phase = "running" => OwnInv)

\* The lengths and numbers the invariant compares.
LEMMA Sizes ==
  ASSUME IInv, OrderInv
  PROVE  /\ Len(log) \in Nat /\ Len(mainQueue) \in Nat /\ Made \in Nat
         /\ Len(toServer) \in Nat /\ Len(toClient) \in Nat
         /\ owner \in Nat /\ current_source \in Nat
         /\ \A i \in 1..Len(toServer) : toServer[i].source \in Nat \ {0}
<1>1. Len(log) \in Nat BY LenProperties DEF IInv, LogInv
<1>2. Len(mainQueue) \in Nat /\ Len(toServer) \in Nat BY LenProperties DEF IInv, SourceInv
<1>3. Len(toClient) \in Nat BY LenProperties DEF IInv, SendInv
<1>4. Made \in Nat BY <1>1, <1>2 DEF OrderInv, Made
<1>5. owner \in Nat /\ current_source \in Nat BY DEF IInv, SourceInv, MainInv
<1>6. ASSUME NEW i \in 1..Len(toServer) PROVE toServer[i].source \in Nat \ {0}
  <2>1. toServer[i] \in ServerRequest BY ElementOfSeq DEF IInv, SourceInv
  <2> QED BY <2>1 DEF ServerRequest
<1> QED BY <1>1, <1>2, <1>3, <1>4, <1>5, <1>6

\* The elements that stay when the first is taken off.
LEMMA TailAt ==
  ASSUME NEW S, NEW q \in Seq(S), q # <<>>
  PROVE  /\ Len(q) \in Nat /\ Len(Tail(q)) = Len(q) - 1
         /\ Head(q) = q[1] /\ 1 \in 1..Len(q)
         /\ \A i \in 1..Len(Tail(q)) : i + 1 \in 1..Len(q) /\ Tail(q)[i] = q[i + 1]
         /\ \A i \in 1..Len(q) : i # 1 => i - 1 \in 1..Len(Tail(q)) /\ Tail(q)[i - 1] = q[i]
<1>1. Len(q) \in Nat /\ Len(Tail(q)) = Len(q) - 1 BY HeadTailProperties, LenProperties
<1>2. /\ Head(q) = q[1] /\ 1 \in 1..Len(q)
      /\ \A i \in 1..Len(Tail(q)) : i + 1 \in 1..Len(q) /\ Tail(q)[i] = q[i + 1]
  BY Taken
<1>3. ASSUME NEW i \in 1..Len(q), i # 1
      PROVE  i - 1 \in 1..Len(Tail(q)) /\ Tail(q)[i - 1] = q[i]
  <2>1. i - 1 \in 1..Len(Tail(q)) BY <1>1, <1>3
  <2>2. (i - 1) + 1 = i OBVIOUS
  <2> QED BY <1>2, <2>1, <2>2
<1> QED BY <1>1, <1>2, <1>3

\* The elements of a sequence and of what is added behind it.
LEMMA ConcatAt ==
  ASSUME NEW S, NEW q \in Seq(S), NEW r \in Seq(S)
  PROVE  /\ Len(q) \in Nat /\ Len(r) \in Nat
         /\ q \o r \in Seq(S) /\ Len(q \o r) = Len(q) + Len(r)
         /\ \A i \in 1..Len(q) : i \in 1..Len(q \o r) /\ (q \o r)[i] = q[i]
         /\ \A i \in 1..Len(r) :
              Len(q) + i \in 1..Len(q \o r) /\ (q \o r)[Len(q) + i] = r[i]
         /\ \A i \in 1..Len(q \o r) :
              i \in 1..Len(q) \/ (i - Len(q) \in 1..Len(r) /\ (q \o r)[i] = r[i - Len(q)])
<1> DEFINE t == q \o r
<1>1. Len(q) \in Nat /\ Len(r) \in Nat BY LenProperties
<1>2. /\ t \in Seq(S) /\ Len(t) = Len(q) + Len(r)
      /\ \A i \in 1..Len(t) : t[i] = IF i <= Len(q) THEN q[i] ELSE r[i - Len(q)]
  BY ConcatProperties
<1> HIDE DEF t
<1>3. ASSUME NEW i \in 1..Len(q) PROVE i \in 1..Len(t) /\ t[i] = q[i] BY <1>1, <1>2
<1>4. ASSUME NEW i \in 1..Len(r) PROVE Len(q) + i \in 1..Len(t) /\ t[Len(q) + i] = r[i]
  <2>1. Len(q) + i \in 1..Len(t) /\ ~(Len(q) + i <= Len(q)) BY <1>1, <1>2
  <2>2. (Len(q) + i) - Len(q) = i BY <1>1
  <2> QED BY <1>2, <2>1, <2>2
<1>5. ASSUME NEW i \in 1..Len(t), i \notin 1..Len(q)
      PROVE  i - Len(q) \in 1..Len(r) /\ t[i] = r[i - Len(q)]
  <2>1. ~(i <= Len(q)) /\ i - Len(q) \in 1..Len(r) BY <1>1, <1>2, <1>5
  <2> QED BY <1>2, <2>1
<1> QED BY <1>1, <1>2, <1>3, <1>4, <1>5 DEF t

\* What moves neither the sources nor the queues, and takes back no drain.
LEMMA OwnKept ==
  ASSUME OwnInv,
         UNCHANGED <<log, mainQueue, current_source, live, owner, lastText, toServer,
                     toClient, offer_mimes>>,
         \A n \in 1..MaxCopy : drain[n] # "none" => drain'[n] # "none"
  PROVE  OwnInv'
<1>1. Made' = Made BY DEF Made
<1>2. OrderInv' BY <1>1 DEF OwnInv, OrderInv
<1>3. RequestInv' BY <1>1 DEF OwnInv, RequestInv, Selects
<1>4. (SelectPending' <=> SelectPending) /\ (CancelPending' <=> CancelPending)
  BY <1>1 DEF SelectPending, CancelPending, Selects, CancelsLast
<1>5. LastInv' BY <1>1, <1>4 DEF OwnInv, LastInv, CancelsLast, Ours
<1>6. ASSUME NEW i \in 1..Len(toClient), Heard(i) PROVE Heard(i)'
  BY <1>1, <1>6 DEF Heard, CancelsLast
<1>7. TextInv' BY <1>4, <1>6, KeyAssumption DEF OwnInv, TextInv
<1> QED BY <1>2, <1>3, <1>5, <1>7 DEF OwnInv

\* An announcement queues the source after the last one queued.
LEMMA AnnounceOwn == ASSUME IInv, OwnInv, NEW k \in Key, Announce(k) PROVE OwnInv'
<1>1. /\ log' = Append(log, k) /\ mainQueue' = Append(mainQueue, Len(log) + 1)
      /\ UNCHANGED <<current_source, live, owner, lastText, toServer, toClient, offer_mimes,
                     drain>>
      /\ Len(log) < MaxAnnounce
  BY DEF Announce, serverVars
<1>2. Len(log) \in Nat /\ Len(mainQueue) \in Nat /\ Made \in Nat BY Sizes DEF OwnInv
<1>3. Len(log') = Len(log) + 1 BY <1>1, AppendProperties DEF IInv, LogInv
<1>4. Len(log) + 1 \in 1..MaxAnnounce BY <1>1, <1>2, KeyAssumption
<1>5. /\ Len(mainQueue') = Len(mainQueue) + 1
      /\ \A i \in 1..Len(mainQueue) : mainQueue'[i] = mainQueue[i]
      /\ mainQueue'[Len(mainQueue) + 1] = Len(log) + 1
  BY <1>1, <1>4, AppendProperties DEF IInv, SourceInv
<1>6. Made' = Made BY <1>2, <1>3, <1>5 DEF Made
<1>7. Made + (Len(mainQueue) + 1) = Len(log) + 1 BY <1>2 DEF Made
<1>8. ASSUME NEW i \in 1..Len(mainQueue') PROVE mainQueue'[i] = Made + i
  <2>1. i \in 1..Len(mainQueue) \/ i = Len(mainQueue) + 1 BY <1>2, <1>5
  <2> QED BY <1>5, <1>7, <2>1 DEF OwnInv, OrderInv
<1>9. Len(mainQueue') <= Len(log') BY <1>2, <1>3, <1>5 DEF OwnInv, OrderInv
<1>10. OrderInv' BY <1>1, <1>6, <1>8, <1>9 DEF OwnInv, OrderInv
<1>11. RequestInv' BY <1>1, <1>6 DEF OwnInv, RequestInv, Selects
<1>12. (SelectPending' <=> SelectPending) /\ (CancelPending' <=> CancelPending)
  BY <1>1, <1>6 DEF SelectPending, CancelPending, Selects, CancelsLast
<1>13. LastInv' BY <1>1, <1>6, <1>12 DEF OwnInv, LastInv, CancelsLast, Ours
<1>14. ASSUME NEW i \in 1..Len(toClient), Heard(i) PROVE Heard(i)'
  BY <1>1, <1>6, <1>14 DEF Heard, CancelsLast
<1>15. TextInv' BY <1>1, <1>12, <1>14 DEF OwnInv, TextInv
<1> QED BY <1>10, <1>11, <1>13, <1>15 DEF OwnInv

(* The helper handles an event. *)

\* An event that does not cancel the current source leaves the queues in order.
LEMMA EventSpent ==
  ASSUME IInv, OwnInv, toClient # <<>>, toClient' = Tail(toClient),
         UNCHANGED <<log, mainQueue, current_source, live, owner, toServer>>,
         current_source # 0 => ~CancelsLast(Head(toClient))
  PROVE  /\ OrderInv' /\ RequestInv' /\ LastInv'
         /\ Made' = Made /\ (SelectPending' <=> SelectPending)
<1>1. Made' = Made BY DEF Made
<1>2. /\ Head(toClient) = toClient[1] /\ 1 \in 1..Len(toClient)
      /\ \A i \in 1..Len(toClient') : i + 1 \in 1..Len(toClient) /\ toClient'[i] = toClient[i + 1]
      /\ \A i \in 1..Len(toClient) :
           i # 1 => i - 1 \in 1..Len(toClient') /\ toClient'[i - 1] = toClient[i]
  <2>1. toClient \in Seq(Event) BY DEF IInv, SendInv
  <2> QED BY <2>1, TailAt
<1>3. OrderInv' BY <1>1, <1>2 DEF OwnInv, OrderInv
<1>4. RequestInv' BY <1>1 DEF OwnInv, RequestInv, Selects
<1>5. SelectPending' <=> SelectPending BY DEF SelectPending, Selects
<1>6. CancelPending' => CancelPending BY <1>1, <1>2 DEF CancelPending, CancelsLast
<1>7. ASSUME CancelPending, current_source # 0 PROVE CancelPending'
  <2>1. PICK i \in 1..Len(toClient) : CancelsLast(toClient[i]) BY <1>7 DEF CancelPending
  <2>2. i # 1 BY <1>2, <1>7, <2>1
  <2>3. i - 1 \in 1..Len(toClient') /\ toClient'[i - 1] = toClient[i] BY <1>2, <2>2
  <2>4. CancelsLast(toClient[i - 1])' BY <1>1, <2>1, <2>3 DEF CancelsLast
  <2> QED BY <2>3, <2>4 DEF CancelPending
<1>8. ASSUME NEW i \in 1..Len(toClient'), NEW j \in 1..Len(toClient'),
             i < j, CancelsLast(toClient[i + 1])
      PROVE  ~Ours(toClient[j + 1])
  <2>1. i + 1 \in 1..Len(toClient) /\ j + 1 \in 1..Len(toClient) /\ i + 1 < j + 1
    BY <1>2, <1>8
  <2> QED BY <1>8, <2>1 DEF OwnInv, LastInv
<1>9. ASSUME NEW i \in 1..Len(toClient'), NEW j \in 1..Len(toClient'),
             i < j, CancelsLast(toClient[i])'
      PROVE  ~Ours(toClient[j])'
  <2>1. CancelsLast(toClient[i + 1]) BY <1>1, <1>2, <1>9 DEF CancelsLast
  <2> QED BY <1>2, <1>8, <1>9, <2>1 DEF Ours
<1>10. ASSUME current_source = 0, NEW i \in 1..Len(toClient') PROVE ~Ours(toClient[i])'
  BY <1>2, <1>10 DEF OwnInv, LastInv, Ours
<1>11. LastInv' BY <1>1, <1>5, <1>6, <1>7, <1>9, <1>10 DEF OwnInv, LastInv
<1> QED BY <1>1, <1>3, <1>4, <1>5, <1>11

\* So it does for a text that is not lost with the event.
LEMMA TextSpent ==
  ASSUME IInv, OwnInv, toClient # <<>>, toClient' = Tail(toClient),
         UNCHANGED <<log, mainQueue, current_source, owner, toServer, lastText>>,
         current_source # 0 => ~CancelsLast(Head(toClient)),
         Head(toClient).type = "data_offer" => Head(toClient).offer \in offer_mimes',
         \A n \in 1..MaxCopy : drain[n] # "none" => drain'[n] # "none",
         lastText # 0 /\ Heard(1) => drain'[lastText] # "none"
  PROVE  TextInv'
<1>1. Made' = Made /\ (SelectPending' <=> SelectPending) BY DEF Made, SelectPending, Selects
<1>2. /\ Head(toClient) = toClient[1] /\ 1 \in 1..Len(toClient)
      /\ \A i \in 1..Len(toClient) :
           i # 1 => i - 1 \in 1..Len(toClient') /\ toClient'[i - 1] = toClient[i]
  <2>1. toClient \in Seq(Event) BY DEF IInv, SendInv
  <2> QED BY <2>1, TailAt
<1>3. ASSUME NEW i \in 1..Len(toClient), Heard(i), i # 1 PROVE Heard(i - 1)'
  <2> DEFINE h == i - 1
  <2>1. h \in 1..Len(toClient') /\ toClient'[h] = toClient[i] BY <1>2, <1>3
  <2>2. /\ toClient[i].type = "selection" /\ toClient[i].offer.from = "app"
        /\ toClient[i].offer.text /\ toClient[i].offer.n = lastText
        /\ toClient[h].type = "data_offer" /\ toClient[h].offer = toClient[i].offer
    BY <1>3 DEF Heard
  <2>3. h = 1 => toClient'[h].offer \in offer_mimes' BY <1>2, <2>1, <2>2
  <2>4. ASSUME h # 1
        PROVE  toClient'[h - 1].type = "data_offer" /\ toClient'[h - 1].offer = toClient'[h].offer
    <3>1. h \in 1..Len(toClient)
      <4>1. Len(toClient) \in Nat BY Sizes DEF OwnInv
      <4> QED BY <1>3, <4>1
    <3>2. toClient'[h - 1] = toClient[h] BY <1>2, <2>4, <3>1
    <3> QED BY <2>1, <2>2, <3>2
  <2>5. ASSUME current_source' # 0
        PROVE  \E j \in 1..Len(toClient') : j < h /\ CancelsLast(toClient[j])'
    <3>1. PICK j \in 1..Len(toClient) : j < i /\ CancelsLast(toClient[j])
      BY <1>3, <2>5 DEF Heard
    <3>2. j # 1 BY <1>2, <2>5, <3>1
    <3>3. j - 1 \in 1..Len(toClient') /\ j - 1 < h /\ toClient'[j - 1] = toClient[j]
      BY <1>2, <3>1, <3>2
    <3> QED BY <1>1, <3>1, <3>3 DEF CancelsLast
  <2> HIDE DEF h
  <2>6. Heard(h)' BY <2>1, <2>2, <2>3, <2>4, <2>5 DEF Heard
  <2> QED BY <2>6 DEF h
<1>4. ASSUME lastText # 0
      PROVE  drain'[lastText] # "none" \/ SelectPending' \/ \E i \in 1..Len(toClient') : Heard(i)'
  <2>1. CASE drain[lastText] # "none" BY <1>4, <2>1, KeyAssumption DEF OwnInv, TextInv
  <2>2. CASE SelectPending BY <1>1, <2>2
  <2>3. ASSUME NEW i \in 1..Len(toClient), Heard(i)
        PROVE  drain'[lastText] # "none" \/ \E j \in 1..Len(toClient') : Heard(j)'
    <3>1. CASE i = 1 BY <1>4, <2>3, <3>1
    <3>2. CASE i # 1 BY <1>2, <1>3, <2>3, <3>2
    <3> QED BY <3>1, <3>2
  <2> QED BY <1>4, <2>1, <2>2, <2>3 DEF OwnInv, TextInv
<1> QED BY <1>4 DEF OwnInv, TextInv

\* A send or a primary selection.
LEMMA OtherEventOwn ==
  ASSUME IInv, OwnInv,
         OnSourceSendEager \/ OnSourceSend \/ SendDiscarded \/ OnPrimarySelection
  PROVE  OwnInv'
<1>1. /\ toClient # <<>> /\ toClient' = Tail(toClient)
      /\ Head(toClient).type \in {"send", "primary"}
      /\ UNCHANGED <<log, mainQueue, current_source, live, owner, lastText, toServer,
                     offer_mimes, drain>>
  BY DEF OnSourceSendEager, OnSourceSend, SendDiscarded, OnPrimarySelection, Dispatch,
     Dispatched, stateVars, mainVars
<1>2. Head(toClient) = toClient[1] BY <1>1, EventTaken DEF IInv
<1>3. ~CancelsLast(Head(toClient)) BY <1>1 DEF CancelsLast
<1>4. OrderInv' /\ RequestInv' /\ LastInv' BY <1>1, <1>3, EventSpent
<1>5. ~Heard(1) BY <1>1, <1>2 DEF Heard
<1>6. TextInv' BY <1>1, <1>3, <1>5, TextSpent
<1> QED BY <1>4, <1>6 DEF OwnInv

\* An offer is tracked, for the selection that follows it.
LEMMA DataOfferOwn == ASSUME IInv, OwnInv, OnDeviceDataOffer PROVE OwnInv'
<1>1. /\ toClient # <<>> /\ toClient' = Tail(toClient)
      /\ Head(toClient).type = "data_offer" /\ Head(toClient).offer \in offer_mimes'
      /\ UNCHANGED <<log, mainQueue, current_source, live, owner, lastText, toServer, drain>>
  BY DEF OnDeviceDataOffer, Dispatch, Dispatched, stateVars
<1>2. Head(toClient) = toClient[1] BY <1>1, EventTaken DEF IInv
<1>3. ~CancelsLast(Head(toClient)) BY <1>1 DEF CancelsLast
<1>4. OrderInv' /\ RequestInv' /\ LastInv' BY <1>1, <1>3, EventSpent
<1>5. ~Heard(1) BY <1>1, <1>2 DEF Heard
<1>6. TextInv' BY <1>1, <1>3, <1>5, TextSpent
<1> QED BY <1>4, <1>6 DEF OwnInv

\* The selection is gone, and every offer with it.
LEMMA ClearedOwn == ASSUME IInv, OwnInv, OnSelectionCleared PROVE OwnInv'
<1>1. /\ toClient # <<>> /\ toClient' = Tail(toClient) /\ Head(toClient).type = "cleared"
      /\ UNCHANGED <<log, mainQueue, current_source, live, owner, lastText, toServer, drain>>
  BY DEF OnSelectionCleared, Dispatch, Dispatched, stateVars
<1>2. Head(toClient) = toClient[1] BY <1>1, EventTaken DEF IInv
<1>3. ~CancelsLast(Head(toClient)) BY <1>1 DEF CancelsLast
<1>4. OrderInv' /\ RequestInv' /\ LastInv' BY <1>1, <1>3, EventSpent
<1>5. ~Heard(1) BY <1>1, <1>2 DEF Heard
<1>6. TextInv' BY <1>1, <1>3, <1>5, TextSpent
<1> QED BY <1>4, <1>6 DEF OwnInv

\* A selection is an echo or somebody else's: our own comes while we have a
\* source, and the text on the clipboard when we have none.
LEMMA SelectionOwn ==
  ASSUME IInv, OwnInv, ~echoed, OnDeviceSelection
  PROVE  OwnInv' /\ ~echoed'
<1> DEFINE o == Head(toClient).offer
<1>1. /\ toClient # <<>> /\ toClient' = Tail(toClient) /\ Head(toClient).type = "selection"
      /\ UNCHANGED <<log, mainQueue, current_source, live, owner, lastText, toServer>>
  BY DEF OnDeviceSelection, Dispatch, Dispatched, stateVars
<1>2. /\ Head(toClient) = toClient[1] /\ 1 \in 1..Len(toClient) /\ Head(toClient) \in Event
  BY <1>1, EventTaken DEF IInv
<1>3. CASE current_source # 0 \/ o \notin offer_mimes \/ ~o.text
  <2>1. UNCHANGED <<drain, echoed>> BY <1>3 DEF OnDeviceSelection
  <2>2. ~Heard(1)
    <3>1. ASSUME Heard(1) PROVE FALSE
      <4>1. o \in offer_mimes /\ o.text BY <1>2, <3>1 DEF Heard
      <4>2. current_source = 0 BY <3>1 DEF Heard
      <4> QED BY <1>3, <4>1, <4>2
    <3> QED BY <3>1
  <2>3. ~CancelsLast(Head(toClient)) BY <1>1 DEF CancelsLast
  <2>4. OrderInv' /\ RequestInv' /\ LastInv' BY <1>1, <2>3, EventSpent
  <2>5. TextInv' BY <1>1, <2>1, <2>2, <2>3, TextSpent
  <2> QED BY <2>1, <2>4, <2>5 DEF OwnInv
<1>4. CASE ~(current_source # 0 \/ o \notin offer_mimes \/ ~o.text)
  <2>1. o.from # "us"
    <3>1. ~Ours(toClient[1]) BY <1>2, <1>4 DEF OwnInv, LastInv
    <3> QED BY <1>1, <1>2, <3>1 DEF Ours
  <2>2. PICK d \in {"reading", "lost"} :
          /\ drain' = IF o.from = "app" THEN [drain EXCEPT ![o.n] = d] ELSE drain
          /\ echoed' = (echoed \/ o.from = "us")
    BY <1>4 DEF OnDeviceSelection
  <2>3. ~echoed' BY <2>1, <2>2
  <2>4. drain \in [1..MaxCopy -> {"none", "lost", "reading", "calling", "done"}]
    BY DEF IInv, OtherInv, Copies
  <2>5. \A n \in 1..MaxCopy : drain[n] # "none" => drain'[n] # "none" BY <2>2, <2>4
  <2>6. ASSUME lastText # 0, Heard(1) PROVE drain'[lastText] # "none"
    <3>1. o.from = "app" /\ o.n = lastText BY <1>2, <2>6 DEF Heard
    <3>2. lastText \in 1..MaxCopy BY <2>6, KeyAssumption DEF OwnInv, TextInv
    <3> HIDE DEF o
    <3> QED BY <2>2, <2>4, <3>1, <3>2
  <2>7. ~CancelsLast(Head(toClient)) BY <1>1 DEF CancelsLast
  <2>8. OrderInv' /\ RequestInv' /\ LastInv' BY <1>1, <2>7, EventSpent
  <2>9. TextInv' BY <1>1, <2>5, <2>6, <2>7, TextSpent
  <2> QED BY <2>3, <2>8, <2>9 DEF OwnInv
<1> QED BY <1>3, <1>4

\* The event that cancels the current source is the last word on it.
LEMMA CancelledOwn == ASSUME IInv, OwnInv, OnSourceCancelled PROVE OwnInv'
<1>1. /\ toClient # <<>> /\ toClient' = Tail(toClient) /\ Head(toClient).type = "cancelled"
      /\ UNCHANGED <<log, mainQueue, owner, lastText, offer_mimes, drain>>
  BY DEF OnSourceCancelled, Dispatch, Dispatched, stateVars
<1>2. /\ Head(toClient) = toClient[1] /\ 1 \in 1..Len(toClient)
      /\ \A i \in 1..Len(toClient') : i + 1 \in 1..Len(toClient) /\ toClient'[i] = toClient[i + 1]
      /\ \A i \in 1..Len(toClient) :
           i # 1 => i - 1 \in 1..Len(toClient') /\ toClient'[i - 1] = toClient[i]
  <2>1. toClient \in Seq(Event) BY DEF IInv, SendInv
  <2> QED BY <1>1, <2>1, TailAt
<1>3. /\ live = {current_source} \ {0} /\ current_source \in {0, Made}
  BY DEF OwnInv, OrderInv
<1>4. CASE Head(toClient).source \notin live
  <2>1. UNCHANGED <<current_source, live, toServer>> BY <1>4 DEF OnSourceCancelled
  <2>2. current_source # 0 => ~CancelsLast(Head(toClient)) BY <1>3, <1>4 DEF CancelsLast
  <2>3. OrderInv' /\ RequestInv' /\ LastInv' BY <1>1, <2>1, <2>2, EventSpent
  <2>4. ~Heard(1) BY <1>1, <1>2 DEF Heard
  <2>5. TextInv' BY <1>1, <2>1, <2>2, <2>4, TextSpent
  <2> QED BY <2>3, <2>5 DEF OwnInv
<1>5. CASE Head(toClient).source \in live
  <2> DEFINE d == [req |-> "destroy", source |-> current_source]
  <2>1. /\ current_source # 0 /\ current_source = Made /\ Head(toClient).source = Made
    BY <1>3, <1>5
  <2>2. /\ toServer' = toServer \o <<d>> /\ current_source' = 0
        /\ live' = live \ {current_source}
    BY <1>5, <2>1 DEF OnSourceCancelled, DestroySource
  <2>3. CancelsLast(toClient[1]) BY <1>1, <1>2, <2>1 DEF CancelsLast
  <2>4. owner = 0 /\ ~SelectPending BY <1>2, <2>3 DEF OwnInv, LastInv, CancelPending
  <2>5. Made' = Made BY <1>1 DEF Made
  <2>6. /\ Made \in Nat /\ Len(toServer) \in Nat
        /\ \A i \in 1..Len(toServer) : toServer[i].source \in Nat \ {0}
    BY Sizes DEF OwnInv
  <2>7. ASSUME NEW i \in 1..Len(toServer')
        PROVE  /\ ~Selects(toServer'[i]) /\ toServer'[i].source <= Made
               /\ toServer'[i].source # 0
    <3>1. d \in ServerRequest /\ d.req = "destroy" /\ d.source = current_source
      BY <2>1 DEF ServerRequest, IInv, MainInv
    <3> HIDE DEF d
    <3>2. toServer \in Seq(ServerRequest) /\ <<d>> \in Seq(ServerRequest) /\ Len(<<d>>) = 1
      BY <3>1 DEF IInv, SourceInv
    <3>3. \/ i \in 1..Len(toServer) /\ toServer'[i] = toServer[i]
          \/ i - Len(toServer) \in 1..1 /\ toServer'[i] = <<d>>[i - Len(toServer)]
      BY <2>2, <3>2, ConcatAt
    <3>4. CASE i \in 1..Len(toServer) /\ toServer'[i] = toServer[i]
      BY <2>4, <2>6, <3>4 DEF OwnInv, OrderInv, SelectPending
    <3>5. CASE i - Len(toServer) \in 1..1 /\ toServer'[i] = <<d>>[i - Len(toServer)]
      <4>1. i - Len(toServer) = 1 BY <2>6, <3>5
      <4>2. toServer'[i] = d BY <3>5, <4>1
      <4> QED BY <2>1, <2>6, <3>1, <4>2 DEF Selects
    <3> QED BY <3>3, <3>4, <3>5
  <2>8. OrderInv'
    <3>1. live' = {current_source'} \ {0} BY <1>3, <2>1, <2>2
    <3> QED BY <1>1, <1>2, <2>2, <2>5, <2>7, <3>1 DEF OwnInv, OrderInv
  <2>9. RequestInv' /\ ~SelectPending'
    BY <2>2, <2>7 DEF RequestInv, SelectPending, Selects
  <2>10. ASSUME NEW i \in 1..Len(toClient') PROVE ~Ours(toClient[i])'
    <3>1. i + 1 \in 1..Len(toClient) /\ 1 < i + 1 BY <1>2
    <3>2. ~Ours(toClient[i + 1]) BY <1>2, <2>3, <3>1 DEF OwnInv, LastInv
    <3> QED BY <1>2, <3>2 DEF Ours
  <2>11. LastInv' BY <1>1, <2>2, <2>4, <2>9, <2>10 DEF LastInv
  <2>12. ASSUME NEW i \in 1..Len(toClient), Heard(i) PROVE i # 1 /\ Heard(i - 1)'
    <3> DEFINE h == i - 1
    <3>1. i # 1 BY <1>1, <1>2, <2>12 DEF Heard
    <3>2. h \in 1..Len(toClient') /\ toClient'[h] = toClient[i] BY <1>2, <3>1
    <3>3. /\ toClient[i].type = "selection" /\ toClient[i].offer.from = "app"
          /\ toClient[i].offer.text /\ toClient[i].offer.n = lastText
          /\ toClient[h].type = "data_offer" /\ toClient[h].offer = toClient[i].offer
      BY <2>12, <3>1 DEF Heard
    <3>4. h # 1 BY <1>1, <1>2, <3>3
    <3>5. h \in 1..Len(toClient)
      <4>1. Len(toClient) \in Nat BY Sizes DEF OwnInv
      <4> QED BY <3>1, <4>1
    <3>6. toClient'[h - 1] = toClient[h] BY <1>2, <3>4, <3>5
    <3> HIDE DEF h
    <3>7. Heard(h)' BY <1>1, <2>2, <3>2, <3>3, <3>4, <3>6 DEF Heard
    <3> QED BY <3>1, <3>7 DEF h
  <2>13. TextInv'
    <3>1. (\E i \in 1..Len(toClient) : Heard(i)) => \E i \in 1..Len(toClient') : Heard(i)'
      BY <1>2, <2>12
    <3> QED BY <1>1, <2>4, <3>1 DEF OwnInv, TextInv
  <2> QED BY <2>8, <2>9, <2>11, <2>13 DEF OwnInv
<1> QED BY <1>4, <1>5

(* A source is created. *)

\* The new source is the last, and its selection the last requested.
LEMMA RecreateOwn == ASSUME IInv, OwnInv, RecreateSource PROVE OwnInv'
<1> DEFINE s == Head(mainQueue)
           r == [req |-> "set_selection", source |-> s]
           K == Len(toServer')
<1>1. /\ mainQueue # <<>> /\ mainQueue' = Tail(mainQueue) /\ current_source' = s
      /\ live' = (live \ {current_source}) \cup {s}
      /\ toServer' = toServer \o DestroySource \o <<r>>
      /\ UNCHANGED <<log, owner, lastText, toClient, offer_mimes, drain>>
  BY DEF RecreateSource, stateVars
<1>2. /\ Len(log) \in Nat /\ Len(mainQueue) \in Nat /\ Made \in Nat
      /\ Len(toServer) \in Nat /\ owner \in Nat /\ current_source \in Nat
  BY Sizes DEF OwnInv
<1>3. /\ Len(mainQueue') = Len(mainQueue) - 1 /\ s = mainQueue[1] /\ 1 \in 1..Len(mainQueue)
      /\ \A i \in 1..Len(mainQueue') :
           i + 1 \in 1..Len(mainQueue) /\ mainQueue'[i] = mainQueue[i + 1]
  <2>1. mainQueue \in Seq(1..MaxAnnounce) BY DEF IInv, SourceInv
  <2> QED BY <1>1, <2>1, TailAt
<1>4. s = Made + 1 /\ Made' = Made + 1
  <2>1. s = Made + 1 BY <1>3 DEF OwnInv, OrderInv
  <2>2. Made' = Made + 1 BY <1>1, <1>2, <1>3 DEF Made
  <2> QED BY <2>1, <2>2
<1>5. r \in ServerRequest
  <2>1. s \in 1..MaxAnnounce BY <1>1, Taken DEF IInv, SourceInv
  <2> QED BY <2>1 DEF ServerRequest
<1>6. r.req = "set_selection" /\ r.source = s OBVIOUS
<1>7. live' = {s} \ {0}
  <2>1. s # 0 BY <1>2, <1>4
  <2> QED BY <1>1, <2>1 DEF OwnInv, OrderInv
<1> HIDE DEF s, r
<1>8. /\ K \in 1..K
      /\ toServer'[K] = r
      /\ \A i \in 1..K : \/ i = K
                         \/ i \in 1..Len(toServer) /\ toServer'[i] = toServer[i]
                         \/ toServer'[i].req = "destroy" /\ toServer'[i].source = current_source
  <2> DEFINE D == DestroySource
             t == toServer \o D
  <2>1. toServer \in Seq(ServerRequest) BY DEF IInv, SourceInv
  <2>2. D \in Seq(ServerRequest) BY DestroyRequest DEF IInv
  <2>3. \A i \in 1..Len(D) : D[i].req = "destroy" /\ D[i].source = current_source
    BY DEF DestroySource
  <2> HIDE DEF D
  <2>4. /\ t \in Seq(ServerRequest) /\ Len(t) \in Nat
        /\ \A i \in 1..Len(toServer) : i \in 1..Len(t) /\ t[i] = toServer[i]
        /\ \A i \in 1..Len(t) :
             i \in 1..Len(toServer)
               \/ (i - Len(toServer) \in 1..Len(D) /\ t[i] = D[i - Len(toServer)])
    BY <2>1, <2>2, ConcatAt, LenProperties
  <2>5. toServer' = t \o <<r>> BY <1>1 DEF D
  <2> HIDE DEF t
  <2>6. <<r>> \in Seq(ServerRequest) /\ Len(<<r>>) = 1 /\ <<r>>[1] = r BY <1>5
  <2>7. /\ K = Len(t) + 1
        /\ \A i \in 1..Len(t) : toServer'[i] = t[i]
        /\ toServer'[K] = r
    <3>1. /\ Len(t \o <<r>>) = Len(t) + Len(<<r>>)
          /\ \A i \in 1..Len(t) : (t \o <<r>>)[i] = t[i]
          /\ \A i \in 1..Len(<<r>>) : (t \o <<r>>)[Len(t) + i] = <<r>>[i]
      BY <2>4, <2>6, ConcatAt
    <3> QED BY <2>4, <2>5, <2>6, <3>1
  <2> HIDE DEF K
  <2>8. ASSUME NEW i \in 1..K, i # K
        PROVE  \/ i \in 1..Len(toServer) /\ toServer'[i] = toServer[i]
               \/ toServer'[i].req = "destroy" /\ toServer'[i].source = current_source
    <3>1. i \in 1..Len(t) BY <2>4, <2>7, <2>8
    <3> QED BY <2>3, <2>4, <2>7, <3>1
  <2> QED BY <2>4, <2>7, <2>8
<1>9. ASSUME NEW i \in 1..K, i # K
      PROVE  toServer'[i].source \in Nat /\ toServer'[i].source <= Made
  <2>1. CASE i \in 1..Len(toServer) /\ toServer'[i] = toServer[i]
    BY <2>1, Sizes DEF OwnInv, OrderInv
  <2>2. CASE toServer'[i].source = current_source BY <1>2, <2>2 DEF OwnInv, OrderInv
  <2> HIDE DEF K
  <2> QED BY <1>8, <1>9, <2>1, <2>2
<1>10. OrderInv'
  <2>1. ASSUME NEW i \in 1..Len(mainQueue') PROVE mainQueue'[i] = Made' + i
    <3>1. mainQueue'[i] = Made + (i + 1) BY <1>3 DEF OwnInv, OrderInv
    <3> QED BY <1>2, <1>4, <3>1
  <2>2. Len(mainQueue') <= Len(log') BY <1>1, <1>2, <1>3 DEF OwnInv, OrderInv
  <2>3. owner' <= Made' BY <1>1, <1>2, <1>4 DEF OwnInv, OrderInv
  <2>4. ASSUME NEW i \in 1..Len(toServer') PROVE toServer'[i].source <= Made'
    BY <1>2, <1>4, <1>6, <1>8, <1>9
  <2>5. ASSUME NEW i \in 1..Len(toClient'), toClient'[i].type = "cancelled"
        PROVE  toClient'[i].source <= Made'
    <3>1. toClient[i] \in Event BY <1>1, ElementOfSeq DEF IInv, SendInv
    <3>2. toClient[i].source \in Nat BY <1>1, <2>5, <3>1 DEF Event
    <3>3. toClient[i].source <= Made BY <1>1, <2>5 DEF OwnInv, OrderInv
    <3> QED BY <1>1, <1>2, <1>4, <3>2, <3>3
  <2> QED BY <1>1, <1>4, <1>7, <2>1, <2>2, <2>3, <2>4, <2>5 DEF OrderInv
<1>11. SelectPending' BY <1>6, <1>8 DEF SelectPending, Selects
<1>12. RequestInv'
  <2>1. Selects(toServer'[K]) /\ toServer'[K].source = Made' BY <1>4, <1>6, <1>8 DEF Selects
  <2>2. K \in Nat BY <1>8
  <2>3. ASSUME NEW i \in 1..K, toServer'[i].source = Made' PROVE i = K
    BY <1>2, <1>4, <1>9, <2>3
  <2>4. ASSUME NEW i \in 1..K, ~Selects(toServer'[i]) PROVE toServer'[i].source # current_source'
    BY <1>1, <1>4, <2>1, <2>3, <2>4
  <2>5. ASSUME NEW i \in 1..K
        PROVE  \E j \in 1..K : i <= j /\ Selects(toServer'[j]) /\ toServer'[j].source = Made'
    BY <1>8, <2>1, <2>2
  <2>6. ASSUME NEW i \in 1..K, NEW j \in 1..K, i < j, toServer'[i].source = Made'
        PROVE  FALSE
    BY <2>2, <2>3, <2>6
  <2> QED BY <2>4, <2>5, <2>6 DEF RequestInv, Selects
<1>13. ~CancelPending'
  <2>1. ASSUME NEW i \in 1..Len(toClient), CancelsLast(toClient[i])' PROVE FALSE
    <3>1. toClient[i].type = "cancelled" /\ toClient[i].source = Made + 1
      BY <1>1, <1>4, <2>1 DEF CancelsLast
    <3>2. toClient[i].source <= Made BY <3>1 DEF OwnInv, OrderInv
    <3> QED BY <1>2, <3>1, <3>2
  <2> QED BY <1>1, <2>1 DEF CancelPending
<1>14. current_source' # 0 /\ owner' # Made'
  <2>1. owner <= Made BY DEF OwnInv, OrderInv
  <2> QED BY <1>1, <1>2, <1>4, <2>1
<1>15. LastInv'
  BY <1>11, <1>13, <1>14 DEF LastInv, CancelPending
<1>16. TextInv' BY <1>1, <1>11 DEF OwnInv, TextInv
<1> QED BY <1>10, <1>12, <1>15, <1>16 DEF OwnInv

(* The compositor. *)

\* The events added, if any, neither cancel nor select.
Grown ==
  /\ \A i \in 1..Len(toClient) : i \in 1..Len(toClient') /\ toClient'[i] = toClient[i]
  /\ \A i \in 1..Len(toClient') :
       i \in 1..Len(toClient) \/ toClient'[i].type \notin {"cancelled", "selection"}

\* Events that neither cancel nor select are added.
LEMMA GrownBy ==
  ASSUME IInv, NEW evs \in Seq(Event), toClient' = toClient \o evs,
         \A i \in 1..Len(evs) : evs[i].type \notin {"cancelled", "selection"}
  PROVE  Grown
<1>1. toClient \in Seq(Event) BY DEF IInv, SendInv
<1>2. /\ \A i \in 1..Len(toClient) : i \in 1..Len(toClient') /\ toClient'[i] = toClient[i]
      /\ \A i \in 1..Len(toClient') :
           \/ i \in 1..Len(toClient)
           \/ i - Len(toClient) \in 1..Len(evs) /\ toClient'[i] = evs[i - Len(toClient)]
  BY <1>1, ConcatAt
<1> QED BY <1>2 DEF Grown

\* One such event is added.
LEMMA GrownOne ==
  ASSUME IInv, NEW e \in Event, toClient' = Append(toClient, e),
         e.type \notin {"cancelled", "selection"}
  PROVE  Grown
<1>1. /\ Len(toClient) \in Nat /\ Len(toClient') = Len(toClient) + 1
      /\ \A i \in 1..Len(toClient) : toClient'[i] = toClient[i]
      /\ toClient'[Len(toClient) + 1] = e
  BY AppendProperties, LenProperties DEF IInv, SendInv
<1>2. ASSUME NEW i \in 1..Len(toClient) PROVE i \in 1..Len(toClient') BY <1>1
<1>3. ASSUME NEW i \in 1..Len(toClient') PROVE i \in 1..Len(toClient) \/ i = Len(toClient) + 1
  BY <1>1
<1> QED BY <1>1, <1>2, <1>3 DEF Grown

\* What the helper has heard of, and will hear of, is not changed by such events.
LEMMA GrownHears ==
  ASSUME IInv, OwnInv, Grown,
         UNCHANGED <<log, mainQueue, current_source, lastText, offer_mimes>>
  PROVE  /\ Made' = Made /\ (CancelPending' <=> CancelPending)
         /\ \A i \in 1..Len(toClient') :
              toClient'[i].type = "cancelled" => toClient'[i].source <= Made
         /\ \A i, j \in 1..Len(toClient') :
              i < j /\ CancelsLast(toClient[i])' => ~Ours(toClient[j])'
         /\ current_source = 0 => \A i \in 1..Len(toClient') : ~Ours(toClient[i])'
         /\ (\E i \in 1..Len(toClient) : Heard(i)) => \E i \in 1..Len(toClient') : Heard(i)'
<1>1. Made' = Made BY DEF Made
<1>2. Len(toClient) \in Nat BY Sizes DEF OwnInv
<1>3. CancelPending' <=> CancelPending BY <1>1 DEF Grown, CancelPending, CancelsLast
<1>4. ASSUME NEW i \in 1..Len(toClient'), toClient'[i].type = "cancelled"
      PROVE  toClient'[i].source <= Made
  BY <1>4 DEF Grown, OwnInv, OrderInv
<1>5. ASSUME NEW i \in 1..Len(toClient'), NEW j \in 1..Len(toClient'), i < j,
             CancelsLast(toClient[i])', Ours(toClient[j])'
      PROVE  FALSE
  <2>1. i \in 1..Len(toClient) /\ CancelsLast(toClient[i])
    BY <1>1, <1>5 DEF Grown, CancelsLast
  <2>2. j \in 1..Len(toClient) /\ Ours(toClient[j]) BY <1>5 DEF Grown, Ours
  <2> QED BY <1>5, <2>1, <2>2 DEF OwnInv, LastInv
<1>6. ASSUME current_source = 0, NEW i \in 1..Len(toClient') PROVE ~Ours(toClient[i])'
  BY <1>6 DEF Grown, OwnInv, LastInv, Ours
<1>7. ASSUME NEW i \in 1..Len(toClient), Heard(i) PROVE i \in 1..Len(toClient') /\ Heard(i)'
  <2>1. i \in 1..Len(toClient') /\ toClient'[i] = toClient[i] BY DEF Grown
  <2>2. i # 1 => toClient'[i - 1] = toClient[i - 1]
    <3>1. i # 1 => i - 1 \in 1..Len(toClient) BY <1>2
    <3> QED BY <3>1 DEF Grown
  <2>3. ASSUME current_source # 0
        PROVE  \E j \in 1..Len(toClient') : j < i /\ CancelsLast(toClient[j])'
    <3>1. PICK j \in 1..Len(toClient) : j < i /\ CancelsLast(toClient[j])
      BY <1>7, <2>3 DEF Heard
    <3>2. j \in 1..Len(toClient') /\ toClient'[j] = toClient[j] BY DEF Grown
    <3> QED BY <1>1, <3>1, <3>2 DEF CancelsLast
  <2> QED BY <1>7, <2>1, <2>2, <2>3 DEF Heard
<1> QED BY <1>1, <1>3, <1>4, <1>5, <1>6, <1>7

\* A primary selection or a paste does not touch the clipboard.
LEMMA GrownOwn ==
  ASSUME IInv, OwnInv, Grown,
         UNCHANGED <<log, mainQueue, current_source, live, owner, lastText, toServer,
                     offer_mimes, drain>>
  PROVE  OwnInv'
<1>1. /\ Made' = Made /\ (CancelPending' <=> CancelPending)
      /\ \A i \in 1..Len(toClient') :
           toClient'[i].type = "cancelled" => toClient'[i].source <= Made
      /\ \A i, j \in 1..Len(toClient') :
           i < j /\ CancelsLast(toClient[i])' => ~Ours(toClient[j])'
      /\ current_source = 0 => \A i \in 1..Len(toClient') : ~Ours(toClient[i])'
      /\ (\E i \in 1..Len(toClient) : Heard(i)) => \E i \in 1..Len(toClient') : Heard(i)'
  BY GrownHears
<1>2. OrderInv' BY <1>1 DEF OwnInv, OrderInv
<1>3. RequestInv' /\ (SelectPending' <=> SelectPending)
  BY <1>1 DEF OwnInv, RequestInv, Selects, SelectPending
<1>4. LastInv' BY <1>1, <1>3 DEF OwnInv, LastInv
<1>5. TextInv' BY <1>1, <1>3 DEF OwnInv, TextInv
<1> QED BY <1>2, <1>3, <1>4, <1>5 DEF OwnInv

\* Another application selects.
LEMMA AppSelectOwn == ASSUME IInv, OwnInv, AppSelect PROVE OwnInv'
<1> DEFINE o == [id |-> offers + 1, from |-> "app", text |-> TRUE, n |-> 0]
           a == [type |-> "data_offer", offer |-> o]
           b == [type |-> "primary", offer |-> o]
<1>1. /\ toClient' = toClient \o <<a, b>>
      /\ UNCHANGED <<log, mainQueue, current_source, live, owner, lastText, toServer,
                     offer_mimes, drain>>
  BY DEF AppSelect, stateVars, mainVars
<1>2. o \in Offer BY KeyAssumption DEF Offer, IInv, OtherInv
<1> HIDE DEF o
<1>3. a \in Event /\ b \in Event /\ a.type = "data_offer" /\ b.type = "primary"
  BY <1>2 DEF Event
<1> HIDE DEF a, b
<1>4. /\ <<a, b>> \in Seq(Event)
      /\ \A i \in 1..Len(<<a, b>>) : <<a, b>>[i].type \notin {"cancelled", "selection"}
  BY <1>3
<1>5. Grown BY <1>1, <1>4, GrownBy
<1> QED BY <1>1, <1>5, GrownOwn

\* An application pastes.
LEMMA AppPasteOwn == ASSUME IInv, OwnInv, NEW p \in Pastes, AppPaste(p) PROVE OwnInv'
<1> DEFINE e == [type |-> "send", paste |-> p]
<1>1. /\ toClient' = Append(toClient, e)
      /\ UNCHANGED <<log, mainQueue, current_source, live, owner, lastText, toServer,
                     offer_mimes, drain>>
  BY DEF AppPaste, stateVars, mainVars
<1>2. e \in Event /\ e.type \notin {"cancelled", "selection"} BY DEF Event
<1> HIDE DEF e
<1>3. Grown BY <1>1, <1>2, GrownOne
<1> QED BY <1>1, <1>3, GrownOwn

\* The requests that stay when the first is served.
LEMMA RequestServed ==
  ASSUME IInv, OwnInv, toServer # <<>>, toServer' = Tail(toServer),
         UNCHANGED <<log, mainQueue, current_source>>
  PROVE  /\ Head(toServer) = toServer[1] /\ 1 \in 1..Len(toServer)
         /\ RequestInv'
         /\ \A i \in 1..Len(toServer') : toServer'[i].source <= Made
         /\ SelectPending' <=> \E i \in 1..Len(toServer) : i # 1 /\ Selects(toServer[i])
<1>1. Made' = Made BY DEF Made
<1>2. /\ Head(toServer) = toServer[1] /\ 1 \in 1..Len(toServer)
      /\ \A i \in 1..Len(toServer') : i + 1 \in 1..Len(toServer) /\ toServer'[i] = toServer[i + 1]
      /\ \A i \in 1..Len(toServer) :
           i # 1 => i - 1 \in 1..Len(toServer') /\ toServer'[i - 1] = toServer[i]
  <2>1. toServer \in Seq(ServerRequest) BY DEF IInv, SourceInv
  <2> QED BY <2>1, TailAt
<1>3. ASSUME NEW i \in 1..Len(toServer'), Selects(toServer'[i])
      PROVE  \E j \in 1..Len(toServer') :
               i <= j /\ Selects(toServer'[j]) /\ toServer'[j].source = Made
  <2>1. i + 1 \in 1..Len(toServer) /\ Selects(toServer[i + 1]) BY <1>2, <1>3
  <2>2. PICK j \in 1..Len(toServer) :
               i + 1 <= j /\ Selects(toServer[j]) /\ toServer[j].source = Made
    BY <2>1 DEF OwnInv, RequestInv
  <2>3. j # 1 BY <2>2
  <2>4. j - 1 \in 1..Len(toServer') /\ toServer'[j - 1] = toServer[j] BY <1>2, <2>3
  <2>5. i <= j - 1 BY <2>2
  <2> QED BY <2>2, <2>4, <2>5
<1>4. ASSUME NEW i \in 1..Len(toServer'), NEW j \in 1..Len(toServer'), i < j,
             Selects(toServer'[i]), toServer'[i].source = Made
      PROVE  ~Selects(toServer'[j])
  <2>1. /\ i + 1 \in 1..Len(toServer) /\ j + 1 \in 1..Len(toServer) /\ i + 1 < j + 1
        /\ toServer'[i] = toServer[i + 1] /\ toServer'[j] = toServer[j + 1]
    BY <1>2, <1>4
  <2> QED BY <1>4, <2>1 DEF OwnInv, RequestInv
<1>5. ASSUME NEW i \in 1..Len(toServer'), ~Selects(toServer'[i])
      PROVE  toServer'[i].source # current_source'
  BY <1>2, <1>5 DEF OwnInv, RequestInv
<1>6. RequestInv' BY <1>1, <1>3, <1>4, <1>5 DEF RequestInv, Selects
<1>7. ASSUME NEW i \in 1..Len(toServer') PROVE toServer'[i].source <= Made
  BY <1>2 DEF OwnInv, OrderInv
<1>8. SelectPending' <=> \E i \in 1..Len(toServer) : i # 1 /\ Selects(toServer[i])
  <2>1. ASSUME NEW i \in 1..Len(toServer'), Selects(toServer'[i])
        PROVE  i + 1 # 1 /\ i + 1 \in 1..Len(toServer) /\ Selects(toServer[i + 1])
    BY <1>2, <2>1
  <2>2. ASSUME NEW i \in 1..Len(toServer), i # 1, Selects(toServer[i])
        PROVE  i - 1 \in 1..Len(toServer') /\ Selects(toServer'[i - 1])
    BY <1>2, <2>2
  <2> QED BY <2>1, <2>2 DEF SelectPending, Selects
<1> QED BY <1>2, <1>6, <1>7, <1>8

\* A source that is destroyed is not the current one; if it had the selection,
\* a successor is about to have it.
LEMMA ServerDestroyOwn == ASSUME IInv, OwnInv, ServerDestroy PROVE OwnInv'
<1> DEFINE s == Head(toServer).source
           e == [type |-> "cleared"]
<1>1. /\ toServer # <<>> /\ toServer' = Tail(toServer) /\ Head(toServer).req = "destroy"
      /\ \/ owner = s /\ owner' = 0 /\ toClient' = Append(toClient, e)
         \/ owner # s /\ UNCHANGED <<owner, toClient>>
      /\ UNCHANGED <<log, mainQueue, current_source, live, lastText, offer_mimes, drain>>
  BY DEF ServerDestroy, stateVars, mainVars
<1>2. Grown
  <2>1. CASE UNCHANGED toClient BY <2>1 DEF Grown
  <2>2. CASE toClient' = Append(toClient, e)
    <3>1. e \in Event /\ e.type \notin {"cancelled", "selection"} BY DEF Event
    <3> HIDE DEF e
    <3> QED BY <2>2, <3>1, GrownOne
  <2> QED BY <1>1, <2>1, <2>2
<1>3. /\ Made' = Made /\ (CancelPending' <=> CancelPending)
      /\ \A i \in 1..Len(toClient') :
           toClient'[i].type = "cancelled" => toClient'[i].source <= Made
      /\ \A i, j \in 1..Len(toClient') :
           i < j /\ CancelsLast(toClient[i])' => ~Ours(toClient[j])'
      /\ current_source = 0 => \A i \in 1..Len(toClient') : ~Ours(toClient[i])'
      /\ (\E i \in 1..Len(toClient) : Heard(i)) => \E i \in 1..Len(toClient') : Heard(i)'
  BY <1>1, <1>2, GrownHears
<1>4. /\ Head(toServer) = toServer[1] /\ 1 \in 1..Len(toServer) /\ RequestInv'
      /\ \A i \in 1..Len(toServer') : toServer'[i].source <= Made
      /\ SelectPending' <=> \E i \in 1..Len(toServer) : i # 1 /\ Selects(toServer[i])
  BY <1>1, RequestServed
<1>5. /\ Made \in Nat /\ owner \in Nat /\ current_source \in Nat /\ s \in Nat \ {0}
  BY <1>4, Sizes DEF OwnInv
<1>6. ~Selects(toServer[1]) BY <1>1, <1>4 DEF Selects
<1>7. SelectPending' <=> SelectPending BY <1>4, <1>6 DEF SelectPending
<1>8. s # current_source BY <1>4, <1>6 DEF OwnInv, RequestInv
<1>9. owner' \in {0, owner} /\ (owner = s => owner' = 0) /\ (owner # s => owner' = owner)
  BY <1>1
<1> HIDE DEF s, e
<1>10. OrderInv' BY <1>1, <1>3, <1>4, <1>5, <1>9 DEF OwnInv, OrderInv
<1>11. LastInv'
  <2>1. SelectPending' => current_source' # 0 /\ owner' # Made' /\ ~CancelPending'
    <3>1. SelectPending => current_source # 0 /\ owner # Made /\ ~CancelPending
      BY DEF OwnInv, LastInv
    <3>2. current_source # 0 => Made # 0 BY DEF OwnInv, OrderInv
    <3> QED BY <1>1, <1>3, <1>7, <1>9, <3>1, <3>2
  <2>2. CancelPending' => owner' = 0 BY <1>3, <1>9 DEF OwnInv, LastInv
  <2>3. current_source = 0 => owner' = 0 BY <1>9 DEF OwnInv, LastInv
  <2>4. current_source # 0 => SelectPending' \/ owner' = Made' \/ CancelPending'
    <3>1. current_source # 0 => current_source = Made BY DEF OwnInv, OrderInv
    <3> QED BY <1>3, <1>7, <1>8, <1>9, <3>1 DEF OwnInv, LastInv
  <2> QED BY <1>1, <1>3, <2>1, <2>2, <2>3, <2>4 DEF LastInv
<1>12. TextInv' BY <1>1, <1>3, <1>7, <1>9 DEF OwnInv, TextInv
<1> QED BY <1>4, <1>10, <1>11, <1>12 DEF OwnInv

\* Where the events of a new selection are: after the others, the cancelled
\* event of our source if it had the selection, the offer, and the selection.
LEMMA SelectionAt ==
  ASSUME IInv, NEW o \in Offer, toClient' = toClient \o Cancelled \o Offered(o)
  PROVE  LET L == Len(toClient)
             N == Len(toClient') IN
         /\ L \in Nat /\ N \in Nat /\ N >= L + 2 /\ (owner > 0 => N = L + 3)
         /\ owner = 0 => N = L + 2
         /\ \A i \in 1..L : toClient'[i] = toClient[i]
         /\ owner > 0 => /\ toClient'[L + 1].type = "cancelled"
                         /\ toClient'[L + 1].source = owner
         /\ toClient'[N - 1].type = "data_offer" /\ toClient'[N - 1].offer = o
         /\ toClient'[N].type = "selection" /\ toClient'[N].offer = o
<1> DEFINE C == Cancelled
           F == Offered(o)
           t == toClient \o C
           a == [type |-> "data_offer", offer |-> o]
           b == [type |-> "selection", offer |-> o]
           c == [type |-> "cancelled", source |-> owner]
<1>1. toClient \in Seq(Event) /\ owner \in 0..MaxAnnounce BY DEF IInv, SendInv, SourceInv
<1>2. a \in Event /\ b \in Event BY DEF Event
<1>3. /\ a.type = "data_offer" /\ a.offer = o /\ b.type = "selection" /\ b.offer = o
      /\ c.type = "cancelled" /\ c.source = owner
  OBVIOUS
<1>4. owner > 0 => c \in Event BY <1>1, KeyAssumption DEF Event
<1>5. F = <<a, b>> BY DEF Offered
<1>6. (owner > 0 => C = <<c>>) /\ (~(owner > 0) => C = <<>>) BY DEF Cancelled
<1>7. toClient' = t \o F OBVIOUS
<1> HIDE DEF a, b, c, C, F
<1>8. F \in Seq(Event) /\ Len(F) = 2 /\ F[1] = a /\ F[2] = b BY <1>2, <1>5
<1>9. /\ C \in Seq(Event)
      /\ owner > 0 => Len(C) = 1 /\ C[1] = c
      /\ ~(owner > 0) => Len(C) = 0
  <2>1. CASE owner > 0
    <3>1. C = <<c>> /\ c \in Event BY <1>4, <1>6, <2>1
    <3> QED BY <2>1, <3>1
  <2>2. CASE ~(owner > 0)
    <3>1. C = <<>> BY <1>6, <2>2
    <3> QED BY <2>2, <3>1, EmptySeq
  <2> QED BY <2>1, <2>2
<1>10. /\ t \in Seq(Event) /\ Len(t) = Len(toClient) + Len(C) /\ Len(toClient) \in Nat
       /\ Len(C) \in Nat
       /\ \A i \in 1..Len(toClient) : i \in 1..Len(t) /\ t[i] = toClient[i]
       /\ \A i \in 1..Len(C) : Len(toClient) + i \in 1..Len(t) /\ t[Len(toClient) + i] = C[i]
  BY <1>1, <1>9, ConcatAt
<1> HIDE DEF t
<1>11. /\ Len(toClient') = Len(t) + 2 /\ Len(t) \in Nat
       /\ \A i \in 1..Len(t) : toClient'[i] = t[i]
       /\ \A i \in 1..2 : toClient'[Len(t) + i] = F[i]
  <2>1. /\ Len(t) \in Nat /\ Len(t \o F) = Len(t) + Len(F)
        /\ \A i \in 1..Len(t) : (t \o F)[i] = t[i]
        /\ \A i \in 1..Len(F) : (t \o F)[Len(t) + i] = F[i]
    <3>1. t \in Seq(Event) /\ F \in Seq(Event) BY <1>8, <1>10
    <3> QED BY <3>1, ConcatAt
  <2> QED BY <1>7, <1>8, <2>1
<1>12. /\ Len(toClient') - 1 = Len(t) + 1 /\ 1 \in 1..2 /\ 2 \in 1..2 BY <1>11
<1>13. ASSUME owner > 0
       PROVE  toClient'[Len(toClient) + 1] = c /\ Len(toClient') = Len(toClient) + 3
  <2>1. Len(C) = 1 /\ C[1] = c BY <1>9, <1>13
  <2>2. Len(toClient) + 1 \in 1..Len(t) /\ t[Len(toClient) + 1] = c
    <3>1. 1 \in 1..Len(C) BY <2>1
    <3> QED BY <1>10, <2>1, <3>1
  <2> QED BY <1>10, <1>11, <2>1, <2>2
<1>14. owner = 0 => Len(toClient') = Len(toClient) + 2 BY <1>9, <1>10, <1>11
<1>15. /\ Len(toClient') \in Nat /\ Len(toClient') >= Len(toClient) + 2 BY <1>10, <1>11
<1>16. toClient'[Len(toClient') - 1] = a /\ toClient'[Len(toClient')] = b
  BY <1>8, <1>11, <1>12
<1> QED BY <1>3, <1>10, <1>11, <1>13, <1>14, <1>15, <1>16

\* Which event of the queue it is.
LEMMA SelectionEvents ==
  ASSUME IInv, NEW o \in Offer, toClient' = toClient \o Cancelled \o Offered(o),
         NEW i \in 1..Len(toClient')
  PROVE  \/ i \in 1..Len(toClient) /\ toClient'[i] = toClient[i]
         \/ owner > 0 /\ toClient'[i].type = "cancelled" /\ toClient'[i].source = owner
         \/ toClient'[i].type = "data_offer"
         \/ toClient'[i].type = "selection" /\ toClient'[i].offer = o
<1> DEFINE L == Len(toClient)
           N == Len(toClient')
<1>1. /\ L \in Nat /\ N \in Nat /\ (owner > 0 => N = L + 3) /\ (owner = 0 => N = L + 2)
      /\ \A k \in 1..L : toClient'[k] = toClient[k]
      /\ owner > 0 => toClient'[L + 1].type = "cancelled" /\ toClient'[L + 1].source = owner
      /\ toClient'[N - 1].type = "data_offer" /\ toClient'[N].type = "selection"
      /\ toClient'[N].offer = o
  BY SelectionAt
<1>2. owner \in Nat BY DEF IInv, SourceInv
<1> HIDE DEF L, N
<1>3. i \in 1..N BY DEF N
<1>4. i \in 1..L \/ (owner > 0 /\ i = L + 1) \/ i = N - 1 \/ i = N BY <1>1, <1>2, <1>3
<1> QED BY <1>1, <1>4 DEF L

\* The compositor selects a source of ours: the last one, or one whose
\* successors are on their way.
LEMMA ServerSetSelectionOwn == ASSUME IInv, OwnInv, ServerSetSelection PROVE OwnInv'
<1> DEFINE s == Head(toServer).source
           o == [id |-> offers + 1, from |-> "us", text |-> Kind[log[s]] = "text", n |-> 0]
<1>1. /\ toServer # <<>> /\ toServer' = Tail(toServer) /\ Head(toServer).req = "set_selection"
      /\ owner' = s /\ lastText' = 0
      /\ toClient' = toClient \o Cancelled \o Offered(o)
      /\ UNCHANGED <<log, mainQueue, current_source, live, offer_mimes, drain>>
  BY DEF ServerSetSelection, stateVars, mainVars
<1>2. o \in Offer
  <2>1. (Kind[log[s]] = "text") \in BOOLEAN OBVIOUS
  <2>2. offers + 1 \in Nat \ {0} BY DEF IInv, OtherInv
  <2> QED BY <2>1, <2>2 DEF Offer
<1> HIDE DEF o
<1>3. /\ Head(toServer) = toServer[1] /\ 1 \in 1..Len(toServer) /\ RequestInv'
      /\ \A i \in 1..Len(toServer') : toServer'[i].source <= Made
      /\ SelectPending' <=> \E i \in 1..Len(toServer) : i # 1 /\ Selects(toServer[i])
  BY <1>1, RequestServed
<1>4. Made' = Made BY <1>1 DEF Made
<1>5. Selects(toServer[1]) /\ SelectPending BY <1>1, <1>3 DEF Selects, SelectPending
<1>6. current_source # 0 /\ owner # Made /\ ~CancelPending BY <1>5 DEF OwnInv, LastInv
<1>7. s <= Made BY <1>3 DEF OwnInv, OrderInv
<1>8. ASSUME NEW i \in 1..Len(toClient')
      PROVE  /\ toClient'[i].type = "cancelled" => toClient'[i].source <= Made
             /\ ~CancelsLast(toClient[i])'
  <2>1. CASE i \in 1..Len(toClient) /\ toClient'[i] = toClient[i]
    BY <1>4, <1>6, <2>1 DEF OwnInv, OrderInv, CancelPending, CancelsLast
  <2>2. CASE owner > 0 /\ toClient'[i].type = "cancelled" /\ toClient'[i].source = owner
    BY <1>4, <1>6, <2>2 DEF OwnInv, OrderInv, CancelsLast
  <2>3. CASE toClient'[i].type \in {"data_offer", "selection"} BY <2>3 DEF CancelsLast
  <2> QED BY <1>1, <1>2, <2>1, <2>2, <2>3, SelectionEvents
<1>9. OrderInv' BY <1>1, <1>3, <1>4, <1>7, <1>8 DEF OwnInv, OrderInv
<1>10. ~CancelPending' BY <1>8 DEF CancelPending
<1>11. SelectPending' => owner' # Made'
  <2>1. ASSUME SelectPending', s = Made PROVE FALSE
    <3>1. PICK i \in 1..Len(toServer) : i # 1 /\ Selects(toServer[i]) BY <1>3, <2>1
    <3>2. 1 < i BY <3>1
    <3> QED BY <1>3, <1>5, <2>1, <3>1, <3>2 DEF OwnInv, RequestInv
  <2> QED BY <1>1, <1>4, <2>1
<1>12. SelectPending' \/ owner' = Made'
  <2>1. PICK j \in 1..Len(toServer) : Selects(toServer[j]) /\ toServer[j].source = Made
    BY <1>3, <1>5 DEF OwnInv, RequestInv
  <2> QED BY <1>1, <1>3, <1>4, <2>1
<1>13. LastInv' BY <1>1, <1>6, <1>8, <1>10, <1>11, <1>12 DEF LastInv
<1>14. TextInv' BY <1>1, KeyAssumption DEF TextInv
<1> QED BY <1>3, <1>9, <1>13, <1>14 DEF OwnInv

\* Another application copies: a source of ours that was selected is cancelled
\* before the helper hears of the copy.
LEMMA AppCopyOwn == ASSUME IInv, OwnInv, NEW text \in BOOLEAN, AppCopy(text) PROVE OwnInv'
<1> DEFINE o == [id |-> offers + 1, from |-> "app", text |-> text, n |-> copies + 1]
           L == Len(toClient)
           N == Len(toClient')
<1>1. /\ owner' = 0 /\ lastText' = (IF text THEN copies + 1 ELSE 0) /\ copies < MaxCopy
      /\ toClient' = toClient \o Cancelled \o Offered(o)
      /\ UNCHANGED <<log, mainQueue, current_source, live, toServer, offer_mimes, drain>>
  BY DEF AppCopy, stateVars, mainVars
<1>2. copies \in Nat /\ offers \in Nat BY KeyAssumption DEF IInv, OtherInv
<1>3. copies + 1 \in 1..MaxCopy BY <1>1, <1>2, KeyAssumption
<1>4. o \in Offer BY <1>2, <1>3 DEF Offer, Copies
<1>5. o.from = "app" /\ o.text = text /\ o.n = copies + 1 OBVIOUS
<1> HIDE DEF o
<1>6. /\ L \in Nat /\ N \in Nat /\ N >= L + 2
      /\ \A i \in 1..L : toClient'[i] = toClient[i]
      /\ owner > 0 => toClient'[L + 1].type = "cancelled" /\ toClient'[L + 1].source = owner
      /\ toClient'[N - 1].type = "data_offer" /\ toClient'[N - 1].offer = o
      /\ toClient'[N].type = "selection" /\ toClient'[N].offer = o
  BY <1>1, <1>4, SelectionAt
<1>7. Made' = Made BY <1>1 DEF Made
<1>8. Made \in Nat /\ owner \in Nat /\ owner <= Made /\ current_source \in {0, Made}
  BY Sizes DEF OwnInv, OrderInv
<1>9. ASSUME NEW i \in 1..N
      PROVE  /\ toClient'[i].type = "cancelled" => toClient'[i].source <= Made
             /\ Ours(toClient[i])' => i \in 1..L /\ Ours(toClient[i])
             /\ CancelsLast(toClient[i])' =>
                  owner = Made \/ (i \in 1..L /\ CancelsLast(toClient[i]))
  <2>1. CASE i \in 1..L /\ toClient'[i] = toClient[i]
    BY <1>7, <2>1 DEF OwnInv, OrderInv, CancelsLast, Ours
  <2>2. CASE owner > 0 /\ toClient'[i].type = "cancelled" /\ toClient'[i].source = owner
    BY <1>7, <1>8, <2>2 DEF CancelsLast, Ours
  <2>3. CASE toClient'[i].type = "data_offer" BY <2>3 DEF CancelsLast, Ours
  <2>4. CASE toClient'[i].type = "selection" /\ toClient'[i].offer = o
    BY <1>5, <2>4 DEF CancelsLast, Ours
  <2> QED BY <1>1, <1>4, <2>1, <2>2, <2>3, <2>4, SelectionEvents
<1>10. OrderInv' BY <1>1, <1>7, <1>8, <1>9 DEF OwnInv, OrderInv
<1>11. RequestInv' /\ (SelectPending' <=> SelectPending)
  BY <1>1, <1>7 DEF OwnInv, RequestInv, SelectPending, Selects
<1>12. ASSUME current_source # 0
       PROVE  SelectPending \/ \E j \in 1..N : j < N /\ CancelsLast(toClient[j])'
  <2>1. CASE owner = Made
    <3>1. owner > 0 BY <1>8, <1>12, <2>1
    <3>2. L + 1 \in 1..N /\ L + 1 < N BY <1>6
    <3>3. ASSUME NEW j \in 1..N, j = L + 1 PROVE CancelsLast(toClient[j])'
      BY <1>6, <1>7, <2>1, <3>1, <3>3 DEF CancelsLast
    <3> QED BY <3>2, <3>3
  <2>2. CASE CancelPending
    <3>1. PICK j \in 1..L : CancelsLast(toClient[j]) BY <2>2 DEF CancelPending
    <3>2. j \in 1..N /\ j < N /\ toClient'[j] = toClient[j] BY <1>6
    <3>3. CancelsLast(toClient[j])' BY <1>7, <3>1, <3>2 DEF CancelsLast
    <3> QED BY <3>2, <3>3
  <2> QED BY <1>12, <2>1, <2>2 DEF OwnInv, LastInv
<1>13. LastInv'
  <2>1. ASSUME SelectPending PROVE current_source # 0 /\ 0 # Made /\ ~CancelPending'
    <3>1. current_source # 0 /\ owner # Made /\ ~CancelPending BY <2>1 DEF OwnInv, LastInv
    <3> QED BY <1>8, <1>9, <3>1 DEF CancelPending
  <2>2. ASSUME NEW i \in 1..N, NEW j \in 1..N, i < j, CancelsLast(toClient[i])',
               Ours(toClient[j])'
        PROVE  FALSE
    <3>1. j \in 1..L /\ Ours(toClient[j]) BY <1>9, <2>2
    <3>2. i \in 1..L BY <1>6, <2>2, <3>1
    <3>3. CancelsLast(toClient[i]) BY <1>6, <1>7, <2>2, <3>2 DEF CancelsLast
    <3> QED BY <2>2, <3>1, <3>2, <3>3 DEF OwnInv, LastInv
  <2>3. ASSUME current_source = 0, NEW i \in 1..N PROVE ~Ours(toClient[i])'
    BY <1>9, <2>3 DEF OwnInv, LastInv
  <2>4. current_source # 0 => SelectPending' \/ CancelPending'
    BY <1>11, <1>12 DEF CancelPending
  <2> QED BY <1>1, <1>7, <1>11, <2>1, <2>2, <2>3, <2>4 DEF LastInv
<1>14. TextInv'
  <2>1. CASE ~text BY <1>1, <2>1, KeyAssumption DEF TextInv
  <2>2. CASE text
    <3>1. lastText' = copies + 1 /\ lastText' \in 0..MaxCopy BY <1>1, <1>2, <1>3, <2>2
    <3>2. N \in 1..N /\ N # 1 BY <1>6
    <3>3. ASSUME ~SelectPending, NEW n \in 1..N, n = N PROVE Heard(n)'
      <4>1. /\ toClient'[n].type = "selection" /\ toClient'[n].offer.from = "app"
            /\ toClient'[n].offer.text /\ toClient'[n].offer.n = lastText'
        BY <1>5, <1>6, <2>2, <3>1, <3>3
      <4>2. /\ toClient'[n - 1].type = "data_offer"
            /\ toClient'[n - 1].offer = toClient'[n].offer
        BY <1>6, <3>3
      <4>3. current_source' # 0 => \E j \in 1..N : j < n /\ CancelsLast(toClient[j])'
        BY <1>1, <1>12, <3>3
      <4> QED BY <3>2, <3>3, <4>1, <4>2, <4>3 DEF Heard
    <3>4. SelectPending' \/ \E n \in 1..N : Heard(n)' BY <1>11, <3>2, <3>3
    <3> QED BY <1>1, <3>1, <3>4 DEF TextInv
  <2> QED BY <2>1, <2>2
<1> QED BY <1>10, <1>11, <1>13, <1>14 DEF OwnInv

(* The results about ownership. *)

\* At the start there is no source and nothing on its way.
LEMMA EchoInit == Init => EchoInv
<1> SUFFICES ASSUME Init PROVE EchoInv OBVIOUS
<1>1. /\ Len(log) = 0 /\ Len(mainQueue) = 0 /\ Len(toServer) = 0 /\ Len(toClient) = 0
  BY EmptySeq DEF Init
<1>2. Made = 0 BY <1>1 DEF Made
<1>3. /\ current_source = 0 /\ owner = 0 /\ lastText = 0 /\ live = {} BY DEF Init
<1>4. OrderInv BY <1>1, <1>2, <1>3 DEF OrderInv
<1>5. RequestInv BY <1>1 DEF RequestInv
<1>6. ~SelectPending /\ ~CancelPending BY <1>1 DEF SelectPending, CancelPending
<1>7. LastInv BY <1>1, <1>3, <1>6 DEF LastInv
<1>8. TextInv BY <1>3, KeyAssumption DEF TextInv
<1>9. ~echoed BY Zenon DEF Init
<1> QED BY <1>4, <1>5, <1>7, <1>8, <1>9 DEF EchoInv, OwnInv

\* The invariant is inductive, given that of the pastes.
LEMMA EchoStep == IInv /\ EchoInv /\ [Next]_vars => EchoInv'
<1> SUFFICES ASSUME IInv, EchoInv, [Next]_vars PROVE EchoInv' OBVIOUS
<1>1. ASSUME UNCHANGED <<log, mainQueue, current_source, live, owner, lastText, toServer,
                         toClient, offer_mimes, echoed, phase>>,
             \A n \in 1..MaxCopy : drain[n] # "none" => drain'[n] # "none"
      PROVE  EchoInv'
  BY <1>1, OwnKept DEF EchoInv
<1>2. ASSUME phase = "running" => OwnInv', echoed' = echoed, phase' = phase PROVE EchoInv'
  BY <1>2 DEF EchoInv
<1>3. ASSUME phase' # "running", echoed' = echoed PROVE EchoInv'
  BY <1>3 DEF EchoInv
<1>4. phase = "running" => OwnInv BY DEF EchoInv
<1>5. ASSUME NEW k \in Key, Announce(k) \/ ProvideData(k) PROVE EchoInv'
  <2>1. CASE Announce(k) BY <1>2, <1>4, <2>1, AnnounceOwn DEF Announce
  <2>2. CASE ProvideData(k) BY <1>1, <2>2 DEF ProvideData, mainVars, serverVars
  <2> QED BY <1>5, <2>1, <2>2
<1>6. CASE MainNext
  <2>1. CASE RecreateSource BY <1>2, <1>4, <2>1, RecreateOwn DEF RecreateSource
  <2>2. CASE OnSourceSendEager \/ OnSourceSend \/ SendDiscarded \/ OnPrimarySelection
    <3>1. echoed' = echoed /\ phase' = phase
      BY <2>2 DEF OnSourceSendEager, OnSourceSend, SendDiscarded, OnPrimarySelection, mainVars
    <3> QED BY <1>2, <1>4, <2>2, <3>1, OtherEventOwn
  <2>3. CASE SpawnWorker BY <1>1, <2>3 DEF SpawnWorker, stateVars, mainVars, serverVars
  <2>4. CASE OnSourceCancelled BY <1>2, <1>4, <2>4, CancelledOwn DEF OnSourceCancelled
  <2>5. CASE OnDeviceDataOffer BY <1>2, <1>4, <2>5, DataOfferOwn DEF OnDeviceDataOffer
  <2>6. CASE OnDeviceSelection
    <3>1. phase = "running" BY <2>6 DEF OnDeviceSelection, Dispatch, MainIdle
    <3>2. ~echoed BY DEF EchoInv
    <3> QED BY <1>4, <2>6, <3>1, <3>2, SelectionOwn DEF EchoInv
  <2>7. CASE OnSelectionCleared BY <1>2, <1>4, <2>7, ClearedOwn DEF OnSelectionCleared
  <2> QED BY <1>6, <2>1, <2>2, <2>3, <2>4, <2>5, <2>6, <2>7 DEF MainNext
<1>7. CASE Quit \/ Detach \/ Destroy BY <1>3, <1>7 DEF Quit, Detach, Destroy, mainVars
<1>8. ASSUME NEW p \in Pastes, WorkerCheck(p) \/ WorkerTimeout(p) \/ AppPaste(p) PROVE EchoInv'
  <2>1. CASE WorkerCheck(p) \/ WorkerTimeout(p)
    BY <1>1, <2>1 DEF WorkerCheck, WorkerTimeout, stateVars, mainVars, serverVars
  <2>2. CASE AppPaste(p)
    <3>1. echoed' = echoed /\ phase' = phase BY <2>2 DEF AppPaste, mainVars
    <3> QED BY <1>2, <1>4, <2>2, <3>1, AppPasteOwn
  <2> QED BY <1>8, <2>1, <2>2
<1>9. ASSUME NEW n \in Copies, DrainStore(n) \/ DrainCall(n) PROVE EchoInv'
  <2>1. /\ \E d \in {"calling", "done"} : drain' = [drain EXCEPT ![n] = d]
        /\ UNCHANGED <<stateVars, mainVars, serverVars, phase>>
    BY <1>9 DEF DrainStore, DrainCall
  <2>2. \A m \in 1..MaxCopy : drain[m] # "none" => drain'[m] # "none"
    BY <2>1 DEF IInv, OtherInv, Copies
  <2> QED BY <1>1, <2>1, <2>2 DEF stateVars, mainVars, serverVars
<1>10. CASE ServerNext
  <2>1. echoed' = echoed /\ phase' = phase
    BY <1>10 DEF ServerNext, ServerSetSelection, ServerDestroy, mainVars
  <2> QED BY <1>2, <1>4, <1>10, <2>1, ServerSetSelectionOwn, ServerDestroyOwn DEF ServerNext
<1>11. CASE AppCopy(TRUE) \/ AppCopy(FALSE)
  <2>1. echoed' = echoed /\ phase' = phase BY <1>11 DEF AppCopy, mainVars
  <2> QED BY <1>2, <1>4, <1>11, <2>1, AppCopyOwn
<1>12. CASE AppSelect
  <2>1. echoed' = echoed /\ phase' = phase BY <1>12 DEF AppSelect, mainVars
  <2> QED BY <1>2, <1>4, <1>12, <2>1, AppSelectOwn
<1>13. CASE UNCHANGED vars BY <1>1, <1>13 DEF vars, stateVars, mainVars, serverVars
<1> QED
  BY <1>5, <1>6, <1>7, <1>8, <1>9, <1>10, <1>11, <1>12, <1>13 DEF Next

\* It holds throughout.
LEMMA EchoHolds == Spec => []EchoInv
BY EchoInit, EchoStep, InvHolds, PTL DEF Spec

\* For any keys and bounds, OnDeviceSelection never takes a selection of our own
\* for a copy of the user's: when it finds current_source_ null, no selection of
\* ours is on its way or will be before the next RecreateSource.
THEOREM OwnSelectionSuppressed == Spec => []EchoSuppressed
<1>1. EchoInv => EchoSuppressed BY DEF EchoInv, EchoSuppressed
<1> QED BY <1>1, EchoHolds, PTL

\* For any keys and bounds, once the queues are empty the helper has a source
\* exactly while the compositor has that source selected, and the text another
\* application has on the clipboard was asked for, and is drained unless there
\* was no pipe for it: OnSourceCancelled
\* clears current_source_ before the selection that replaced it is handled.
THEOREM OwnershipIsAgreed == Spec => []OwnershipAgrees
<1>1. EchoInv => OwnershipAgrees
  <2> SUFFICES ASSUME EchoInv, Quiet PROVE /\ owner = current_source
                                           /\ owner = 0 /\ lastText # 0 => drain[lastText] # "none"
    BY DEF OwnershipAgrees
  <2>1. /\ Len(toServer) = 0 /\ Len(toClient) = 0 /\ OwnInv
    BY EmptySeq DEF EchoInv, Quiet
  <2>2. ~SelectPending /\ ~CancelPending BY <2>1 DEF SelectPending, CancelPending
  <2>3. owner = current_source BY <2>1, <2>2 DEF OwnInv, LastInv, OrderInv
  <2>4. lastText # 0 => drain[lastText] # "none" BY <2>1, <2>2 DEF OwnInv, TextInv
  <2> QED BY <2>3, <2>4
<1> QED BY <1>1, EchoHolds, PTL
=============================================================================
