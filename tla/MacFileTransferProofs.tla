----------------------- MODULE MacFileTransferProofs -----------------------
(***************************************************************************)
(* Proofs about MacFileTransfer, for any files, sizes, pipeline depth and  *)
(* number of pastes and announcements, as long as no file is pasted again  *)
(* before the answers to its last download are in (~Repaste) and the       *)
(* parent answers each request once, with nothing or with a whole chunk    *)
(* (Unreliable = {}): type correctness, SuccessComplete and NoLeftovers.   *)
(* MacRepaste shows what happens to SuccessComplete without ~Repaste.      *)
(*                                                                         *)
(* The code counts answers and does not know which chunks they were.  That *)
(* counting is enough is FlightInv: what a task has asked for is on disk   *)
(* or due, and inFlight is the number of offsets that are due.             *)
(* Nor does it know what still holds a transfer when it cancels one: that  *)
(* whatever is left behind is due to be removed is BookInv and HeldInv.    *)
(***************************************************************************)
EXTENDS MacFileTransfer, FiniteSetTheorems, SequenceTheorems, TLAPS

QueueItem ==
  [op : {"register", "cancel"}, transfer : Transfer]
    \cup [op : {"start"}, task : Nat] \cup [op : {"remove"}, key : Key]
    \cup [op : {"chunk"}, key : Key, offset : Nat, data : {"none", "whole"}, task : Nat]

MainItem ==
  [op : {"announce"}, transfer : Transfer \cup {NoTransfer}]
    \cup [op : {"completion"}, task : Nat]

TaskRec ==
  [key : Key, pc : {"queued", "running", "finished"}, nextRequestOffset : Nat,
   inFlight : Nat, disk : SUBSET Nat, ok : BOOLEAN, calls : Nat]

\* The types TypeOK leaves open.
ShapeInv ==
  queue \in Seq(QueueItem) /\ mainQueue \in Seq(MainItem) /\ task \in Seq(TaskRec)

\* The i-th block of a queue is an answer to task t's request for offset o.
IsAnswer(q, i, t, o) == q[i].op = "chunk" /\ q[i].task = t /\ q[i].offset = o

\* The offsets task t has asked for and not been given yet: the parent has not
\* answered, or the answer is queued.
DueOf(q, reqs, t) ==
  {o \in Nat : \/ [task |-> t, offset |-> o] \in reqs
               \/ \E i \in 1..Len(q) : IsAnswer(q, i, t, o)}

Due(t) == DueOf(queue, requests, t)

\* A task is started once, and has asked for nothing before.
StartInv ==
  /\ \A i \in 1..Len(queue) :
       queue[i].op = "start" => /\ queue[i].task \in 1..Len(task)
                                /\ task[queue[i].task].pc = "queued"
  /\ \A i, j \in 1..Len(queue) :
       queue[i].op = "start" /\ queue[j].op = "start" /\ queue[i].task = queue[j].task => i = j
  /\ \A t \in 1..Len(task) :
       task[t].pc = "queued" =>
         task[t].nextRequestOffset = 0 /\ task[t].inFlight = 0 /\ task[t].disk = {}

\* A queued answer is for a request of its task, and a request has one answer.
AnswerInv ==
  /\ \A i \in 1..Len(queue) :
       queue[i].op = "chunk" =>
         /\ queue[i].task \in 1..Len(task) /\ queue[i].key = task[queue[i].task].key
         /\ queue[i].offset < task[queue[i].task].nextRequestOffset
         /\ [task |-> queue[i].task, offset |-> queue[i].offset] \notin requests
  /\ \A i, j \in 1..Len(queue) :
       queue[i].op = "chunk" /\ IsAnswer(queue, j, queue[i].task, queue[i].offset) => i = j
  /\ \A r \in requests : r.offset < task[r.task].nextRequestOffset

\* A completion is posted for a finished task, and only a completion calls
\* Finder's handler.
DoneInv ==
  /\ \A i \in 1..Len(mainQueue) :
       mainQueue[i].op = "completion" => /\ mainQueue[i].task \in 1..Len(task)
                                         /\ task[mainQueue[i].task].pc = "finished"
  /\ \A t \in 1..Len(task) : task[t].calls > 0 \/ task[t].ok => task[t].pc = "finished"

\* A file is pasted again only when nothing of its last download is left.
KeyInv ==
  /\ \A t, u \in 1..Len(task) :
       task[t].key = task[u].key /\ t < u => task[t].calls > 0 /\ Due(t) = {}
  /\ \A k \in Key : downloads[k] # 0 => /\ task[downloads[k]].key = k
                                        /\ task[downloads[k]].pc # "queued"

\* What a running task has asked for is on disk or due, and inFlight
\* counts what is due.
Balanced(r, due) ==
  /\ r.disk \cup due = 0..(r.nextRequestOffset - 1)
  /\ IsFiniteSet(due) /\ Cardinality(due) = r.inFlight

FlightInv ==
  \A k \in Key :
    downloads[k] # 0 /\ task[downloads[k]].pc = "running"
      => Balanced(task[downloads[k]], Due(downloads[k]))

IInv ==
  /\ TypeOK /\ ShapeInv /\ StartInv /\ AnswerInv /\ DoneInv /\ KeyInv /\ FlightInv
  /\ SuccessComplete
-----------------------------------------------------------------------------
(* The queues. *)

\* What appending does to a sequence.
LEMMA Appended ==
  ASSUME NEW S, NEW s \in Seq(S), NEW e \in S
  PROVE  /\ Append(s, e) \in Seq(S) /\ Len(s) \in Nat /\ Len(Append(s, e)) = Len(s) + 1
         /\ Append(s, e)[Len(s) + 1] = e
         /\ \A i \in 1..Len(s) : i \in 1..Len(Append(s, e)) /\ Append(s, e)[i] = s[i]
         /\ \A i \in 1..Len(Append(s, e)) :
              \/ i \in 1..Len(s) /\ Append(s, e)[i] = s[i]
              \/ i = Len(s) + 1 /\ Append(s, e)[i] = e
<1>1. /\ Append(s, e) \in Seq(S) /\ Len(Append(s, e)) = Len(s) + 1
      /\ \A i \in 1..Len(s) : Append(s, e)[i] = s[i]
      /\ Append(s, e)[Len(s) + 1] = e
  BY AppendProperties
<1>2. Len(s) \in Nat BY LenProperties
<1> QED BY <1>1, <1>2

\* What a sequence is behind which another is put.
LEMMA Joined ==
  ASSUME NEW S, NEW s \in Seq(S), NEW r \in Seq(S)
  PROVE  /\ s \o r \in Seq(S) /\ Len(s \o r) = Len(s) + Len(r)
         /\ \A i \in 1..Len(s \o r) : (s \o r)[i] = IF i <= Len(s) THEN s[i] ELSE r[i - Len(s)]
BY ConcatProperties

\* What is taken off a queue, and what is left.
LEMMA Taken ==
  ASSUME NEW S, NEW s \in Seq(S), s # <<>>
  PROVE  /\ Head(s) \in S /\ Head(s) = s[1] /\ 1 \in 1..Len(s) /\ Tail(s) \in Seq(S)
         /\ \A i \in 1..Len(Tail(s)) : i + 1 \in 1..Len(s) /\ Tail(s)[i] = s[i + 1]
         /\ \A i \in 1..Len(s) : i = 1 \/ (i - 1 \in 1..Len(Tail(s)) /\ Tail(s)[i - 1] = s[i])
<1>1. Len(s) \in Nat /\ Len(s) # 0 BY EmptySeq, LenProperties
<1>2. /\ Head(s) \in S /\ Tail(s) \in Seq(S) /\ Len(Tail(s)) = Len(s) - 1
      /\ \A i \in 1..Len(Tail(s)) : Tail(s)[i] = s[i + 1]
  BY HeadTailProperties
<1>3. Head(s) = s[1] OBVIOUS
<1> QED BY <1>1, <1>2, <1>3

\* Two queues have the same starts and answers, d places apart.
SameWork(q, p, d) ==
  /\ \A i \in 1..Len(p) :
       p[i].op \in {"start", "chunk"} => i + d \in 1..Len(q) /\ q[i + d] = p[i]
  /\ \A i \in 1..Len(q) :
       q[i].op \in {"start", "chunk"} => i - d \in 1..Len(p) /\ p[i - d] = q[i]

\* A queue without its other blocks at the front.
LEMMA QuietTail ==
  ASSUME NEW q \in Seq(QueueItem), q # <<>>, Head(q).op \notin {"start", "chunk"}
  PROVE  Tail(q) \in Seq(QueueItem) /\ SameWork(q, Tail(q), 1)
<1>1. Tail(q) \in Seq(QueueItem) BY Taken
<1>2. \A i \in 1..Len(Tail(q)) : i + 1 \in 1..Len(q) /\ q[i + 1] = Tail(q)[i] BY Taken
<1>3. \A i \in 1..Len(q) : i = 1 \/ (i - 1 \in 1..Len(Tail(q)) /\ Tail(q)[i - 1] = q[i])
  BY Taken
<1>4. q[1].op \notin {"start", "chunk"} BY Taken
<1> QED BY <1>1, <1>2, <1>3, <1>4 DEF SameWork

\* A queue with another such block behind it.
LEMMA QuietAppend ==
  ASSUME NEW q \in Seq(QueueItem), NEW p \in Seq(QueueItem), SameWork(q, p, 0),
         NEW e \in QueueItem, e.op \notin {"start", "chunk"}
  PROVE  Append(p, e) \in Seq(QueueItem) /\ SameWork(q, Append(p, e), 0)
<1> DEFINE a == Append(p, e)
<1>1. /\ a \in Seq(QueueItem)
      /\ \A i \in 1..Len(p) : i \in 1..Len(a) /\ a[i] = p[i]
      /\ \A i \in 1..Len(a) : (i \in 1..Len(p) /\ a[i] = p[i]) \/ a[i] = e
  BY Appended
<1> HIDE DEF a
<1>2. ASSUME NEW i \in 1..Len(a), a[i].op \in {"start", "chunk"}
      PROVE  i + 0 \in 1..Len(q) /\ q[i + 0] = a[i]
  BY <1>1, <1>2 DEF SameWork
<1>3. ASSUME NEW i \in 1..Len(q), q[i].op \in {"start", "chunk"}
      PROVE  i - 0 \in 1..Len(a) /\ a[i - 0] = q[i]
  BY <1>1, <1>3 DEF SameWork
<1> QED BY <1>1, <1>2, <1>3 DEF SameWork, a

\* What is due depends on the answers only.
LEMMA SameDue ==
  ASSUME NEW q \in Seq(QueueItem), NEW p \in Seq(QueueItem), NEW d \in Int,
         SameWork(q, p, d), NEW reqs, NEW t
  PROVE  DueOf(p, reqs, t) = DueOf(q, reqs, t)
<1>1. ASSUME NEW o \in Nat, NEW i \in 1..Len(p), IsAnswer(p, i, t, o)
      PROVE  \E j \in 1..Len(q) : IsAnswer(q, j, t, o)
  BY <1>1 DEF SameWork, IsAnswer
<1>2. ASSUME NEW o \in Nat, NEW i \in 1..Len(q), IsAnswer(q, i, t, o)
      PROVE  \E j \in 1..Len(p) : IsAnswer(p, j, t, o)
  BY <1>2 DEF SameWork, IsAnswer
<1> QED BY <1>1, <1>2 DEF DueOf
-----------------------------------------------------------------------------
(* Steps that neither start a task nor bring an answer. *)

\* A task keeps what it asked for and got; it may end, unsuccessfully.
Aged(r, s) ==
  /\ s.key = r.key /\ s.nextRequestOffset = r.nextRequestOffset
  /\ s.inFlight = r.inFlight /\ s.disk = r.disk /\ (s.ok => r.ok)
  /\ s.calls >= r.calls /\ (s.calls > 0 => s.pc = "finished")
  /\ s.pc = r.pc \/ (s.pc = "finished" /\ r.pc # "queued")

\* Such a step keeps the invariants about requests and answers.
LEMMA QuietStep ==
  ASSUME IInv, NEW d \in Int, queue' \in Seq(QueueItem), SameWork(queue, queue', d),
         UNCHANGED requests,
         task' \in Seq(TaskRec), Len(task') = Len(task),
         \A t \in 1..Len(task) : Aged(task[t], task'[t]),
         downloads' \in [Key -> Nat],
         \A k \in Key : downloads'[k] \in {0, downloads[k]}
  PROVE  /\ StartInv' /\ AnswerInv' /\ KeyInv' /\ FlightInv' /\ SuccessComplete'
         /\ \A t \in 1..Len(task') : task'[t].calls > 0 \/ task'[t].ok => task'[t].pc = "finished"
<1> USE DEF IInv
<1>1. \A t : Due(t)' = Due(t)
  <2> TAKE t
  <2>1. DueOf(queue', requests, t) = DueOf(queue, requests, t) BY SameDue DEF ShapeInv
  <2> QED BY <2>1 DEF Due
<1>2. \A t \in 1..Len(task) : task[t] \in TaskRec /\ task'[t] \in TaskRec
  BY ElementOfSeq DEF ShapeInv
<1>3. StartInv'
  <2>1. ASSUME NEW i \in 1..Len(queue'), queue'[i].op = "start"
        PROVE  /\ i + d \in 1..Len(queue) /\ queue[i + d] = queue'[i]
               /\ queue'[i].task \in 1..Len(task') /\ task'[queue'[i].task].pc = "queued"
    <3>1. i + d \in 1..Len(queue) /\ queue[i + d] = queue'[i] BY <2>1 DEF SameWork
    <3>2. queue'[i].task \in 1..Len(task) /\ task[queue'[i].task].pc = "queued"
      BY <2>1, <3>1 DEF StartInv
    <3>3. Aged(task[queue'[i].task], task'[queue'[i].task]) BY <3>2
    <3> QED BY <3>1, <3>2, <3>3 DEF Aged
  <2>2. ASSUME NEW i \in 1..Len(queue'), NEW j \in 1..Len(queue'), queue'[i].op = "start",
               queue'[j].op = "start", queue'[i].task = queue'[j].task
        PROVE  i = j
    <3>1. /\ i + d \in 1..Len(queue) /\ queue[i + d] = queue'[i]
          /\ j + d \in 1..Len(queue) /\ queue[j + d] = queue'[j]
      BY <2>1, <2>2
    <3>2. \A a, b \in 1..Len(queue) :
            queue[a].op = "start" /\ queue[b].op = "start" /\ queue[a].task = queue[b].task
              => a = b
      BY DEF StartInv
    <3>3. i + d = j + d BY <2>2, <3>1, <3>2
    <3> QED BY <3>3
  <2>3. ASSUME NEW t \in 1..Len(task'), task'[t].pc = "queued"
        PROVE  task'[t].nextRequestOffset = 0 /\ task'[t].inFlight = 0 /\ task'[t].disk = {}
    BY <2>3 DEF StartInv, Aged
  <2> QED BY <2>1, <2>2, <2>3 DEF StartInv
<1>4. AnswerInv'
  <2>1. ASSUME NEW i \in 1..Len(queue'), queue'[i].op = "chunk"
        PROVE  /\ i + d \in 1..Len(queue) /\ queue[i + d] = queue'[i]
               /\ queue'[i].task \in 1..Len(task')
               /\ queue'[i].key = task'[queue'[i].task].key
               /\ queue'[i].offset < task'[queue'[i].task].nextRequestOffset
               /\ [task |-> queue'[i].task, offset |-> queue'[i].offset] \notin requests'
    <3>1. i + d \in 1..Len(queue) /\ queue[i + d] = queue'[i] BY <2>1 DEF SameWork
    <3>2. /\ queue'[i].task \in 1..Len(task) /\ queue'[i].key = task[queue'[i].task].key
          /\ queue'[i].offset < task[queue'[i].task].nextRequestOffset
          /\ [task |-> queue'[i].task, offset |-> queue'[i].offset] \notin requests
      BY <2>1, <3>1 DEF AnswerInv
    <3>3. Aged(task[queue'[i].task], task'[queue'[i].task]) BY <3>2
    <3> QED BY <3>1, <3>2, <3>3 DEF Aged
  <2>2. ASSUME NEW i \in 1..Len(queue'), NEW j \in 1..Len(queue'), queue'[i].op = "chunk",
               IsAnswer(queue', j, queue'[i].task, queue'[i].offset)
        PROVE  i = j
    <3>1. queue'[j].op = "chunk" BY <2>2 DEF IsAnswer
    <3>2. /\ i + d \in 1..Len(queue) /\ queue[i + d] = queue'[i]
          /\ j + d \in 1..Len(queue) /\ queue[j + d] = queue'[j]
      BY <2>1, <2>2, <3>1
    <3>3. IsAnswer(queue, j + d, queue[i + d].task, queue[i + d].offset)
      BY <2>2, <3>2 DEF IsAnswer
    <3>4. i + d = j + d BY <2>2, <3>2, <3>3 DEF AnswerInv
    <3> QED BY <3>4
  <2>3. \A r \in requests' : r.offset < task'[r.task].nextRequestOffset
    BY DEF AnswerInv, Aged, TypeOK
  <2> QED BY <2>1, <2>2, <2>3 DEF AnswerInv
<1>5. KeyInv'
  <2>1. ASSUME NEW t \in 1..Len(task'), NEW u \in 1..Len(task'), task'[t].key = task'[u].key,
               t < u
        PROVE  task'[t].calls > 0 /\ Due(t)' = {}
    <3>1. task[t].calls > 0 /\ Due(t) = {} BY <2>1 DEF KeyInv, Aged
    <3>2. task'[t].calls >= task[t].calls /\ task'[t].calls \in Nat /\ task[t].calls \in Nat
      BY <1>2, <2>1 DEF Aged, TaskRec
    <3> QED BY <1>1, <3>1, <3>2
  <2>2. ASSUME NEW k \in Key, downloads'[k] # 0
        PROVE  task'[downloads'[k]].key = k /\ task'[downloads'[k]].pc # "queued"
    <3>1. downloads'[k] = downloads[k] /\ downloads[k] \in 1..Len(task)
      BY <2>2 DEF TypeOK
    <3> QED BY <2>2, <3>1 DEF KeyInv, Aged
  <2> QED BY <2>1, <2>2 DEF KeyInv
<1>6. FlightInv'
  <2> SUFFICES ASSUME NEW k \in Key, downloads'[k] # 0, task'[downloads'[k]].pc = "running"
               PROVE  Balanced(task'[downloads'[k]], DueOf(queue', requests', downloads'[k]))
    BY DEF FlightInv, Due
  <2>1. downloads'[k] = downloads[k] /\ downloads[k] \in 1..Len(task) BY DEF TypeOK
  <2>2. Balanced(task[downloads[k]], Due(downloads[k])) BY <2>1 DEF FlightInv, Aged
  <2>3. Aged(task[downloads[k]], task'[downloads[k]]) BY <2>1
  <2>4. DueOf(queue', requests', downloads[k]) = Due(downloads[k]) BY <1>1 DEF Due
  <2> QED BY <2>1, <2>2, <2>3, <2>4 DEF Balanced, Aged
<1>7. SuccessComplete'
  <2>1. DOMAIN task = 1..Len(task) /\ DOMAIN task' = 1..Len(task') BY LenProperties DEF ShapeInv
  <2> QED BY <2>1 DEF SuccessComplete, Aged
<1>8. ASSUME NEW t \in 1..Len(task'), task'[t].calls > 0 \/ task'[t].ok
      PROVE  task'[t].pc = "finished"
  BY <1>8 DEF DoneInv, Aged
<1> QED BY <1>3, <1>4, <1>5, <1>6, <1>7, <1>8

\* Tasks left alone have aged.
LEMMA AgedKept ==
  ASSUME IInv
  PROVE  /\ \A t \in 1..Len(task) : Aged(task[t], task[t])
         /\ task \in Seq(TaskRec) /\ downloads \in [Key -> Nat]
<1>1. \A t \in 1..Len(task) : task[t] \in TaskRec BY ElementOfSeq DEF IInv, ShapeInv
<1>2. task \in Seq(TaskRec) BY DEF IInv, ShapeInv
<1>3. downloads \in [Key -> Nat] BY <1>2, LenProperties DEF IInv, TypeOK
<1>4. ASSUME NEW t \in 1..Len(task) PROVE Aged(task[t], task[t])
  <2>1. task[t].calls \in Nat BY <1>1 DEF TaskRec
  <2> QED BY <2>1 DEF IInv, DoneInv, Aged
<1> QED BY <1>2, <1>3, <1>4

\* A completion on the main queue is for a finished task.
CompletionsDone ==
  /\ mainQueue \in Seq(MainItem)
  /\ \A i \in 1..Len(mainQueue) :
       mainQueue[i].op = "completion" => /\ mainQueue[i].task \in 1..Len(task)
                                         /\ task[mainQueue[i].task].pc = "finished"

\* The queue left alone has the same work.
LEMMA SameQueue ==
  ASSUME NEW q \in Seq(QueueItem)
  PROVE  SameWork(q, q, 0)
<1>1. Len(q) \in Nat BY LenProperties
<1> QED BY <1>1 DEF SameWork

\* The main queue with one block more: a completion is for a finished task.
LEMMA MainAppended ==
  ASSUME IInv, NEW e \in MainItem, mainQueue' = Append(mainQueue, e), Len(task') = Len(task),
         \A t \in 1..Len(task) : task[t].pc = "finished" => task'[t].pc = "finished",
         e.op = "completion" => e.task \in 1..Len(task) /\ task'[e.task].pc = "finished"
  PROVE  CompletionsDone'
<1>1. mainQueue \in Seq(MainItem) BY DEF IInv, ShapeInv
<1>2. /\ mainQueue' \in Seq(MainItem)
      /\ \A i \in 1..Len(mainQueue') :
           (i \in 1..Len(mainQueue) /\ mainQueue'[i] = mainQueue[i]) \/ mainQueue'[i] = e
  BY <1>1, Appended
<1> QED BY <1>2 DEF IInv, DoneInv, CompletionsDone

\* And with one block less.
LEMMA MainTaken ==
  ASSUME IInv, mainQueue # <<>>, mainQueue' = Tail(mainQueue), Len(task') = Len(task),
         \A t \in 1..Len(task) : task[t].pc = "finished" => task'[t].pc = "finished"
  PROVE  /\ Head(mainQueue) \in MainItem /\ CompletionsDone'
         /\ Head(mainQueue).op = "completion" =>
              /\ Head(mainQueue).task \in 1..Len(task)
              /\ task[Head(mainQueue).task].pc = "finished"
<1>1. mainQueue \in Seq(MainItem) BY DEF IInv, ShapeInv
<1>2. /\ Head(mainQueue) \in MainItem /\ Head(mainQueue) = mainQueue[1]
      /\ 1 \in 1..Len(mainQueue) /\ mainQueue' \in Seq(MainItem)
      /\ \A i \in 1..Len(mainQueue') : i + 1 \in 1..Len(mainQueue)
                                       /\ mainQueue'[i] = mainQueue[i + 1]
  BY <1>1, Taken
<1> QED BY <1>2 DEF IInv, DoneInv, CompletionsDone

\* The types of a step that changes no task and no request.
LEMMA TypesKept ==
  ASSUME IInv, UNCHANGED <<task, requests>>,
         activeTransferID' \in Transfer \cup {NoTransfer},
         announcements' \subseteq Transfer, published' \subseteq Transfer,
         \A k \in Key : downloads'[k] \in {0, downloads[k]}, downloads' \in [Key -> Nat]
  PROVE  TypeOK'
<1>1. downloads' \in [Key -> 0..Len(task)]
  <2>1. Len(task) \in Nat BY LenProperties DEF IInv, ShapeInv
  <2>2. \A k \in Key : downloads[k] \in 0..Len(task) BY DEF IInv, TypeOK
  <2> QED BY <2>1, <2>2
<1> QED BY <1>1 DEF IInv, TypeOK

\* A step that changes neither the tasks nor the work of the queue.
LEMMA IdleStep ==
  ASSUME IInv, NEW d \in Int, queue' \in Seq(QueueItem), SameWork(queue, queue', d),
         UNCHANGED <<task, requests>>, CompletionsDone',
         activeTransferID' \in Transfer \cup {NoTransfer},
         announcements' \subseteq Transfer, published' \subseteq Transfer,
         \A k \in Key : downloads'[k] \in {0, downloads[k]}, downloads' \in [Key -> Nat]
  PROVE  IInv'
<1>1. TypeOK' BY TypesKept
<1>2. ShapeInv' BY DEF IInv, ShapeInv, CompletionsDone
<1>3. task' \in Seq(TaskRec) /\ \A t \in 1..Len(task) : Aged(task[t], task'[t]) BY AgedKept
<1>4. /\ StartInv' /\ AnswerInv' /\ KeyInv' /\ FlightInv' /\ SuccessComplete'
      /\ \A t \in 1..Len(task') : task'[t].calls > 0 \/ task'[t].ok => task'[t].pc = "finished"
  BY <1>3, QuietStep
<1>5. DoneInv' BY <1>4 DEF DoneInv, CompletionsDone
<1> QED BY <1>1, <1>2, <1>4, <1>5 DEF IInv

\* A state without tasks satisfies the invariant.
LEMMA InvInit == Init => IInv
<1> SUFFICES ASSUME Init PROVE IInv OBVIOUS
<1>1. /\ queue = <<>> /\ mainQueue = <<>> /\ task = <<>> /\ requests = {}
      /\ downloads = [k \in Key |-> 0]
  BY DEF Init
<1>2. ShapeInv BY <1>1, EmptySeq DEF ShapeInv
<1>3. Len(queue) = 0 /\ Len(mainQueue) = 0 /\ Len(task) = 0 /\ DOMAIN task = {}
  BY <1>1, EmptySeq
<1>4. TypeOK BY <1>1, <1>3, TransferAssumption DEF Init, TypeOK
<1>5. StartInv /\ AnswerInv /\ DoneInv /\ KeyInv /\ SuccessComplete
  BY <1>1, <1>3 DEF StartInv, AnswerInv, DoneInv, KeyInv, SuccessComplete
<1>6. FlightInv BY <1>1 DEF FlightInv
<1> QED BY <1>2, <1>4, <1>5, <1>6 DEF IInv

\* Frames and the loss of the pasteboard only post a block to the main queue.
LEMMA PostedStep ==
  ASSUME IInv, NEW tr \in Transfer \cup {NoTransfer},
         mainQueue' = Append(mainQueue, [op |-> "announce", transfer |-> tr]),
         UNCHANGED <<activeTransferID, queue, announcements, downloads, task, requests,
                     published>>
  PROVE  IInv'
<1> DEFINE e == [op |-> "announce", transfer |-> tr]
<1>1. e \in MainItem /\ e.op # "completion" BY DEF MainItem
<1> HIDE DEF e
<1>2. mainQueue' = Append(mainQueue, e) BY DEF e
<1>3. CompletionsDone'
  BY <1>1, <1>2, MainAppended
<1>4. queue' \in Seq(QueueItem) /\ SameWork(queue, queue', 0) BY SameQueue DEF IInv, ShapeInv
<1>5. /\ activeTransferID' \in Transfer \cup {NoTransfer}
      /\ announcements' \subseteq Transfer /\ published' \subseteq Transfer
  BY DEF IInv, TypeOK
<1>6. downloads' \in [Key -> Nat] /\ \A k \in Key : downloads'[k] \in {0, downloads[k]}
  BY AgedKept
<1> QED BY <1>3, <1>4, <1>5, <1>6, IdleStep

\* Publishing posts a cancellation and a registration to the coordinator.
LEMMA PublishStep == ASSUME IInv, Publish PROVE IInv'
<1> DEFINE tr == Head(mainQueue).transfer
           c == [op |-> "cancel", transfer |-> activeTransferID]
           g == [op |-> "register", transfer |-> tr]
<1>1. /\ mainQueue # <<>> /\ Head(mainQueue).op = "announce" /\ mainQueue' = Tail(mainQueue)
      /\ activeTransferID' = tr /\ published' = published \cup ({tr} \cap Transfer)
      /\ queue' = IF tr = NoTransfer THEN queue \o CancelActive
                  ELSE Append(queue \o CancelActive, g)
      /\ UNCHANGED <<announcements, downloads, task, requests>>
  BY DEF Publish, MainNext
<1>2. /\ Head(mainQueue) \in MainItem /\ CompletionsDone'
  BY <1>1, MainTaken
<1>3. tr \in Transfer \cup {NoTransfer} BY <1>1, <1>2 DEF MainItem
<1>4. queue \in Seq(QueueItem) /\ SameWork(queue, queue, 0) BY SameQueue DEF IInv, ShapeInv
<1>5. queue \o CancelActive \in Seq(QueueItem) /\ SameWork(queue, queue \o CancelActive, 0)
  <2>1. CASE activeTransferID = NoTransfer
    <3>1. queue \o CancelActive = queue BY <1>4, <2>1, ConcatEmptySeq DEF CancelActive
    <3> QED BY <1>4, <3>1
  <2>2. CASE activeTransferID # NoTransfer
    <3>1. c \in QueueItem /\ c.op \notin {"start", "chunk"}
      BY <2>2 DEF IInv, TypeOK, QueueItem
    <3>2. CancelActive = <<c>> BY <2>2 DEF CancelActive
    <3> HIDE DEF c
    <3>3. queue \o <<c>> = Append(queue, c) BY <1>4, <3>1, AppendIsConcat
    <3> QED BY <1>4, <3>1, <3>2, <3>3, QuietAppend
  <2> QED BY <2>1, <2>2
<1>6. queue' \in Seq(QueueItem) /\ SameWork(queue, queue', 0)
  <2>1. CASE tr = NoTransfer BY <1>1, <1>5, <2>1
  <2>2. CASE tr # NoTransfer
    <3>1. g \in QueueItem /\ g.op \notin {"start", "chunk"} BY <1>3, <2>2 DEF QueueItem
    <3>2. queue' = Append(queue \o CancelActive, g) BY <1>1, <2>2
    <3> HIDE DEF g
    <3> QED BY <1>4, <1>5, <3>1, <3>2, QuietAppend
  <2> QED BY <2>1, <2>2
<1>7. /\ announcements' \subseteq Transfer /\ published' \subseteq Transfer
  BY <1>1 DEF IInv, TypeOK
<1>8. downloads' \in [Key -> Nat] /\ \A k \in Key : downloads'[k] \in {0, downloads[k]}
  BY <1>1, AgedKept
<1>9. activeTransferID' \in Transfer \cup {NoTransfer} /\ UNCHANGED <<task, requests>>
  BY <1>1, <1>3
<1> QED BY <1>2, <1>6, <1>7, <1>8, <1>9, IdleStep

\* A registration or a removal runs on the coordinator's queue.
LEMMA BookStep ==
  ASSUME IInv, RegisterAnnouncement \/ RemoveDownload
  PROVE  IInv'
<1>1. /\ queue # <<>> /\ Head(queue).op \in {"register", "remove"} /\ queue' = Tail(queue)
      /\ \/ announcements' = announcements \cup {Head(queue).transfer}
            /\ Head(queue).op = "register" /\ downloads' = downloads
         \/ announcements' = announcements /\ Head(queue).op = "remove"
            /\ downloads' = [downloads EXCEPT ![Head(queue).key] = 0]
      /\ UNCHANGED <<activeTransferID, mainQueue, task, requests, published>>
  BY DEF RegisterAnnouncement, RemoveDownload, QueueNext
<1>2. queue \in Seq(QueueItem) BY DEF IInv, ShapeInv
<1>3. Head(queue) \in QueueItem BY <1>1, <1>2, Taken
<1>4. queue' \in Seq(QueueItem) /\ SameWork(queue, queue', 1) BY <1>1, <1>2, QuietTail
<1>5. announcements' \subseteq Transfer BY <1>1, <1>3 DEF QueueItem, IInv, TypeOK
<1>6. downloads' \in [Key -> Nat] /\ \A k \in Key : downloads'[k] \in {0, downloads[k]}
  BY <1>1, <1>3, AgedKept DEF QueueItem
<1>7. /\ activeTransferID' \in Transfer \cup {NoTransfer} /\ published' \subseteq Transfer
      /\ CompletionsDone'
  BY <1>1 DEF IInv, TypeOK, ShapeInv, DoneInv, CompletionsDone
<1> QED BY <1>1, <1>4, <1>5, <1>6, <1>7, IdleStep

\* The types when tasks have aged.
LEMMA AgedTypes ==
  ASSUME IInv, task' \in Seq(TaskRec), Len(task') = Len(task),
         \A t \in 1..Len(task) : Aged(task[t], task'[t]),
         UNCHANGED <<activeTransferID, requests, published>>, announcements' \subseteq Transfer,
         downloads' \in [Key -> Nat], \A k \in Key : downloads'[k] \in {0, downloads[k]}
  PROVE  TypeOK'
<1>1. DOMAIN task = 1..Len(task) /\ DOMAIN task' = 1..Len(task) BY LenProperties DEF IInv, ShapeInv
<1>2. downloads' \in [Key -> 0..Len(task')]
  <2>1. Len(task) \in Nat BY LenProperties DEF IInv, ShapeInv
  <2>2. \A k \in Key : downloads[k] \in 0..Len(task) BY DEF IInv, TypeOK
  <2> QED BY <2>1, <2>2
<1>3. ASSUME NEW t \in DOMAIN task'
      PROVE  /\ task'[t].key \in Key /\ task'[t].pc \in {"queued", "running", "finished"}
             /\ task'[t].inFlight \in 0..kPipelineDepth
             /\ task'[t].nextRequestOffset \in 0..Size[task'[t].key]
             /\ task'[t].disk \subseteq 0..(task'[t].nextRequestOffset - 1)
  <2>1. Aged(task[t], task'[t]) /\ t \in DOMAIN task BY <1>1, <1>3
  <2> QED BY <2>1 DEF IInv, TypeOK, Aged
<1> QED BY <1>1, <1>2, <1>3 DEF IInv, TypeOK

\* The record of a task whose handler is called.
LEMMA CalledRec ==
  ASSUME NEW r \in TaskRec
  PROVE  [r EXCEPT !.calls = @ + 1] \in TaskRec
<1>1. r.calls + 1 \in Nat BY DEF TaskRec
<1> QED BY <1>1 DEF TaskRec

\* What finish() leaves of a task.
LEMMA EndedRec ==
  ASSUME NEW r \in TaskRec, NEW b \in BOOLEAN
  PROVE  LET s == FinishedAs(r, b) IN
         /\ s \in TaskRec /\ s.pc = "finished" /\ s.ok = b
         /\ s.key = r.key /\ s.nextRequestOffset = r.nextRequestOffset
         /\ s.inFlight = r.inFlight /\ s.disk = r.disk /\ s.calls = r.calls
BY DEF FinishedAs, TaskRec

\* The completion of a finished task calls Finder's handler.
LEMMA CompletionStep == ASSUME IInv, Completion PROVE IInv'
<1> DEFINE u == Head(mainQueue).task
           e == [op |-> "remove", key |-> task[u].key]
<1>1. /\ mainQueue # <<>> /\ Head(mainQueue).op = "completion" /\ mainQueue' = Tail(mainQueue)
      /\ queue' = Append(queue, e)
      /\ task' = [task EXCEPT ![u].calls = @ + 1]
      /\ UNCHANGED <<activeTransferID, announcements, downloads, requests, published>>
  BY DEF Completion, MainNext
<1>2. /\ task \in Seq(TaskRec) /\ \A t \in 1..Len(task) : task[t] \in TaskRec
  BY ElementOfSeq DEF IInv, ShapeInv
<1>3. u \in 1..Len(task) /\ task[u].pc = "finished"
  <2>1. /\ 1 \in 1..Len(mainQueue) /\ Head(mainQueue) = mainQueue[1]
    BY <1>1, Taken DEF IInv, ShapeInv
  <2> QED BY <1>1, <2>1 DEF IInv, DoneInv
<1>4. [task[u] EXCEPT !.calls = @ + 1] \in TaskRec BY <1>2, <1>3, CalledRec
<1>5. task' \in Seq(TaskRec) /\ Len(task') = Len(task) BY <1>1, <1>2, <1>3, <1>4
<1>6. \A t \in 1..Len(task) : task'[t] = IF t = u THEN [task[u] EXCEPT !.calls = @ + 1]
                                         ELSE task[t]
  BY <1>1, <1>2
<1>7. \A t \in 1..Len(task) : Aged(task[t], task'[t])
  <2> TAKE t \in 1..Len(task)
  <2>1. CASE t # u BY <1>6, <2>1, AgedKept
  <2>2. CASE t = u
    <3>1. task[u] \in TaskRec /\ task[u].calls \in Nat BY <1>2, <1>3 DEF TaskRec
    <3> QED BY <1>3, <1>6, <2>2, <3>1 DEF Aged, TaskRec
  <2> QED BY <2>1, <2>2
<1>8. CompletionsDone'
  BY <1>1, <1>5, <1>7, MainTaken DEF Aged
<1>9. queue' \in Seq(QueueItem) /\ SameWork(queue, queue', 0)
  <2>1. e \in QueueItem /\ e.op \notin {"start", "chunk"} BY <1>2, <1>3 DEF TaskRec, QueueItem
  <2>2. queue \in Seq(QueueItem) /\ SameWork(queue, queue, 0) BY SameQueue DEF IInv, ShapeInv
  <2> HIDE DEF e
  <2> QED BY <1>1, <2>1, <2>2, QuietAppend
<1>10. downloads' \in [Key -> Nat] /\ \A k \in Key : downloads'[k] \in {0, downloads[k]}
  BY <1>1, AgedKept
<1>11. /\ StartInv' /\ AnswerInv' /\ KeyInv' /\ FlightInv' /\ SuccessComplete'
       /\ \A t \in 1..Len(task') : task'[t].calls > 0 \/ task'[t].ok => task'[t].pc = "finished"
  <2>1. requests' = requests BY <1>1
  <2> QED BY <1>5, <1>7, <1>9, <1>10, <2>1, QuietStep
<1>12. TypeOK'
  <2>1. announcements' \subseteq Transfer BY <1>1 DEF IInv, TypeOK
  <2> QED BY <1>1, <1>5, <1>7, <1>10, <2>1, AgedTypes
<1> QED BY <1>5, <1>8, <1>9, <1>11, <1>12 DEF IInv, ShapeInv, DoneInv, CompletionsDone

\* Cancelling a transfer ends its running tasks and forgets them.
LEMMA CancelStep == ASSUME IInv, CancelTransfer PROVE IInv'
<1> DEFINE tr == Head(queue).transfer
           ended == ToCancel(tr)
<1>1. /\ queue # <<>> /\ Head(queue).op = "cancel" /\ queue' = Tail(queue)
      /\ task' = [t \in DOMAIN task |->
                    IF t \in ended THEN FinishedAs(task[t], FALSE) ELSE task[t]]
      /\ \E order \in SetToSeqs(ended) :
           mainQueue' = mainQueue \o
             [i \in DOMAIN order |-> [op |-> "completion", task |-> order[i]]]
      /\ downloads' = [k \in Key |-> IF TransferOf[k] = tr THEN 0 ELSE downloads[k]]
      /\ announcements' = announcements \ {tr}
      /\ UNCHANGED <<activeTransferID, requests, published>>
  BY DEF CancelTransfer, QueueNext
<1>2. /\ task \in Seq(TaskRec) /\ DOMAIN task = 1..Len(task) /\ Len(task) \in Nat
      /\ \A t \in 1..Len(task) : task[t] \in TaskRec
  BY ElementOfSeq, LenProperties DEF IInv, ShapeInv
<1>3. /\ ended \subseteq 1..Len(task)
      /\ \A t \in ended : task[t].pc \notin {"queued", "finished"}
  <2>1. \A k \in Key : downloads[k] \in 0..Len(task) BY DEF IInv, TypeOK
  <2> QED BY <1>2, <2>1 DEF ToCancel, IInv, KeyInv
<1> HIDE DEF ended
<1>4. \A t \in 1..Len(task) : task'[t] = IF t \in ended THEN FinishedAs(task[t], FALSE)
                                         ELSE task[t]
  BY <1>1, <1>2
<1>5. \A t \in 1..Len(task) : task'[t] \in TaskRec BY <1>2, <1>4, EndedRec
<1>6. task' \in Seq(TaskRec) /\ Len(task') = Len(task)
  <2>1. task' = [t \in 1..Len(task) |-> task'[t]] BY <1>1, <1>2
  <2> QED BY <1>2, <1>5, <2>1
<1>7. \A t \in 1..Len(task) : Aged(task[t], task'[t])
  <2> TAKE t \in 1..Len(task)
  <2>1. CASE t \notin ended BY <1>4, <2>1, AgedKept
  <2>2. CASE t \in ended
    <3>1. task[t] \in TaskRec /\ task[t].calls \in Nat BY <1>2 DEF TaskRec
    <3>2. task'[t] = FinishedAs(task[t], FALSE) BY <1>4, <2>2
    <3>3. /\ task'[t].pc = "finished" /\ task'[t].ok = FALSE
          /\ task'[t].key = task[t].key
          /\ task'[t].nextRequestOffset = task[t].nextRequestOffset
          /\ task'[t].inFlight = task[t].inFlight /\ task'[t].disk = task[t].disk
          /\ task'[t].calls = task[t].calls
      BY <3>1, <3>2 DEF FinishedAs, TaskRec
    <3>4. task[t].pc # "queued" BY <1>3, <2>2
    <3> QED BY <3>1, <3>3, <3>4 DEF Aged
  <2> QED BY <2>1, <2>2
<1>8. CompletionsDone'
  <2>1. PICK order \in SetToSeqs(ended) :
          mainQueue' = mainQueue \o
            [i \in DOMAIN order |-> [op |-> "completion", task |-> order[i]]]
    BY <1>1
  <2> DEFINE n == Cardinality(ended)
             more == [i \in 1..n |-> [op |-> "completion", task |-> order[i]]]
  <2>2. n \in Nat
    <3>1. IsFiniteSet(1..Len(task)) BY <1>2, FS_Interval
    <3>2. IsFiniteSet(ended) BY <1>3, <3>1, FS_Subset
    <3> QED BY <3>2, FS_CardinalityType
  <2>3. order \in [1..n -> ended] BY <2>1 DEF SetToSeqs
  <2> HIDE DEF n
  <2>4. \A i \in 1..n : /\ order[i] \in 1..Len(task) /\ task'[order[i]].pc = "finished"
    <3> TAKE i \in 1..n
    <3>1. order[i] \in ended /\ order[i] \in 1..Len(task) BY <1>3, <2>3
    <3>2. task[order[i]] \in TaskRec BY <1>2, <3>1
    <3>3. task'[order[i]] = FinishedAs(task[order[i]], FALSE) BY <1>4, <3>1
    <3> QED BY <3>1, <3>2, <3>3 DEF FinishedAs, TaskRec
  <2>5. more \in Seq(MainItem) /\ Len(more) = n
    <3>1. \A i \in 1..n : [op |-> "completion", task |-> order[i]] \in MainItem
      BY <1>2, <2>4 DEF MainItem
    <3> QED BY <2>2, <3>1
  <2>6. \A i \in 1..n : more[i].op = "completion" /\ more[i].task = order[i] OBVIOUS
  <2>7. mainQueue' = mainQueue \o more BY <2>1, <2>3
  <2> HIDE DEF more
  <2>8. mainQueue \in Seq(MainItem) /\ Len(mainQueue) \in Nat BY LenProperties DEF IInv, ShapeInv
  <2>9. /\ mainQueue' \in Seq(MainItem) /\ Len(mainQueue') = Len(mainQueue) + n
        /\ \A i \in 1..Len(mainQueue') :
             mainQueue'[i] = IF i <= Len(mainQueue) THEN mainQueue[i] ELSE more[i - Len(mainQueue)]
    <3> DEFINE m == mainQueue'
    <3>1. m = mainQueue \o more BY <2>7
    <3> HIDE DEF m
    <3>2. /\ m \in Seq(MainItem) /\ Len(m) = Len(mainQueue) + Len(more)
          /\ \A i \in 1..Len(m) :
               m[i] = IF i <= Len(mainQueue) THEN mainQueue[i] ELSE more[i - Len(mainQueue)]
      BY <2>5, <2>8, <3>1, Joined
    <3> QED BY <2>5, <3>2 DEF m
  <2>10. ASSUME NEW i \in 1..Len(mainQueue'), mainQueue'[i].op = "completion"
         PROVE  /\ mainQueue'[i].task \in 1..Len(task')
                /\ task'[mainQueue'[i].task].pc = "finished"
    <3>1. CASE i <= Len(mainQueue)
      <4>1. i \in 1..Len(mainQueue) /\ mainQueue'[i] = mainQueue[i] BY <2>8, <2>9, <3>1
      <4>2. mainQueue[i].task \in 1..Len(task) /\ task[mainQueue[i].task].pc = "finished"
        BY <2>10, <4>1 DEF IInv, DoneInv
      <4> QED BY <1>6, <1>7, <4>1, <4>2 DEF Aged
    <3>2. CASE ~(i <= Len(mainQueue))
      <4>1. i - Len(mainQueue) \in 1..n /\ mainQueue'[i] = more[i - Len(mainQueue)]
        BY <2>2, <2>8, <2>9, <3>2
      <4> QED BY <1>6, <2>4, <2>6, <4>1
    <3> QED BY <3>1, <3>2
  <2> QED BY <2>9, <2>10 DEF CompletionsDone
<1>9. queue' \in Seq(QueueItem) /\ SameWork(queue, queue', 1)
  BY <1>1, QuietTail DEF IInv, ShapeInv
<1>10. downloads' \in [Key -> Nat] /\ \A k \in Key : downloads'[k] \in {0, downloads[k]}
  BY <1>1, AgedKept
<1>11. /\ StartInv' /\ AnswerInv' /\ KeyInv' /\ FlightInv' /\ SuccessComplete'
       /\ \A t \in 1..Len(task') : task'[t].calls > 0 \/ task'[t].ok => task'[t].pc = "finished"
  <2>1. requests' = requests BY <1>1
  <2> QED BY <1>6, <1>7, <1>9, <1>10, <2>1, QuietStep
<1>12. TypeOK'
  <2>1. announcements' \subseteq Transfer BY <1>1 DEF IInv, TypeOK
  <2> QED BY <1>1, <1>6, <1>7, <1>10, <2>1, AgedTypes
<1> QED BY <1>6, <1>8, <1>9, <1>11, <1>12 DEF IInv, ShapeInv, DoneInv, CompletionsDone
-----------------------------------------------------------------------------
(* Steps that make a task, answer a request or take an answer. *)

\* A new task joins, and its start is queued.
LEMMA WriteStep ==
  ASSUME IInv, ~Repaste, NEW k \in Key, WritePromiseTo(k)
  PROVE  IInv'
<1> DEFINE r == [key |-> k, pc |-> "queued", nextRequestOffset |-> 0, inFlight |-> 0,
                 disk |-> {}, ok |-> FALSE, calls |-> 0]
           n == Len(task) + 1
           e == [op |-> "start", task |-> n]
<1>1. /\ Len(task) < MaxPaste /\ Drained(k) /\ task' = Append(task, r)
      /\ queue' = Append(queue, e)
      /\ UNCHANGED <<activeTransferID, mainQueue, announcements, downloads, requests,
                     published>>
  BY DEF WritePromiseTo
<1>2. /\ task \in Seq(TaskRec) /\ Len(task) \in Nat /\ DOMAIN task = 1..Len(task)
      /\ queue \in Seq(QueueItem) /\ Len(queue) \in Nat /\ DOMAIN queue = 1..Len(queue)
  BY LenProperties DEF IInv, ShapeInv
<1>3. /\ r \in TaskRec /\ r.key = k /\ r.pc = "queued" /\ r.nextRequestOffset = 0
      /\ r.inFlight = 0 /\ r.disk = {} /\ r.ok = FALSE /\ r.calls = 0
  BY DEF TaskRec
<1>4. /\ e \in QueueItem /\ e.op = "start" /\ e.task = n BY <1>2 DEF QueueItem
<1> HIDE DEF r, e
<1>5. /\ task' \in Seq(TaskRec) /\ Len(task') = n /\ task'[n] = r
      /\ DOMAIN task' = 1..n
      /\ \A t \in 1..Len(task) : t \in 1..n /\ task'[t] = task[t]
      /\ \A t \in 1..n : t = n \/ t \in 1..Len(task)
  BY <1>1, <1>2, <1>3, Appended, LenProperties
<1>6. /\ queue' \in Seq(QueueItem) /\ Len(queue') = Len(queue) + 1
      /\ \A i \in 1..Len(queue) : i \in 1..Len(queue') /\ queue'[i] = queue[i]
      /\ \A i \in 1..Len(queue') :
           (i \in 1..Len(queue) /\ queue'[i] = queue[i]) \/ (i = Len(queue) + 1 /\ queue'[i] = e)
  BY <1>1, <1>2, <1>4, Appended
<1>7. \A t : DueOf(queue', requests', t) = Due(t)
  <2> TAKE t
  <2>1. ASSUME NEW o \in Nat
        PROVE  (\E i \in 1..Len(queue') : IsAnswer(queue', i, t, o))
                 <=> (\E i \in 1..Len(queue) : IsAnswer(queue, i, t, o))
    BY <1>4, <1>6 DEF IsAnswer
  <2> QED BY <1>1, <2>1 DEF DueOf, Due
<1>8. TypeOK'
  <2>1. downloads' \in [Key -> 0..Len(task')]
    <3>1. \A j \in Key : downloads[j] \in 0..Len(task) BY DEF IInv, TypeOK
    <3>2. \A j \in Key : downloads[j] \in 0..n BY <1>2, <3>1
    <3> QED BY <1>1, <1>5, <3>2 DEF IInv, TypeOK
  <2>2. Len(task') <= MaxPaste BY <1>1, <1>2, <1>5, TransferAssumption
  <2>3. requests' \subseteq [task : DOMAIN task', offset : Nat]
    BY <1>1, <1>2, <1>5 DEF IInv, TypeOK
  <2>4. ASSUME NEW t \in DOMAIN task'
        PROVE  /\ task'[t].key \in Key /\ task'[t].pc \in {"queued", "running", "finished"}
               /\ task'[t].inFlight \in 0..kPipelineDepth
               /\ task'[t].nextRequestOffset \in 0..Size[task'[t].key]
               /\ task'[t].disk \subseteq 0..(task'[t].nextRequestOffset - 1)
    <3>1. CASE t = n BY <1>3, <1>5, <3>1, TransferAssumption
    <3>2. CASE t \in 1..Len(task) BY <1>2, <1>5, <3>2 DEF IInv, TypeOK
    <3> QED BY <1>5, <2>4, <3>1, <3>2
  <2> QED BY <1>1, <2>1, <2>2, <2>3, <2>4 DEF IInv, TypeOK
<1>9. StartInv'
  <2>1. ASSUME NEW i \in 1..Len(queue'), queue'[i].op = "start"
        PROVE  /\ queue'[i].task \in 1..Len(task') /\ task'[queue'[i].task].pc = "queued"
               /\ i \in 1..Len(queue) /\ queue'[i] = queue[i] => queue'[i].task \in 1..Len(task)
    <3>1. CASE i \in 1..Len(queue) /\ queue'[i] = queue[i]
      <4>1. queue[i].task \in 1..Len(task) /\ task[queue[i].task].pc = "queued"
        BY <2>1, <3>1 DEF IInv, StartInv
      <4> QED BY <1>5, <3>1, <4>1
    <3>2. CASE i = Len(queue) + 1 /\ queue'[i] = e BY <1>2, <1>3, <1>4, <1>5, <3>2
    <3> QED BY <1>6, <3>1, <3>2
  <2>2. ASSUME NEW i \in 1..Len(queue'), NEW j \in 1..Len(queue'), queue'[i].op = "start",
               queue'[j].op = "start", queue'[i].task = queue'[j].task
        PROVE  i = j
    <3>1. CASE i \in 1..Len(queue) /\ j \in 1..Len(queue)
      BY <1>6, <2>2, <3>1 DEF IInv, StartInv
    <3>2. CASE i \notin 1..Len(queue) BY <1>2, <1>4, <1>6, <2>1, <2>2, <3>2
    <3>3. CASE j \notin 1..Len(queue) BY <1>2, <1>4, <1>6, <2>1, <2>2, <3>3
    <3> QED BY <3>1, <3>2, <3>3
  <2>3. ASSUME NEW t \in 1..Len(task'), task'[t].pc = "queued"
        PROVE  task'[t].nextRequestOffset = 0 /\ task'[t].inFlight = 0 /\ task'[t].disk = {}
    BY <1>3, <1>5, <2>3 DEF IInv, StartInv
  <2> QED BY <2>1, <2>2, <2>3 DEF StartInv
<1>10. AnswerInv'
  <2>1. ASSUME NEW i \in 1..Len(queue'), queue'[i].op = "chunk"
        PROVE  i \in 1..Len(queue) /\ queue'[i] = queue[i]
    BY <1>4, <1>6, <2>1
  <2>2. ASSUME NEW i \in 1..Len(queue'), queue'[i].op = "chunk"
        PROVE  /\ queue'[i].task \in 1..Len(task')
               /\ queue'[i].key = task'[queue'[i].task].key
               /\ queue'[i].offset < task'[queue'[i].task].nextRequestOffset
               /\ [task |-> queue'[i].task, offset |-> queue'[i].offset] \notin requests'
    <3>1. /\ queue[i].task \in 1..Len(task) /\ queue[i].key = task[queue[i].task].key
          /\ queue[i].offset < task[queue[i].task].nextRequestOffset
          /\ [task |-> queue[i].task, offset |-> queue[i].offset] \notin requests
      BY <2>1, <2>2 DEF IInv, AnswerInv
    <3> QED BY <1>1, <1>5, <2>1, <2>2, <3>1
  <2>3. ASSUME NEW i \in 1..Len(queue'), NEW j \in 1..Len(queue'), queue'[i].op = "chunk",
               IsAnswer(queue', j, queue'[i].task, queue'[i].offset)
        PROVE  i = j
    <3>1. /\ i \in 1..Len(queue) /\ queue'[i] = queue[i]
          /\ j \in 1..Len(queue) /\ queue'[j] = queue[j]
      BY <2>1, <2>3 DEF IsAnswer
    <3>2. IsAnswer(queue, j, queue[i].task, queue[i].offset) BY <2>3, <3>1 DEF IsAnswer
    <3> QED BY <2>3, <3>1, <3>2 DEF IInv, AnswerInv
  <2>4. \A q \in requests' : q.offset < task'[q.task].nextRequestOffset
    BY <1>1, <1>2, <1>5 DEF IInv, AnswerInv, TypeOK
  <2> QED BY <2>2, <2>3, <2>4 DEF AnswerInv
<1>11. DoneInv'
  <2>1. ASSUME NEW i \in 1..Len(mainQueue'), mainQueue'[i].op = "completion"
        PROVE  /\ mainQueue'[i].task \in 1..Len(task')
               /\ task'[mainQueue'[i].task].pc = "finished"
    <3>1. mainQueue[i].task \in 1..Len(task) /\ task[mainQueue[i].task].pc = "finished"
      BY <1>1, <2>1 DEF IInv, DoneInv
    <3> QED BY <1>1, <1>5, <3>1
  <2>2. ASSUME NEW t \in 1..Len(task'), task'[t].calls > 0 \/ task'[t].ok
        PROVE  task'[t].pc = "finished"
    BY <1>3, <1>5, <2>2 DEF IInv, DoneInv
  <2> QED BY <2>1, <2>2 DEF DoneInv
<1>12. KeyInv'
  <2>1. ASSUME NEW t \in 1..Len(task'), NEW u \in 1..Len(task'), task'[t].key = task'[u].key,
               t < u
        PROVE  task'[t].calls > 0 /\ DueOf(queue', requests', t) = {}
    <3>1. t \in 1..Len(task) /\ task'[t] = task[t] BY <1>2, <1>5, <2>1
    <3>2. CASE u \in 1..Len(task) BY <1>5, <1>7, <2>1, <3>1, <3>2 DEF IInv, KeyInv
    <3>3. CASE u = n
      <4>1. task[t].key = k /\ task[t].calls > 0
        BY <1>1, <1>2, <1>3, <1>5, <2>1, <3>1, <3>3 DEF Drained
      <4>2. ASSUME NEW o \in Nat, [task |-> t, offset |-> o] \in requests PROVE FALSE
        BY <1>1, <4>1, <4>2 DEF Drained
      <4>3. ASSUME NEW o \in Nat, NEW i \in 1..Len(queue), IsAnswer(queue, i, t, o) PROVE FALSE
        <5>1. queue[i].op = "chunk" /\ queue[i].task = t BY <4>3 DEF IsAnswer
        <5>2. queue[i].key = k BY <4>1, <5>1 DEF IInv, AnswerInv
        <5> QED BY <1>1, <1>2, <5>1, <5>2 DEF Drained
      <4>4. Due(t) = {} BY <4>2, <4>3 DEF Due, DueOf
      <4> QED BY <1>7, <3>1, <4>1, <4>4
    <3> QED BY <1>5, <2>1, <3>2, <3>3
  <2>2. ASSUME NEW j \in Key, downloads'[j] # 0
        PROVE  task'[downloads'[j]].key = j /\ task'[downloads'[j]].pc # "queued"
    <3>1. downloads[j] \in 1..Len(task) BY <1>1, <1>2, <2>2 DEF IInv, TypeOK
    <3> QED BY <1>1, <1>5, <2>2, <3>1 DEF IInv, KeyInv
  <2> QED BY <2>1, <2>2 DEF KeyInv, Due
<1>13. FlightInv'
  <2> SUFFICES ASSUME NEW j \in Key, downloads'[j] # 0, task'[downloads'[j]].pc = "running"
               PROVE  Balanced(task'[downloads'[j]], DueOf(queue', requests', downloads'[j]))
    BY DEF FlightInv, Due
  <2>1. downloads[j] \in 1..Len(task) BY <1>1, <1>2 DEF IInv, TypeOK
  <2>2. task'[downloads'[j]] = task[downloads[j]] BY <1>1, <1>5, <2>1
  <2>3. Balanced(task[downloads[j]], Due(downloads[j])) BY <1>1, <2>2 DEF IInv, FlightInv
  <2> QED BY <1>1, <1>7, <2>2, <2>3
<1>14. SuccessComplete' BY <1>2, <1>3, <1>5 DEF IInv, SuccessComplete
<1>15. ShapeInv' BY <1>1, <1>5, <1>6 DEF IInv, ShapeInv
<1> QED BY <1>8, <1>9, <1>10, <1>11, <1>12, <1>13, <1>14, <1>15 DEF IInv

\* The parent's answer takes the place of its request.
LEMMA AnswerStep ==
  ASSUME IInv, NEW r \in requests, NEW data \in {"none", "whole"}, ParentAnswers(r, data)
  PROVE  IInv'
<1> DEFINE e == [op |-> "chunk", key |-> task[r.task].key, offset |-> r.offset,
                 data |-> data, task |-> r.task]
<1>1. /\ requests' = requests \ {r} /\ queue' = Append(queue, e)
      /\ UNCHANGED <<activeTransferID, mainQueue, announcements, downloads, task, published>>
  BY DEF ParentAnswers, Answer
<1>2. /\ task \in Seq(TaskRec) /\ Len(task) \in Nat /\ DOMAIN task = 1..Len(task)
      /\ queue \in Seq(QueueItem) /\ Len(queue) \in Nat
  BY LenProperties DEF IInv, ShapeInv
<1>3. r.task \in 1..Len(task) /\ r.offset \in Nat /\ r = [task |-> r.task, offset |-> r.offset]
  BY <1>2 DEF IInv, TypeOK
<1>4. task[r.task].key \in Key BY <1>2, <1>3 DEF IInv, TypeOK
<1>5. /\ e \in QueueItem /\ e.op = "chunk" /\ e.task = r.task /\ e.offset = r.offset
      /\ e.key = task[r.task].key
  BY <1>2, <1>3, <1>4 DEF QueueItem
<1> HIDE DEF e
<1>6. /\ queue' \in Seq(QueueItem) /\ Len(queue') = Len(queue) + 1
      /\ queue'[Len(queue) + 1] = e /\ Len(queue) + 1 \in 1..Len(queue')
      /\ \A i \in 1..Len(queue) : i \in 1..Len(queue') /\ queue'[i] = queue[i]
      /\ \A i \in 1..Len(queue') :
           (i \in 1..Len(queue) /\ queue'[i] = queue[i]) \/ (i = Len(queue) + 1 /\ queue'[i] = e)
  BY <1>1, <1>2, <1>5, Appended
<1>7. \A t : DueOf(queue', requests', t) = Due(t)
  <2> TAKE t
  <2>1. ASSUME NEW o \in Nat, NEW i \in 1..Len(queue'), IsAnswer(queue', i, t, o)
        PROVE  o \in Due(t)
    <3>1. CASE i \in 1..Len(queue) /\ queue'[i] = queue[i]
      BY <2>1, <3>1 DEF Due, DueOf, IsAnswer
    <3>2. CASE queue'[i] = e
      <4>1. [task |-> t, offset |-> o] \in requests BY <1>3, <1>5, <2>1, <3>2 DEF IsAnswer
      <4> QED BY <4>1 DEF Due, DueOf
    <3> QED BY <1>6, <3>1, <3>2
  <2>2. ASSUME NEW o \in Nat, [task |-> t, offset |-> o] \in requests
        PROVE  o \in DueOf(queue', requests', t)
    <3>1. CASE [task |-> t, offset |-> o] = r
      <4>1. IsAnswer(queue', Len(queue) + 1, t, o) BY <1>5, <1>6, <3>1 DEF IsAnswer
      <4> QED BY <1>6, <4>1 DEF DueOf
    <3>2. CASE [task |-> t, offset |-> o] # r BY <1>1, <2>2, <3>2 DEF DueOf
    <3> QED BY <3>1, <3>2
  <2>3. ASSUME NEW o \in Nat, NEW i \in 1..Len(queue), IsAnswer(queue, i, t, o)
        PROVE  o \in DueOf(queue', requests', t)
    BY <1>6, <2>3 DEF DueOf, IsAnswer
  <2>4. ASSUME NEW o \in Nat, [task |-> t, offset |-> o] \in requests' PROVE o \in Due(t)
    BY <1>1, <2>4 DEF Due, DueOf
  <2>5. Due(t) \subseteq DueOf(queue', requests', t) BY <2>2, <2>3 DEF Due, DueOf
  <2>6. DueOf(queue', requests', t) \subseteq Due(t) BY <2>1, <2>4 DEF DueOf
  <2> QED BY <2>5, <2>6
<1>8. TypeOK' BY <1>1 DEF IInv, TypeOK
<1>9. StartInv'
  <2>1. ASSUME NEW i \in 1..Len(queue'), queue'[i].op = "start"
        PROVE  i \in 1..Len(queue) /\ queue'[i] = queue[i]
    BY <1>5, <1>6, <2>1
  <2> QED BY <1>1, <2>1 DEF IInv, StartInv
<1>10. AnswerInv'
  <2>1. ASSUME NEW i \in 1..Len(queue'), queue'[i].op = "chunk"
        PROVE  /\ queue'[i].task \in 1..Len(task')
               /\ queue'[i].key = task'[queue'[i].task].key
               /\ queue'[i].offset < task'[queue'[i].task].nextRequestOffset
               /\ [task |-> queue'[i].task, offset |-> queue'[i].offset] \notin requests'
    <3>1. CASE i \in 1..Len(queue) /\ queue'[i] = queue[i]
      BY <1>1, <2>1, <3>1 DEF IInv, AnswerInv
    <3>2. CASE queue'[i] = e BY <1>1, <1>3, <1>5, <3>2 DEF IInv, AnswerInv
    <3> QED BY <1>6, <3>1, <3>2
  <2>2. ASSUME NEW i \in 1..Len(queue), queue[i].op = "chunk"
        PROVE  ~(queue[i].task = r.task /\ queue[i].offset = r.offset)
    BY <1>3, <2>2 DEF IInv, AnswerInv
  <2>3. ASSUME NEW i \in 1..Len(queue'), NEW j \in 1..Len(queue'), queue'[i].op = "chunk",
               IsAnswer(queue', j, queue'[i].task, queue'[i].offset)
        PROVE  i = j
    <3>1. queue'[j].op = "chunk" /\ queue'[j].task = queue'[i].task
          /\ queue'[j].offset = queue'[i].offset
      BY <2>3 DEF IsAnswer
    <3>2. CASE i \in 1..Len(queue) /\ queue'[i] = queue[i] /\ j \in 1..Len(queue)
               /\ queue'[j] = queue[j]
      <4>1. IsAnswer(queue, j, queue[i].task, queue[i].offset) BY <3>1, <3>2 DEF IsAnswer
      <4> QED BY <2>3, <3>2, <4>1 DEF IInv, AnswerInv
    <3>3. CASE i = Len(queue) + 1 /\ queue'[i] = e BY <1>5, <1>6, <2>2, <3>1, <3>3
    <3>4. CASE j = Len(queue) + 1 /\ queue'[j] = e BY <1>5, <1>6, <2>2, <2>3, <3>1, <3>4
    <3> QED BY <1>6, <3>2, <3>3, <3>4
  <2>4. \A q \in requests' : q.offset < task'[q.task].nextRequestOffset
    BY <1>1 DEF IInv, AnswerInv
  <2> QED BY <2>1, <2>3, <2>4 DEF AnswerInv
<1>11. DoneInv' BY <1>1 DEF IInv, DoneInv
<1>12. KeyInv'
  <2>1. \A t : Due(t)' = Due(t) BY <1>7 DEF Due
  <2> QED BY <1>1, <2>1 DEF IInv, KeyInv
<1>13. FlightInv'
  <2> SUFFICES ASSUME NEW j \in Key, downloads'[j] # 0, task'[downloads'[j]].pc = "running"
               PROVE  Balanced(task'[downloads'[j]], DueOf(queue', requests', downloads'[j]))
    BY DEF FlightInv, Due
  <2>1. Balanced(task[downloads[j]], Due(downloads[j])) BY <1>1 DEF IInv, FlightInv
  <2> QED BY <1>1, <1>7, <2>1
<1>14. SuccessComplete' BY <1>1 DEF IInv, SuccessComplete
<1>15. ShapeInv' BY <1>1, <1>6 DEF IInv, ShapeInv
<1> QED BY <1>8, <1>9, <1>10, <1>11, <1>12, <1>13, <1>14, <1>15 DEF IInv

\* A start or an answer is taken off the queue: the starts and answers left,
\* and what is still due to the tasks it was not for.
LEMMA WorkTaken ==
  ASSUME IInv, queue # <<>>, queue' = Tail(queue), Head(queue).op \in {"start", "chunk"},
         NEW reqs
  PROVE  /\ Head(queue) \in QueueItem /\ queue' \in Seq(QueueItem)
         /\ Head(queue) = queue[1] /\ 1 \in 1..Len(queue)
         /\ \A i \in 1..Len(queue') : i + 1 \in 1..Len(queue) /\ queue'[i] = queue[i + 1]
         /\ \A t : Head(queue).task # t => DueOf(queue', reqs, t) = DueOf(queue, reqs, t)
         /\ \A t : Head(queue).op = "start" => DueOf(queue', reqs, t) = DueOf(queue, reqs, t)
         /\ \A t : DueOf(queue', reqs, t) \subseteq DueOf(queue, reqs, t)
<1>1. queue \in Seq(QueueItem) BY DEF IInv, ShapeInv
<1>2. /\ Head(queue) \in QueueItem /\ queue' \in Seq(QueueItem)
      /\ Head(queue) = queue[1] /\ 1 \in 1..Len(queue)
      /\ \A i \in 1..Len(queue') : i + 1 \in 1..Len(queue) /\ queue'[i] = queue[i + 1]
      /\ \A i \in 1..Len(queue) :
           i = 1 \/ (i - 1 \in 1..Len(queue') /\ queue'[i - 1] = queue[i])
  BY <1>1, Taken
<1>3. ASSUME NEW t, NEW o \in Nat, NEW i \in 1..Len(queue'), IsAnswer(queue', i, t, o)
      PROVE  \E j \in 1..Len(queue) : IsAnswer(queue, j, t, o)
  BY <1>2, <1>3 DEF IsAnswer
<1>4. ASSUME NEW t, NEW o \in Nat, NEW i \in 1..Len(queue), IsAnswer(queue, i, t, o),
             Head(queue).task # t \/ Head(queue).op = "start"
      PROVE  \E j \in 1..Len(queue') : IsAnswer(queue', j, t, o)
  <2>1. i # 1 BY <1>2, <1>4 DEF IsAnswer
  <2>2. i - 1 \in 1..Len(queue') /\ queue'[i - 1] = queue[i] BY <1>2, <2>1
  <2> QED BY <1>4, <2>2 DEF IsAnswer
<1>5. \A t : DueOf(queue', reqs, t) \subseteq DueOf(queue, reqs, t) BY <1>3 DEF DueOf
<1>6. \A t : Head(queue).task # t \/ Head(queue).op = "start"
               => DueOf(queue', reqs, t) = DueOf(queue, reqs, t)
  BY <1>3, <1>4 DEF DueOf
<1> QED BY <1>2, <1>5, <1>6

\* The requests of task t for the offsets from a up to b.
Asks(t, a, b) == {[task |-> t, offset |-> o] : o \in a..(b - 1)}

\* Task t, unfinished, handles the block made for it, and has become s: it may
\* have asked for more, and may have ended.
LEMMA TaskStep ==
  ASSUME IInv, queue # <<>>, queue' = Tail(queue), Head(queue).op \in {"start", "chunk"},
         NEW t \in 1..Len(task), Head(queue).task = t, task[t].pc # "finished",
         task[t].pc = "queued" => Head(queue).op = "start",
         NEW s \in TaskRec, task' = [task EXCEPT ![t] = s],
         s.key = task[t].key, s.calls = task[t].calls, s.pc # "queued",
         task[t].nextRequestOffset <= s.nextRequestOffset,
         s.nextRequestOffset <= Size[s.key], s.inFlight <= kPipelineDepth,
         s.disk \subseteq 0..(s.nextRequestOffset - 1),
         s.ok => s.pc = "finished" /\ s.disk = 0..(Size[s.key] - 1),
         requests' = requests \cup Asks(t, task[t].nextRequestOffset, s.nextRequestOffset),
         downloads' = [downloads EXCEPT ![s.key] = t],
         \/ mainQueue' = mainQueue
         \/ mainQueue' = Append(mainQueue, [op |-> "completion", task |-> t])
            /\ s.pc = "finished",
         s.pc = "running" => Balanced(s, DueOf(queue', requests', t)),
         UNCHANGED <<activeTransferID, announcements, published>>
  PROVE  IInv'
<1>1. /\ task \in Seq(TaskRec) /\ Len(task) \in Nat /\ DOMAIN task = 1..Len(task)
      /\ \A u \in 1..Len(task) : task[u] \in TaskRec
  BY ElementOfSeq, LenProperties DEF IInv, ShapeInv
<1>2. /\ task' \in Seq(TaskRec) /\ Len(task') = Len(task) /\ DOMAIN task' = 1..Len(task)
      /\ \A u \in 1..Len(task) : task'[u] = IF u = t THEN s ELSE task[u]
  BY <1>1
<1>3. /\ Head(queue) \in QueueItem /\ queue' \in Seq(QueueItem)
      /\ Head(queue) = queue[1] /\ 1 \in 1..Len(queue)
      /\ \A i \in 1..Len(queue') : i + 1 \in 1..Len(queue) /\ queue'[i] = queue[i + 1]
      /\ \A u : u # t => DueOf(queue', requests', u) = DueOf(queue, requests', u)
  BY WorkTaken
<1>4. ASSUME NEW u, u # t PROVE DueOf(queue', requests', u) = Due(u)
  <2>1. \A o \in Nat : [task |-> u, offset |-> o] \in requests'
                         <=> [task |-> u, offset |-> o] \in requests
    <3> TAKE o \in Nat
    <3>1. [task |-> u, offset |-> o].task = u OBVIOUS
    <3>2. \A q \in Asks(t, task[t].nextRequestOffset, s.nextRequestOffset) : q.task = t
      BY DEF Asks
    <3> QED BY <1>4, <3>1, <3>2
  <2>2. DueOf(queue, requests', u) = DueOf(queue, requests, u) BY <2>1 DEF DueOf
  <2> QED BY <1>3, <1>4, <2>2 DEF Due
<1>5. s.key \in Key /\ s.nextRequestOffset \in Nat /\ s.inFlight \in Nat BY DEF TaskRec
<1>6. task[t].nextRequestOffset \in Nat BY <1>1 DEF TaskRec
<1>7. task[t].calls = 0 /\ task[t].ok = FALSE
  <2>1. task[t].calls \in Nat /\ task[t].ok \in BOOLEAN BY <1>1 DEF TaskRec
  <2> QED BY <2>1 DEF IInv, DoneInv
<1>8. TypeOK'
  <2>1. downloads' \in [Key -> 0..Len(task')] BY <1>1, <1>2, <1>5 DEF IInv, TypeOK
  <2>2. requests' \subseteq [task : DOMAIN task', offset : Nat]
    <3>1. requests \subseteq [task : 1..Len(task), offset : Nat] BY <1>1 DEF IInv, TypeOK
    <3>2. Asks(t, task[t].nextRequestOffset, s.nextRequestOffset)
            \subseteq [task : 1..Len(task), offset : Nat]
      BY <1>5, <1>6 DEF Asks
    <3> QED BY <1>2, <3>1, <3>2
  <2>3. ASSUME NEW u \in DOMAIN task'
        PROVE  /\ task'[u].key \in Key /\ task'[u].pc \in {"queued", "running", "finished"}
               /\ task'[u].inFlight \in 0..kPipelineDepth
               /\ task'[u].nextRequestOffset \in 0..Size[task'[u].key]
               /\ task'[u].disk \subseteq 0..(task'[u].nextRequestOffset - 1)
    <3>1. CASE u = t
      <4>1. task'[u] = s BY <1>2, <3>1
      <4>2. kPipelineDepth \in Nat /\ Size[s.key] \in Nat BY <1>5, TransferAssumption
      <4>3. s.pc \in {"queued", "running", "finished"} BY DEF TaskRec
      <4> QED BY <1>5, <4>1, <4>2, <4>3
    <3>2. CASE u # t BY <1>1, <1>2, <3>2 DEF IInv, TypeOK
    <3> QED BY <3>1, <3>2
  <2>4. Len(task') <= MaxPaste BY <1>2 DEF IInv, TypeOK
  <2> QED BY <2>1, <2>2, <2>3, <2>4 DEF IInv, TypeOK
<1>9. StartInv'
  <2>1. ASSUME NEW i \in 1..Len(queue'), queue'[i].op = "start"
        PROVE  /\ queue'[i].task \in 1..Len(task') /\ task'[queue'[i].task].pc = "queued"
    <3>1. i + 1 \in 1..Len(queue) /\ queue'[i] = queue[i + 1] BY <1>3
    <3>2. queue'[i].task \in 1..Len(task) /\ task[queue'[i].task].pc = "queued"
      BY <2>1, <3>1 DEF IInv, StartInv
    <3>3. queue'[i].task # t
      <4>1. SUFFICES ASSUME queue'[i].task = t PROVE FALSE OBVIOUS
      <4>2. queue[1].op = "start" /\ queue[1].task = t BY <1>3, <3>2, <4>1
      <4>3. i + 1 = 1 BY <1>3, <2>1, <3>1, <4>1, <4>2 DEF IInv, StartInv
      <4> QED BY <4>3
    <3> QED BY <1>2, <3>2, <3>3
  <2>2. ASSUME NEW i \in 1..Len(queue'), NEW j \in 1..Len(queue'), queue'[i].op = "start",
               queue'[j].op = "start", queue'[i].task = queue'[j].task
        PROVE  i = j
    <3>1. i + 1 = j + 1 BY <1>3, <2>2 DEF IInv, StartInv
    <3> QED BY <3>1
  <2>3. ASSUME NEW u \in 1..Len(task'), task'[u].pc = "queued"
        PROVE  task'[u].nextRequestOffset = 0 /\ task'[u].inFlight = 0 /\ task'[u].disk = {}
    BY <1>2, <2>3 DEF IInv, StartInv
  <2> QED BY <2>1, <2>2, <2>3 DEF StartInv
<1>10. AnswerInv'
  <2>1. ASSUME NEW i \in 1..Len(queue'), queue'[i].op = "chunk"
        PROVE  /\ queue'[i].task \in 1..Len(task')
               /\ queue'[i].key = task'[queue'[i].task].key
               /\ queue'[i].offset < task'[queue'[i].task].nextRequestOffset
               /\ [task |-> queue'[i].task, offset |-> queue'[i].offset] \notin requests'
    <3> DEFINE c == queue'[i]
    <3>1. i + 1 \in 1..Len(queue) /\ c = queue[i + 1] BY <1>3
    <3>2. /\ c.task \in 1..Len(task) /\ c.key = task[c.task].key
          /\ c.offset < task[c.task].nextRequestOffset
          /\ [task |-> c.task, offset |-> c.offset] \notin requests
      BY <2>1, <3>1 DEF IInv, AnswerInv
    <3>3. c.offset \in Nat
      <4>1. c \in QueueItem BY <1>3, ElementOfSeq
      <4> QED BY <2>1, <4>1 DEF QueueItem
    <3> HIDE DEF c
    <3>4. ASSUME [task |-> c.task, offset |-> c.offset]
                   \in Asks(t, task[t].nextRequestOffset, s.nextRequestOffset)
          PROVE  FALSE
      <4>1. PICK o \in task[t].nextRequestOffset..(s.nextRequestOffset - 1) :
              [task |-> c.task, offset |-> c.offset] = [task |-> t, offset |-> o]
        BY <3>4 DEF Asks
      <4>2. c.task = t /\ c.offset = o BY <4>1
      <4> QED BY <1>5, <1>6, <3>2, <3>3, <4>2
    <3>5. c.offset < task'[c.task].nextRequestOffset /\ c.key = task'[c.task].key
      <4>1. CASE c.task = t BY <1>2, <1>5, <1>6, <3>2, <3>3, <4>1
      <4>2. CASE c.task # t BY <1>2, <3>2, <4>2
      <4> QED BY <4>1, <4>2
    <3> QED BY <1>2, <3>2, <3>4, <3>5 DEF c
  <2>2. ASSUME NEW i \in 1..Len(queue'), NEW j \in 1..Len(queue'), queue'[i].op = "chunk",
               IsAnswer(queue', j, queue'[i].task, queue'[i].offset)
        PROVE  i = j
    <3>1. /\ i + 1 \in 1..Len(queue) /\ queue'[i] = queue[i + 1]
          /\ j + 1 \in 1..Len(queue) /\ queue'[j] = queue[j + 1]
      BY <1>3
    <3>2. IsAnswer(queue, j + 1, queue[i + 1].task, queue[i + 1].offset)
      BY <2>2, <3>1 DEF IsAnswer
    <3>3. i + 1 = j + 1 BY <2>2, <3>1, <3>2 DEF IInv, AnswerInv
    <3> QED BY <3>3
  <2>3. ASSUME NEW q \in requests' PROVE q.offset < task'[q.task].nextRequestOffset
    <3>1. CASE q \in requests
      <4>1. q.task \in 1..Len(task) /\ q.offset \in Nat /\ q.offset < task[q.task].nextRequestOffset
        BY <1>1, <3>1 DEF IInv, TypeOK, AnswerInv
      <4> QED BY <1>2, <1>5, <1>6, <4>1
    <3>2. CASE q \in Asks(t, task[t].nextRequestOffset, s.nextRequestOffset)
      <4>1. PICK o \in task[t].nextRequestOffset..(s.nextRequestOffset - 1) :
              q = [task |-> t, offset |-> o]
        BY <3>2 DEF Asks
      <4> QED BY <1>2, <1>5, <1>6, <4>1
    <3> QED BY <3>1, <3>2
  <2> QED BY <2>1, <2>2, <2>3 DEF AnswerInv
<1>11. CompletionsDone'
  <2>1. \A u \in 1..Len(task) : task[u].pc = "finished" => task'[u].pc = "finished" BY <1>2
  <2>2. CASE mainQueue' = mainQueue BY <1>2, <2>1, <2>2 DEF IInv, ShapeInv, DoneInv, CompletionsDone
  <2>3. CASE mainQueue' = Append(mainQueue, [op |-> "completion", task |-> t])
             /\ s.pc = "finished"
    <3> DEFINE e == [op |-> "completion", task |-> t]
    <3>1. e \in MainItem /\ e.task = t BY <1>1 DEF MainItem
    <3>2. mainQueue' = Append(mainQueue, e) BY <2>3
    <3> HIDE DEF e
    <3>3. task'[e.task].pc = "finished" /\ e.task \in 1..Len(task) BY <1>2, <2>3, <3>1
    <3> QED BY <1>2, <2>1, <3>1, <3>2, <3>3, MainAppended
  <2> QED BY <2>2, <2>3
<1>12. DoneInv'
  <2>1. ASSUME NEW u \in 1..Len(task'), task'[u].calls > 0 \/ task'[u].ok
        PROVE  task'[u].pc = "finished"
    BY <1>2, <1>7, <2>1 DEF IInv, DoneInv
  <2> QED BY <1>11, <2>1 DEF DoneInv, CompletionsDone
<1>13. KeyInv'
  <2>1. ASSUME NEW u \in 1..Len(task'), NEW v \in 1..Len(task'), task'[u].key = task'[v].key,
               u < v
        PROVE  task'[u].calls > 0 /\ DueOf(queue', requests', u) = {}
    <3>1. task[u].key = task[v].key BY <1>2, <2>1
    <3>2. task[u].calls > 0 /\ Due(u) = {} BY <1>2, <2>1, <3>1 DEF IInv, KeyInv
    <3>3. u # t BY <1>7, <3>2
    <3> QED BY <1>2, <1>4, <2>1, <3>2, <3>3
  <2>2. ASSUME NEW k \in Key, downloads'[k] # 0
        PROVE  task'[downloads'[k]].key = k /\ task'[downloads'[k]].pc # "queued"
    <3>1. CASE k = s.key
      <4>1. downloads'[k] = t BY <3>1 DEF IInv, TypeOK
      <4> QED BY <1>2, <3>1, <4>1
    <3>2. CASE k # s.key
      <4>1. downloads'[k] = downloads[k] BY <3>2 DEF IInv, TypeOK
      <4>2. /\ downloads[k] \in 1..Len(task) /\ task[downloads[k]].key = k
            /\ task[downloads[k]].pc # "queued"
        BY <1>1, <2>2, <4>1 DEF IInv, TypeOK, KeyInv
      <4> QED BY <1>2, <3>2, <4>1, <4>2
    <3> QED BY <3>1, <3>2
  <2> QED BY <2>1, <2>2 DEF KeyInv, Due
<1>14. FlightInv'
  <2> SUFFICES ASSUME NEW k \in Key, downloads'[k] # 0, task'[downloads'[k]].pc = "running"
               PROVE  Balanced(task'[downloads'[k]], DueOf(queue', requests', downloads'[k]))
    BY DEF FlightInv, Due
  <2>1. CASE k = s.key
    <3>1. downloads'[k] = t BY <2>1 DEF IInv, TypeOK
    <3> QED BY <1>2, <3>1
  <2>2. CASE k # s.key
    <3>1. downloads'[k] = downloads[k] BY <2>2 DEF IInv, TypeOK
    <3>2. downloads[k] \in 1..Len(task) /\ task[downloads[k]].key = k
      BY <1>1, <3>1 DEF IInv, TypeOK, KeyInv
    <3>3. downloads[k] # t /\ task'[downloads[k]] = task[downloads[k]] BY <1>2, <2>2, <3>2
    <3>4. Balanced(task[downloads[k]], Due(downloads[k])) BY <3>1, <3>3 DEF IInv, FlightInv
    <3> QED BY <1>4, <3>1, <3>3, <3>4
  <2> QED BY <2>1, <2>2
<1>15. SuccessComplete' BY <1>1, <1>2 DEF IInv, SuccessComplete
<1>16. ShapeInv' BY <1>2, <1>3, <1>11 DEF ShapeInv, CompletionsDone
<1> QED BY <1>8, <1>9, <1>10, <1>12, <1>13, <1>14, <1>15, <1>16 DEF IInv

\* primeRequests keeps the balance and the limits.
LEMMA Primed ==
  ASSUME NEW r \in TaskRec, NEW due, Balanced(r, due),
         r.nextRequestOffset <= Size[r.key], r.inFlight <= kPipelineDepth
  PROVE  LET n == PrimeCount(r)
             s == [r EXCEPT !.nextRequestOffset = @ + n, !.inFlight = @ + n] IN
         /\ n \in Nat /\ s \in TaskRec
         /\ s.nextRequestOffset = r.nextRequestOffset + n /\ s.inFlight = r.inFlight + n
         /\ s.key = r.key /\ s.pc = r.pc /\ s.disk = r.disk /\ s.ok = r.ok /\ s.calls = r.calls
         /\ s.nextRequestOffset <= Size[s.key] /\ s.inFlight <= kPipelineDepth
         /\ Balanced(s, due \cup (r.nextRequestOffset..(s.nextRequestOffset - 1)))
<1> DEFINE n == PrimeCount(r)
           s == [r EXCEPT !.nextRequestOffset = @ + n, !.inFlight = @ + n]
           a == r.nextRequestOffset
           more == a..(a + n - 1)
<1>1. /\ r.nextRequestOffset \in Nat /\ r.inFlight \in Nat /\ r.key \in Key
      /\ Size[r.key] \in Nat /\ kPipelineDepth \in Nat
  BY TransferAssumption DEF TaskRec
<1>2. n \in Nat /\ a + n <= Size[r.key] /\ r.inFlight + n <= kPipelineDepth
  BY <1>1 DEF PrimeCount
<1> HIDE DEF n
<1>3. s \in TaskRec
  <2>1. a + n \in Nat /\ r.inFlight + n \in Nat BY <1>1, <1>2
  <2> QED BY <2>1 DEF TaskRec
<1>4. /\ s.nextRequestOffset = a + n /\ s.inFlight = r.inFlight + n
      /\ s.key = r.key /\ s.pc = r.pc /\ s.disk = r.disk /\ s.ok = r.ok /\ s.calls = r.calls
  BY DEF TaskRec
<1>5. /\ r.disk \cup due = 0..(a - 1) /\ IsFiniteSet(due) /\ Cardinality(due) = r.inFlight
  BY DEF Balanced
<1> HIDE DEF s, a
<1>6. IsFiniteSet(more) /\ Cardinality(more) = n
  <2> DEFINE b == a + n - 1
  <2>1. a \in Int /\ b \in Int BY <1>1, <1>2 DEF a
  <2>2. IsFiniteSet(a..b) /\ Cardinality(a..b) = IF a > b THEN 0 ELSE b - a + 1
    <3> HIDE DEF b
    <3> QED BY <2>1, FS_Interval
  <2> QED BY <1>2, <2>1, <2>2
<1>7. /\ IsFiniteSet(due \cup more) /\ Cardinality(due \cup more) = r.inFlight + n
  <2>1. due \cap more = {} BY <1>1, <1>2, <1>5 DEF a
  <2> HIDE DEF more
  <2>2. Cardinality({}) = 0 BY FS_EmptySet
  <2>3. /\ IsFiniteSet(due \cup more)
        /\ Cardinality(due \cup more)
             = Cardinality(due) + Cardinality(more) - Cardinality(due \cap more)
    BY <1>5, <1>6, FS_Union
  <2>4. Cardinality(due \cap more) = 0 BY <2>1, <2>2
  <2>5. Cardinality(due \cup more) = r.inFlight + n - 0 BY <1>5, <1>6, <2>3, <2>4
  <2> QED BY <1>1, <1>2, <2>3, <2>5
<1>8. r.disk \cup (due \cup more) = 0..(a + n - 1)
  <2>1. (0..(a - 1)) \cup more = 0..(a + n - 1) BY <1>1, <1>2 DEF a
  <2> HIDE DEF more
  <2> QED BY <1>5, <2>1
<1>9. s.nextRequestOffset - 1 = a + n - 1 BY <1>1, <1>2, <1>4 DEF a
<1>10. more = a..(s.nextRequestOffset - 1) /\ Balanced(s, due \cup more)
  <2>1. more = a..(s.nextRequestOffset - 1) BY <1>9
  <2> HIDE DEF more
  <2>2. s.disk \cup (due \cup more) = 0..(s.nextRequestOffset - 1) BY <1>4, <1>8, <1>9
  <2>3. IsFiniteSet(due \cup more) /\ Cardinality(due \cup more) = s.inFlight BY <1>4, <1>7
  <2> QED BY <2>1, <2>2, <2>3 DEF Balanced
<1>11. s.nextRequestOffset <= Size[s.key] /\ s.inFlight <= kPipelineDepth BY <1>2, <1>4 DEF a
<1> HIDE DEF more
<1> QED BY <1>2, <1>3, <1>4, <1>10, <1>11 DEF n, s, a

\* What is due once task t has asked for the offsets from a up to b.
LEMMA DueAsked ==
  ASSUME NEW q, NEW reqs, NEW t, NEW a \in Nat, NEW b \in Nat
  PROVE  DueOf(q, reqs \cup Asks(t, a, b), t) = DueOf(q, reqs, t) \cup a..(b - 1)
<1>1. \A o \in Nat : [task |-> t, offset |-> o] \in Asks(t, a, b) <=> o \in a..(b - 1)
  BY DEF Asks
<1>2. a..(b - 1) \subseteq Nat OBVIOUS
<1> QED BY <1>1, <1>2 DEF DueOf

\* Asking for nothing.
LEMMA NoAsks ==
  ASSUME NEW t, NEW a \in Nat
  PROVE  Asks(t, a, a) = {}
<1>1. a..(a - 1) = {} OBVIOUS
<1> QED BY <1>1 DEF Asks

\* A task is started: it asks for its first chunks, or ends at once.
LEMMA StartStep == ASSUME IInv, Start PROVE IInv'
<1> DEFINE t == Head(queue).task
           k == task[t].key
<1>1. /\ queue # <<>> /\ Head(queue).op = "start" /\ queue' = Tail(queue)
      /\ downloads' = [downloads EXCEPT ![k] = t]
      /\ \/ /\ Size[k] > 0 /\ PrimeRequests(t, [task[t] EXCEPT !.pc = "running"])
            /\ UNCHANGED mainQueue
         \/ /\ task' = [task EXCEPT ![t] = FinishedAs(@, Size[k] = 0)]
            /\ mainQueue' = Hop(t) /\ UNCHANGED requests
      /\ UNCHANGED <<activeTransferID, announcements, published>>
  BY DEF Start, QueueNext
<1>2. /\ Head(queue) = queue[1] /\ 1 \in 1..Len(queue)
      /\ DueOf(queue', requests, t) = DueOf(queue, requests, t)
  BY <1>1, WorkTaken
<1>3. t \in 1..Len(task) /\ task[t].pc = "queued" BY <1>1, <1>2 DEF IInv, StartInv
<1>4. task[t] \in TaskRec /\ task \in Seq(TaskRec) BY <1>3, ElementOfSeq DEF IInv, ShapeInv
<1>5. /\ task[t].nextRequestOffset = 0 /\ task[t].inFlight = 0 /\ task[t].disk = {}
  BY <1>3 DEF IInv, StartInv
<1>6. k \in Key /\ Size[k] \in Nat /\ kPipelineDepth \in Nat
  BY <1>4, TransferAssumption DEF TaskRec
<1>7. task[t].calls \in Nat /\ task[t].ok \in BOOLEAN /\ task[t].ok = FALSE
  BY <1>3, <1>4 DEF TaskRec, IInv, DoneInv
<1>8. Due(t) = {}
  <2>1. ASSUME NEW o \in Nat, [task |-> t, offset |-> o] \in requests PROVE FALSE
    BY <1>5, <2>1 DEF IInv, AnswerInv
  <2>2. ASSUME NEW o \in Nat, NEW i \in 1..Len(queue), IsAnswer(queue, i, t, o) PROVE FALSE
    <3>1. queue[i].op = "chunk" /\ queue[i].task = t /\ queue[i].offset = o
      BY <2>2 DEF IsAnswer
    <3>2. o < 0 BY <1>5, <3>1 DEF IInv, AnswerInv
    <3> QED BY <3>2
  <2> QED BY <2>1, <2>2 DEF Due, DueOf
<1>9. CASE /\ Size[k] > 0 /\ PrimeRequests(t, [task[t] EXCEPT !.pc = "running"])
           /\ UNCHANGED mainQueue
  <2> DEFINE r == [task[t] EXCEPT !.pc = "running"]
             n == PrimeCount(r)
             s == [r EXCEPT !.nextRequestOffset = @ + n, !.inFlight = @ + n]
  <2>1. /\ r \in TaskRec /\ r.key = k /\ r.pc = "running" /\ r.nextRequestOffset = 0
        /\ r.inFlight = 0 /\ r.disk = {} /\ r.ok = FALSE /\ r.calls = task[t].calls
    BY <1>4, <1>5, <1>7 DEF TaskRec
  <2>2. /\ task' = [task EXCEPT ![t] = s]
        /\ requests' = requests \cup
             {[task |-> t, offset |-> o] :
                o \in r.nextRequestOffset..(r.nextRequestOffset + n - 1)}
    BY <1>9 DEF PrimeRequests
  <2> HIDE DEF r
  <2>3. Balanced(r, {})
    <3>1. IsFiniteSet({}) /\ Cardinality({}) = 0 BY FS_EmptySet
    <3>2. {} \cup {} = 0..(0 - 1) OBVIOUS
    <3> QED BY <2>1, <3>1, <3>2 DEF Balanced
  <2>4. /\ n \in Nat /\ s \in TaskRec
        /\ s.nextRequestOffset = r.nextRequestOffset + n /\ s.inFlight = r.inFlight + n
        /\ s.key = r.key /\ s.pc = r.pc /\ s.disk = r.disk /\ s.ok = r.ok /\ s.calls = r.calls
        /\ s.nextRequestOffset <= Size[s.key] /\ s.inFlight <= kPipelineDepth
        /\ Balanced(s, {} \cup (r.nextRequestOffset..(s.nextRequestOffset - 1)))
    <3>1. r.nextRequestOffset <= Size[r.key] /\ r.inFlight <= kPipelineDepth BY <1>6, <2>1
    <3> QED BY <2>1, <2>3, <3>1, Primed
  <2> HIDE DEF n, s
  <2>5. s.nextRequestOffset \in Nat /\ 0 <= s.nextRequestOffset BY <2>4 DEF TaskRec
  <2>6. requests' = requests \cup Asks(t, 0, s.nextRequestOffset)
    BY <2>1, <2>2, <2>4 DEF Asks
  <2>7. DueOf(queue', requests', t) = {} \cup (0..(s.nextRequestOffset - 1))
    <3>1. DueOf(queue', requests, t) = {} BY <1>2, <1>8 DEF Due
    <3>2. DueOf(queue', requests \cup Asks(t, 0, s.nextRequestOffset), t)
            = DueOf(queue', requests, t) \cup 0..(s.nextRequestOffset - 1)
      BY <2>5, DueAsked
    <3> QED BY <2>6, <3>1, <3>2
  <2>8. Balanced(s, DueOf(queue', requests', t)) BY <2>1, <2>4, <2>7
  <2>9. s.disk \subseteq 0..(s.nextRequestOffset - 1) /\ s.ok = FALSE /\ s.pc = "running"
        /\ s.key = task[t].key /\ s.calls = task[t].calls
    BY <2>1, <2>4
  <2> QED BY <1>1, <1>3, <1>5, <1>9, <2>2, <2>4, <2>5, <2>6, <2>8, <2>9, TaskStep
<1>10. CASE /\ task' = [task EXCEPT ![t] = FinishedAs(@, Size[k] = 0)]
            /\ mainQueue' = Hop(t) /\ UNCHANGED requests
  <2> DEFINE s == FinishedAs(task[t], Size[k] = 0)
  <2>1. /\ s \in TaskRec /\ s.pc = "finished" /\ s.ok = (Size[k] = 0) /\ s.key = k
        /\ s.nextRequestOffset = 0 /\ s.inFlight = 0 /\ s.disk = {} /\ s.calls = task[t].calls
    BY <1>4, <1>5, EndedRec
  <2>2. task' = [task EXCEPT ![t] = s] BY <1>4, <1>10
  <2> HIDE DEF s
  <2>3. s.ok => s.pc = "finished" /\ s.disk = 0..(Size[s.key] - 1)
    <3>1. CASE Size[k] = 0
      <4>1. 0..(Size[s.key] - 1) = {} BY <2>1, <3>1
      <4> QED BY <2>1, <4>1
    <3>2. CASE Size[k] # 0 BY <2>1, <3>2
    <3> QED BY <3>1, <3>2
  <2>4. requests' = requests \cup Asks(t, task[t].nextRequestOffset, s.nextRequestOffset)
    BY <1>5, <1>10, <2>1, NoAsks
  <2>5. s.nextRequestOffset <= Size[s.key] /\ s.inFlight <= kPipelineDepth
        /\ task[t].nextRequestOffset <= s.nextRequestOffset
        /\ s.disk \subseteq 0..(s.nextRequestOffset - 1)
    BY <1>5, <1>6, <2>1
  <2>6. mainQueue' = Append(mainQueue, [op |-> "completion", task |-> t]) BY <1>10 DEF Hop
  <2> QED BY <1>1, <1>3, <2>1, <2>2, <2>3, <2>4, <2>5, <2>6, TaskStep
<1> QED BY <1>1, <1>9, <1>10

\* An answer for no task, or for a finished one, is dropped.
LEMMA ChunkDropped ==
  ASSUME IInv, queue # <<>>, Head(queue).op = "chunk", queue' = Tail(queue),
         downloads[Head(queue).key] # 0 => task[downloads[Head(queue).key]].pc = "finished",
         UNCHANGED <<activeTransferID, mainQueue, announcements, downloads, task, requests,
                     published>>
  PROVE  IInv'
<1> DEFINE c == Head(queue)
<1>1. /\ queue' \in Seq(QueueItem) /\ c = queue[1] /\ 1 \in 1..Len(queue)
      /\ \A i \in 1..Len(queue') : i + 1 \in 1..Len(queue) /\ queue'[i] = queue[i + 1]
      /\ \A t : c.task # t => DueOf(queue', requests, t) = DueOf(queue, requests, t)
      /\ \A t : DueOf(queue', requests, t) \subseteq DueOf(queue, requests, t)
  BY WorkTaken
<1>2. c.task \in 1..Len(task) /\ c.key = task[c.task].key BY <1>1 DEF IInv, AnswerInv
<1>3. Len(task) \in Nat BY LenProperties DEF IInv, ShapeInv
<1>4. TypeOK' BY DEF IInv, TypeOK
<1>5. StartInv'
  <2>1. ASSUME NEW i \in 1..Len(queue'), queue'[i].op = "start"
        PROVE  queue'[i].task \in 1..Len(task') /\ task'[queue'[i].task].pc = "queued"
    BY <1>1, <2>1 DEF IInv, StartInv
  <2>2. ASSUME NEW i \in 1..Len(queue'), NEW j \in 1..Len(queue'), queue'[i].op = "start",
               queue'[j].op = "start", queue'[i].task = queue'[j].task
        PROVE  i = j
    <3>1. i + 1 = j + 1 BY <1>1, <2>2 DEF IInv, StartInv
    <3> QED BY <3>1
  <2>3. \A t \in 1..Len(task') :
          task'[t].pc = "queued" =>
            task'[t].nextRequestOffset = 0 /\ task'[t].inFlight = 0 /\ task'[t].disk = {}
    BY DEF IInv, StartInv
  <2> QED BY <2>1, <2>2, <2>3 DEF StartInv
<1>6. AnswerInv'
  <2>1. ASSUME NEW i \in 1..Len(queue'), queue'[i].op = "chunk"
        PROVE  /\ queue'[i].task \in 1..Len(task')
               /\ queue'[i].key = task'[queue'[i].task].key
               /\ queue'[i].offset < task'[queue'[i].task].nextRequestOffset
               /\ [task |-> queue'[i].task, offset |-> queue'[i].offset] \notin requests'
    BY <1>1, <2>1 DEF IInv, AnswerInv
  <2>2. ASSUME NEW i \in 1..Len(queue'), NEW j \in 1..Len(queue'), queue'[i].op = "chunk",
               IsAnswer(queue', j, queue'[i].task, queue'[i].offset)
        PROVE  i = j
    <3>1. /\ i + 1 \in 1..Len(queue) /\ queue'[i] = queue[i + 1]
          /\ j + 1 \in 1..Len(queue) /\ queue'[j] = queue[j + 1]
      BY <1>1
    <3>2. IsAnswer(queue, j + 1, queue[i + 1].task, queue[i + 1].offset)
      BY <2>2, <3>1 DEF IsAnswer
    <3>3. i + 1 = j + 1 BY <2>2, <3>1, <3>2 DEF IInv, AnswerInv
    <3> QED BY <3>3
  <2>3. \A q \in requests' : q.offset < task'[q.task].nextRequestOffset BY DEF IInv, AnswerInv
  <2> QED BY <2>1, <2>2, <2>3 DEF AnswerInv
<1>7. DoneInv' BY DEF IInv, DoneInv
<1>8. KeyInv'
  <2>1. ASSUME NEW t \in 1..Len(task'), NEW u \in 1..Len(task'), task'[t].key = task'[u].key,
               t < u
        PROVE  task'[t].calls > 0 /\ DueOf(queue', requests', t) = {}
    <3>1. task[t].calls > 0 /\ DueOf(queue, requests, t) = {} BY <2>1 DEF IInv, KeyInv, Due
    <3> QED BY <1>1, <3>1
  <2>2. \A k \in Key : downloads'[k] # 0 => /\ task'[downloads'[k]].key = k
                                            /\ task'[downloads'[k]].pc # "queued"
    BY DEF IInv, KeyInv
  <2> QED BY <2>1, <2>2 DEF KeyInv, Due
<1>9. FlightInv'
  <2> SUFFICES ASSUME NEW k \in Key, downloads'[k] # 0, task'[downloads'[k]].pc = "running"
               PROVE  Balanced(task'[downloads'[k]], DueOf(queue', requests', downloads'[k]))
    BY DEF FlightInv, Due
  <2>1. task[downloads[k]].key = k /\ Balanced(task[downloads[k]], Due(downloads[k]))
    BY DEF IInv, KeyInv, FlightInv
  <2>2. k # c.key OBVIOUS
  <2>3. c.task # downloads[k] BY <1>2, <2>1, <2>2
  <2>4. DueOf(queue', requests, downloads[k]) = Due(downloads[k]) BY <1>1, <2>3 DEF Due
  <2> QED BY <2>1, <2>4
<1>10. SuccessComplete' BY DEF IInv, SuccessComplete
<1>11. ShapeInv' BY <1>1 DEF IInv, ShapeInv
<1> QED BY <1>4, <1>5, <1>6, <1>7, <1>8, <1>9, <1>10, <1>11 DEF IInv

\* One answer less is awaited, and its chunk is written.
AnswerTaken(p) == [p EXCEPT !.inFlight = IF @ > 0 THEN @ - 1 ELSE 0]
ChunkWritten(p, o) == [AnswerTaken(p) EXCEPT !.disk = @ \cup {o}]

\* The chunk at offset o is no longer due: the count of answers is one less,
\* and once the chunk is written the balance is kept.
LEMMA Answered ==
  ASSUME NEW p \in TaskRec, NEW due \in SUBSET Nat, Balanced(p, due), NEW o \in due
  PROVE  LET r == AnswerTaken(p)
             w == ChunkWritten(p, o) IN
         /\ r \in TaskRec /\ w \in TaskRec
         /\ r.key = p.key /\ r.pc = p.pc /\ r.nextRequestOffset = p.nextRequestOffset
         /\ r.disk = p.disk /\ r.ok = p.ok /\ r.calls = p.calls
         /\ r.inFlight <= p.inFlight /\ w.inFlight = r.inFlight
         /\ w.key = p.key /\ w.pc = p.pc /\ w.nextRequestOffset = p.nextRequestOffset
         /\ w.disk = p.disk \cup {o} /\ w.ok = p.ok /\ w.calls = p.calls
         /\ Balanced(w, due \ {o})
<1> DEFINE r == AnswerTaken(p)
           w == ChunkWritten(p, o)
           m == p.inFlight
<1>1. /\ p.disk \cup due = 0..(p.nextRequestOffset - 1) /\ IsFiniteSet(due)
      /\ Cardinality(due) = m
  BY DEF Balanced
<1>2. m \in Nat /\ p.disk \in SUBSET Nat BY DEF TaskRec
<1>3. IsFiniteSet(due \ {o}) /\ Cardinality(due \ {o}) = m - 1 BY <1>1, FS_RemoveElement
<1>4. m - 1 \in Nat
  <2>1. Cardinality(due \ {o}) \in Nat BY <1>3, FS_CardinalityType
  <2> QED BY <1>3, <2>1
<1>5. (IF p.inFlight > 0 THEN p.inFlight - 1 ELSE 0) = m - 1 BY <1>2, <1>4
<1>6. /\ r \in TaskRec /\ r.key = p.key /\ r.pc = p.pc
      /\ r.nextRequestOffset = p.nextRequestOffset
      /\ r.disk = p.disk /\ r.ok = p.ok /\ r.calls = p.calls /\ r.inFlight = m - 1
  BY <1>4, <1>5 DEF AnswerTaken, TaskRec
<1> HIDE DEF r
<1>7. p.disk \cup {o} \in SUBSET Nat BY <1>2
<1>8. /\ w \in TaskRec /\ w.key = p.key /\ w.pc = p.pc
      /\ w.nextRequestOffset = p.nextRequestOffset
      /\ w.disk = p.disk \cup {o} /\ w.ok = p.ok /\ w.calls = p.calls /\ w.inFlight = m - 1
  <2>1. w = [r EXCEPT !.disk = p.disk \cup {o}] BY <1>6 DEF ChunkWritten, r
  <2> QED BY <1>6, <1>7, <2>1 DEF TaskRec
<1> HIDE DEF w
<1>9. Balanced(w, due \ {o})
  <2>1. w.disk \cup (due \ {o}) = p.disk \cup due BY <1>8
  <2> QED BY <1>1, <1>3, <1>8, <2>1 DEF Balanced
<1>10. r.inFlight <= p.inFlight BY <1>2, <1>6
<1> QED BY <1>6, <1>8, <1>9, <1>10 DEF r, w

\* An answer for the running task of its file.
LEMMA ChunkTaken ==
  ASSUME IInv, queue # <<>>, Head(queue).op = "chunk", queue' = Tail(queue),
         downloads[Head(queue).key] # 0, task[downloads[Head(queue).key]].pc # "finished"
  PROVE  LET c == Head(queue)
             t == downloads[c.key] IN
         /\ t \in 1..Len(task) /\ c.task = t /\ c.key = task[t].key /\ c.offset \in Due(t)
         /\ task[t].pc = "running" /\ Balanced(task[t], Due(t))
         /\ DueOf(queue', requests, t) = Due(t) \ {c.offset}
<1> DEFINE c == Head(queue)
           t == downloads[c.key]
<1>1. /\ c \in QueueItem /\ c = queue[1] /\ 1 \in 1..Len(queue) /\ queue \in Seq(QueueItem)
      /\ \A i \in 1..Len(queue') : i + 1 \in 1..Len(queue) /\ queue'[i] = queue[i + 1]
      /\ \A i \in 1..Len(queue) :
           i = 1 \/ (i - 1 \in 1..Len(queue') /\ queue'[i - 1] = queue[i])
  BY Taken DEF IInv, ShapeInv
<1>2. c.key \in Key /\ c.offset \in Nat BY <1>1 DEF QueueItem
<1>3. Len(task) \in Nat /\ \A u \in 1..Len(task) : task[u] \in TaskRec
  BY LenProperties, ElementOfSeq DEF IInv, ShapeInv
<1>4. /\ t \in 1..Len(task) /\ task[t].key = c.key /\ task[t].pc # "queued"
  BY <1>2, <1>3 DEF IInv, TypeOK, KeyInv
<1>5. /\ c.task \in 1..Len(task) /\ c.key = task[c.task].key
      /\ [task |-> c.task, offset |-> c.offset] \notin requests
  BY <1>1 DEF IInv, AnswerInv
<1>6. c.offset \in Due(c.task)
  <2>1. IsAnswer(queue, 1, c.task, c.offset) BY <1>1 DEF IsAnswer
  <2> QED BY <1>1, <1>2, <2>1 DEF Due, DueOf
<1>7. c.task = t
  <2>1. ~(c.task < t) BY <1>4, <1>5, <1>6 DEF IInv, KeyInv
  <2>2. ~(t < c.task)
    <3>1. SUFFICES ASSUME t < c.task PROVE FALSE OBVIOUS
    <3>2. task[t].calls > 0 BY <1>4, <1>5, <3>1 DEF IInv, KeyInv
    <3> QED BY <1>4, <3>2 DEF IInv, DoneInv
  <2> QED BY <1>3, <1>4, <1>5, <2>1, <2>2
<1>8. task[t].pc = "running"
  <2>1. task[t].pc \in {"queued", "running", "finished"} BY <1>3, <1>4 DEF TaskRec
  <2> QED BY <1>4, <2>1
<1>9. Balanced(task[t], Due(t)) BY <1>2, <1>8 DEF IInv, FlightInv
<1>10. DueOf(queue', requests, t) = Due(t) \ {c.offset}
  <2>1. ASSUME NEW o \in Nat, NEW i \in 1..Len(queue'), IsAnswer(queue', i, t, o)
        PROVE  o \in Due(t) /\ o # c.offset
    <3>1. i + 1 \in 1..Len(queue) /\ queue'[i] = queue[i + 1] BY <1>1
    <3>2. IsAnswer(queue, i + 1, t, o) BY <2>1, <3>1 DEF IsAnswer
    <3>3. o # c.offset
      <4>1. SUFFICES ASSUME o = c.offset PROVE FALSE OBVIOUS
      <4>2. i + 1 = 1 BY <1>1, <1>7, <3>1, <3>2, <4>1 DEF IInv, AnswerInv
      <4> QED BY <4>2
    <3> QED BY <3>1, <3>2, <3>3 DEF Due, DueOf
  <2>2. ASSUME NEW o \in Nat, [task |-> t, offset |-> o] \in requests
        PROVE  o \in Due(t) /\ o # c.offset
    BY <1>5, <1>7, <2>2 DEF Due, DueOf
  <2>3. ASSUME NEW o \in Nat, NEW i \in 1..Len(queue), IsAnswer(queue, i, t, o), o # c.offset
        PROVE  \E j \in 1..Len(queue') : IsAnswer(queue', j, t, o)
    <3>1. i # 1 BY <1>1, <2>3 DEF IsAnswer
    <3>2. i - 1 \in 1..Len(queue') /\ queue'[i - 1] = queue[i] BY <1>1, <3>1
    <3> QED BY <2>3, <3>2 DEF IsAnswer
  <2>4. DueOf(queue', requests, t) \subseteq Due(t) \ {c.offset} BY <2>1, <2>2 DEF DueOf
  <2>5. Due(t) \ {c.offset} \subseteq DueOf(queue', requests, t) BY <2>3 DEF Due, DueOf
  <2> QED BY <2>4, <2>5
<1> QED BY <1>4, <1>6, <1>7, <1>8, <1>9, <1>10

\* An answer is handled: dropped, or the end of its download, or a chunk
\* written and the next ones asked for.
LEMMA ChunkStep == ASSUME IInv, HandleChunkData PROVE IInv'
<1> DEFINE c == Head(queue)
           t == downloads[c.key]
           r == AnswerTaken(task[t])
           w == ChunkWritten(task[t], c.offset)
<1>1. /\ queue # <<>> /\ c.op = "chunk" /\ queue' = Tail(queue)
      /\ UNCHANGED <<activeTransferID, announcements, downloads, published>>
  BY DEF HandleChunkData, QueueNext
<1>2. CASE t = 0 \/ (t # 0 => task[t].pc = "finished")
  <2>1. UNCHANGED <<mainQueue, task, requests>> BY <1>2 DEF HandleChunkData
  <2> QED BY <1>1, <1>2, <2>1, ChunkDropped
<1>3. CASE ~(t = 0 \/ (t # 0 => task[t].pc = "finished"))
  <2>1. \/ /\ task' = [task EXCEPT ![t] = FinishedAs(r, FALSE)]
           /\ mainQueue' = Hop(t) /\ UNCHANGED requests
        \/ /\ c.data # "none" /\ AllAnswered(w)
           /\ task' = [task EXCEPT ![t] = FinishedAs(w, TRUE)]
           /\ mainQueue' = Hop(t) /\ UNCHANGED requests
        \/ PrimeRequests(t, w) /\ UNCHANGED mainQueue
    <3>1. c.data \in {"none", "whole"}
      <4>1. c \in QueueItem BY <1>1, Taken DEF IInv, ShapeInv
      <4> QED BY <1>1, <4>1 DEF QueueItem
    <3> QED BY <1>3, <3>1 DEF HandleChunkData, AnswerTaken, ChunkWritten
  <2>2. /\ t \in 1..Len(task) /\ c.task = t /\ c.key = task[t].key /\ c.offset \in Due(t)
        /\ task[t].pc = "running" /\ Balanced(task[t], Due(t))
        /\ DueOf(queue', requests, t) = Due(t) \ {c.offset}
    BY <1>1, <1>3, ChunkTaken
  <2>3. task[t] \in TaskRec /\ task \in Seq(TaskRec)
    BY <2>2, ElementOfSeq DEF IInv, ShapeInv
  <2>4. Due(t) \in SUBSET Nat BY DEF Due, DueOf
  <2>5. /\ r \in TaskRec /\ w \in TaskRec
        /\ r.key = task[t].key /\ r.pc = task[t].pc
        /\ r.nextRequestOffset = task[t].nextRequestOffset
        /\ r.disk = task[t].disk /\ r.ok = task[t].ok /\ r.calls = task[t].calls
        /\ r.inFlight <= task[t].inFlight /\ w.inFlight = r.inFlight
        /\ w.key = task[t].key /\ w.pc = task[t].pc
        /\ w.nextRequestOffset = task[t].nextRequestOffset
        /\ w.disk = task[t].disk \cup {c.offset} /\ w.ok = task[t].ok
        /\ w.calls = task[t].calls
        /\ Balanced(w, Due(t) \ {c.offset})
    <3> DEFINE p == task[t]
               o == c.offset
               due == Due(t)
    <3>1. p \in TaskRec /\ due \in SUBSET Nat /\ Balanced(p, due) /\ o \in due
      BY <2>2, <2>3, <2>4
    <3> HIDE DEF p, o, due
    <3>2. LET x == AnswerTaken(p)
              y == ChunkWritten(p, o) IN
          /\ x \in TaskRec /\ y \in TaskRec
          /\ x.key = p.key /\ x.pc = p.pc /\ x.nextRequestOffset = p.nextRequestOffset
          /\ x.disk = p.disk /\ x.ok = p.ok /\ x.calls = p.calls
          /\ x.inFlight <= p.inFlight /\ y.inFlight = x.inFlight
          /\ y.key = p.key /\ y.pc = p.pc /\ y.nextRequestOffset = p.nextRequestOffset
          /\ y.disk = p.disk \cup {o} /\ y.ok = p.ok /\ y.calls = p.calls
          /\ Balanced(y, due \ {o})
      BY <3>1, Answered
    <3> QED BY <3>2 DEF p, o, due
  <2> DEFINE a == task[t].nextRequestOffset
  <2>6. /\ a \in Nat /\ r.inFlight \in Nat /\ task[t].inFlight \in Nat /\ task[t].key \in Key
        /\ Size[task[t].key] \in Nat /\ kPipelineDepth \in Nat
    BY <2>3, <2>5, TransferAssumption DEF TaskRec
  <2> HIDE DEF t, r, w
  <2>7. /\ a <= Size[task[t].key] /\ r.inFlight <= kPipelineDepth
    <3>1. t \in DOMAIN task BY <2>2, <2>3, LenProperties
    <3>2. a \in 0..Size[task[t].key] /\ task[t].inFlight \in 0..kPipelineDepth
      BY <3>1 DEF IInv, TypeOK
    <3>3. a <= Size[task[t].key] /\ task[t].inFlight <= kPipelineDepth BY <2>6, <3>2
    <3>4. r.inFlight <= task[t].inFlight BY <2>5
    <3> HIDE DEF a
    <3> QED BY <2>6, <3>3, <3>4
  <2>8. task[t].disk \cup {c.offset} \subseteq 0..(a - 1) BY <2>2 DEF Balanced
  <2>9. task[t].ok = FALSE
    <3>1. task[t].ok \in BOOLEAN BY <2>3 DEF TaskRec
    <3> QED BY <2>2, <3>1 DEF IInv, DoneInv
  <2>10. downloads' = [downloads EXCEPT ![task[t].key] = t]
    <3>1. downloads \in [Key -> 0..Len(task)] BY DEF IInv, TypeOK
    <3>2. downloads' = downloads /\ downloads[task[t].key] = t BY <1>1, <2>2 DEF t
    <3> QED BY <2>6, <3>1, <3>2
  <2>11. ASSUME NEW s \in TaskRec, s.pc = "finished", s.key = task[t].key,
                s.calls = task[t].calls, s.nextRequestOffset = a, s.inFlight = r.inFlight,
                s.disk \subseteq 0..(a - 1), s.ok => s.disk = 0..(Size[s.key] - 1),
                task' = [task EXCEPT ![t] = s], mainQueue' = Hop(t), UNCHANGED requests
         PROVE  IInv'
    <3>1. requests' = requests \cup Asks(t, a, s.nextRequestOffset) BY <2>6, <2>11, NoAsks
    <3>2. mainQueue' = Append(mainQueue, [op |-> "completion", task |-> t]) BY <2>11 DEF Hop
    <3>3. a <= s.nextRequestOffset /\ s.nextRequestOffset <= Size[s.key]
          /\ s.inFlight <= kPipelineDepth
      <4>1. s.nextRequestOffset = a /\ s.key = task[t].key /\ s.inFlight = r.inFlight BY <2>11
      <4> HIDE DEF a
      <4> QED BY <2>6, <2>7, <4>1
    <3>4. s.disk \subseteq 0..(s.nextRequestOffset - 1) BY <2>11
    <3> QED BY <1>1, <2>2, <2>10, <2>11, <3>1, <3>2, <3>3, <3>4, TaskStep
  <2>12. CASE /\ task' = [task EXCEPT ![t] = FinishedAs(r, FALSE)]
              /\ mainQueue' = Hop(t) /\ UNCHANGED requests
    <3> DEFINE s == FinishedAs(r, FALSE)
    <3>1. /\ s \in TaskRec /\ s.pc = "finished" /\ s.ok = FALSE
          /\ s.key = r.key /\ s.nextRequestOffset = r.nextRequestOffset
          /\ s.inFlight = r.inFlight /\ s.disk = r.disk /\ s.calls = r.calls
      BY <2>5, EndedRec
    <3>2. task' = [task EXCEPT ![t] = s] BY <2>12
    <3> HIDE DEF s
    <3> QED BY <2>5, <2>8, <2>11, <2>12, <3>1, <3>2
  <2>13. CASE /\ c.data # "none" /\ AllAnswered(w)
              /\ task' = [task EXCEPT ![t] = FinishedAs(w, TRUE)]
              /\ mainQueue' = Hop(t) /\ UNCHANGED requests
    <3> DEFINE s == FinishedAs(w, TRUE)
    <3>1. /\ s \in TaskRec /\ s.pc = "finished" /\ s.ok = TRUE
          /\ s.key = w.key /\ s.nextRequestOffset = w.nextRequestOffset
          /\ s.inFlight = w.inFlight /\ s.disk = w.disk /\ s.calls = w.calls
      BY <2>5, EndedRec
    <3>2. task' = [task EXCEPT ![t] = s] BY <2>13
    <3> HIDE DEF s
    <3>3. Due(t) \ {c.offset} = {}
      <4>1. /\ IsFiniteSet(Due(t) \ {c.offset}) /\ Cardinality(Due(t) \ {c.offset}) = 0
        BY <2>5, <2>13 DEF AllAnswered, Balanced
      <4> QED BY <4>1, FS_EmptySet
    <3>4. a = Size[task[t].key]
      <4>1. a >= Size[task[t].key] BY <2>5, <2>13 DEF AllAnswered
      <4> HIDE DEF a
      <4> QED BY <2>6, <2>7, <4>1
    <3>5. w.disk = 0..(a - 1) BY <2>5, <3>3 DEF Balanced
    <3>6. s.disk = 0..(Size[s.key] - 1) /\ s.disk \subseteq 0..(a - 1)
      BY <2>5, <3>1, <3>4, <3>5
    <3> QED BY <2>5, <2>11, <2>13, <3>1, <3>2, <3>6
  <2>14. CASE PrimeRequests(t, w) /\ UNCHANGED mainQueue
    <3> DEFINE n == PrimeCount(w)
               s == [w EXCEPT !.nextRequestOffset = @ + n, !.inFlight = @ + n]
               left == Due(t) \ {c.offset}
    <3>1. /\ task' = [task EXCEPT ![t] = s]
          /\ requests' = requests \cup
               {[task |-> t, offset |-> o] :
                  o \in w.nextRequestOffset..(w.nextRequestOffset + n - 1)}
      BY <2>14 DEF PrimeRequests
    <3>2. /\ n \in Nat /\ s \in TaskRec
          /\ s.nextRequestOffset = w.nextRequestOffset + n /\ s.inFlight = w.inFlight + n
          /\ s.key = w.key /\ s.pc = w.pc /\ s.disk = w.disk /\ s.ok = w.ok
          /\ s.calls = w.calls
          /\ s.nextRequestOffset <= Size[s.key] /\ s.inFlight <= kPipelineDepth
          /\ Balanced(s, left \cup (w.nextRequestOffset..(s.nextRequestOffset - 1)))
      <4>1. w.nextRequestOffset <= Size[w.key] /\ w.inFlight <= kPipelineDepth
        BY <2>5, <2>6, <2>7
      <4> HIDE DEF left
      <4>2. Balanced(w, left) BY <2>5 DEF left
      <4> QED BY <2>5, <4>1, <4>2, Primed
    <3> HIDE DEF n, s, left
    <3>3. s.nextRequestOffset \in Nat /\ s.nextRequestOffset = a + n BY <2>5, <3>2 DEF TaskRec
    <3>4. requests' = requests \cup Asks(t, a, s.nextRequestOffset)
      <4>1. s.nextRequestOffset - 1 = a + n - 1 BY <2>6, <3>2, <3>3
      <4> QED BY <2>5, <3>1, <4>1 DEF Asks
    <3>5. DueOf(queue', requests', t) = left \cup a..(s.nextRequestOffset - 1)
      <4>1. DueOf(queue', requests \cup Asks(t, a, s.nextRequestOffset), t)
              = DueOf(queue', requests, t) \cup a..(s.nextRequestOffset - 1)
        <5>1. a \in Nat /\ s.nextRequestOffset \in Nat BY <2>6, <3>3
        <5> HIDE DEF a
        <5> QED BY <5>1, DueAsked
      <4> QED BY <2>2, <3>4, <4>1 DEF left
    <3>6. Balanced(s, DueOf(queue', requests', t)) BY <2>5, <3>2, <3>5
    <3>7. /\ s.pc = "running" /\ s.key = task[t].key /\ s.calls = task[t].calls
          /\ s.ok = FALSE /\ a <= s.nextRequestOffset
          /\ s.disk \subseteq 0..(s.nextRequestOffset - 1)
      <4>1. 0..(a - 1) \subseteq 0..(s.nextRequestOffset - 1) /\ a <= s.nextRequestOffset
        BY <2>6, <3>2, <3>3
      <4> QED BY <2>2, <2>5, <2>8, <2>9, <3>2, <4>1
    <3> QED BY <1>1, <2>2, <2>10, <2>14, <3>1, <3>2, <3>4, <3>6, <3>7, TaskStep
  <2> QED BY <2>1, <2>12, <2>13, <2>14
<1> QED BY <1>2, <1>3
-----------------------------------------------------------------------------
\* Every step keeps the invariant.
LEMMA StepHolds == ASSUME ~Repaste, Unreliable = {}, IInv, [Next]_vars PROVE IInv'
<1>1. ASSUME NEW tr \in Transfer, AnnounceFiles(tr) PROVE IInv'
  BY <1>1, PostedStep DEF AnnounceFiles
<1>2. CASE Replace BY <1>2, PostedStep DEF Replace
<1>3. CASE Publish BY <1>3, PublishStep
<1>4. CASE Completion BY <1>4, CompletionStep
<1>5. CASE RegisterAnnouncement \/ RemoveDownload BY <1>5, BookStep
<1>6. CASE Start BY <1>6, StartStep
<1>7. CASE HandleChunkData BY <1>7, ChunkStep
<1>8. CASE CancelTransfer BY <1>8, CancelStep
<1>9. ASSUME NEW k \in Key, WritePromiseTo(k) PROVE IInv' BY <1>9, WriteStep
<1>10. ASSUME NEW r \in requests, NEW data \in Data(r),
              ParentAnswers(r, data) \/ ParentRepeats(r, data)
       PROVE  IInv'
  <2>1. data \in {"none", "whole"} BY DEF Data
  <2>2. ParentAnswers(r, data) BY <1>10 DEF ParentRepeats
  <2> QED BY <2>1, <2>2, AnswerStep
<1>11. CASE UNCHANGED vars
  <2>1. UNCHANGED <<activeTransferID, mainQueue, queue, announcements, downloads, task,
                    requests, published>>
    BY <1>11 DEF vars
  <2>2. \A t : Due(t)' = Due(t) BY <2>1 DEF Due, DueOf, IsAnswer
  <2>3. TypeOK' /\ ShapeInv' /\ SuccessComplete' BY <2>1 DEF IInv, TypeOK, ShapeInv, SuccessComplete
  <2>4. StartInv' /\ DoneInv' BY <2>1 DEF IInv, StartInv, DoneInv
  <2>5. AnswerInv' BY <2>1 DEF IInv, AnswerInv, IsAnswer
  <2>6. KeyInv' /\ FlightInv' BY <2>1, <2>2 DEF IInv, KeyInv, FlightInv
  <2> QED BY <2>3, <2>4, <2>5, <2>6 DEF IInv
<1> QED BY <1>1, <1>2, <1>3, <1>4, <1>5, <1>6, <1>7, <1>8, <1>9, <1>10, <1>11
        DEF Next, MainStep, QueueStep

\* The inductive invariant holds when no file is pasted again too early and the
\* parent is honest.
THEOREM InvHolds == ASSUME ~Repaste, Unreliable = {} PROVE Spec => []IInv
BY InvInit, StepHolds, PTL DEF Spec

\* Type correctness of the downloads: never more than kPipelineDepth requests
\* are counted in flight, and none is made past the end of a file.
THEOREM TypeCorrect == ASSUME ~Repaste, Unreliable = {} PROVE Spec => []TypeOK
<1>1. IInv => TypeOK BY DEF IInv
<1> QED BY <1>1, InvHolds, PTL

\* A download reported as a success has every chunk on disk, whatever the
\* order of the answers, the cancellations and the failures, if the parent
\* answers each request once and with a whole chunk: handleChunkData counts
\* answers and does not look at which chunk they bring.
THEOREM SuccessIsComplete == ASSUME ~Repaste, Unreliable = {} PROVE Spec => []SuccessComplete
<1>1. IInv => SuccessComplete BY DEF IInv
<1> QED BY <1>1, InvHolds, PTL
-----------------------------------------------------------------------------
(* Nothing is left behind.                                                 *)
(*                                                                         *)
(* Registrations and cancellations travel through the queue, so what the   *)
(* coordinator will have registered is what announcements become once the  *)
(* queue has run: that, at any time, is the transfer on the pasteboard.    *)

Registers(e, tr) == e.op = "register" /\ e.transfer = tr
Cancels(e, tr) == e.op = "cancel" /\ e.transfer = tr

\* Transfer tr is registered once the blocks of q have run on the set A.
Booked(q, A, tr) ==
  \/ tr \in A /\ \A i \in 1..Len(q) : ~Cancels(q[i], tr)
  \/ \E i \in 1..Len(q) :
       Registers(q[i], tr) /\ \A j \in 1..Len(q) : j > i => ~Cancels(q[j], tr)

BookInv ==
  \A tr \in Transfer : Booked(queue, announcements, tr) <=> tr = activeTransferID

\* The completion of task t is on the main queue.
Completes(q, t) == \E i \in 1..Len(q) : q[i].op = "completion" /\ q[i].task = t

\* The removal of key k is on the coordinator's queue.
Removes(q, k) == \E i \in 1..Len(q) : q[i].op = "remove" /\ q[i].key = k

\* A task the coordinator holds has something to wait for: a running one an
\* answer, a finished one its completion or the removal of its key.
HeldInv ==
  \A k \in Key : downloads[k] # 0 =>
    LET t == downloads[k] IN
    /\ task[t].pc = "running" => task[t].inFlight > 0
    /\ task[t].pc = "finished" => Completes(mainQueue, t) \/ Removes(queue, k)

\* A block behind the others decides for its own transfer.
LEMMA BookedAppend ==
  ASSUME NEW q \in Seq(QueueItem), NEW e \in QueueItem, NEW A, NEW tr
  PROVE  Booked(Append(q, e), A, tr)
           <=> Registers(e, tr) \/ (~Cancels(e, tr) /\ Booked(q, A, tr))
<1> DEFINE a == Append(q, e)
           n == Len(q)
<1>1. /\ n \in Nat /\ Len(a) = n + 1 /\ a[n + 1] = e /\ n + 1 \in 1..Len(a)
      /\ \A i \in 1..n : i \in 1..Len(a) /\ a[i] = q[i]
      /\ \A i \in 1..Len(a) : i = n + 1 \/ i \in 1..n
  BY Appended
<1> HIDE DEF a
<1>2. ~(Registers(e, tr) /\ Cancels(e, tr)) BY DEF Registers, Cancels
<1>3. ASSUME Booked(a, A, tr), ~Registers(e, tr) PROVE ~Cancels(e, tr) /\ Booked(q, A, tr)
  <2>1. CASE tr \in A /\ \A i \in 1..Len(a) : ~Cancels(a[i], tr)
    <3>1. ~Cancels(e, tr) BY <1>1, <2>1
    <3>2. \A i \in 1..n : ~Cancels(q[i], tr) BY <1>1, <2>1
    <3> QED BY <2>1, <3>1, <3>2 DEF Booked
  <2>2. CASE \E i \in 1..Len(a) :
               Registers(a[i], tr) /\ \A j \in 1..Len(a) : j > i => ~Cancels(a[j], tr)
    <3>1. PICK i \in 1..Len(a) :
            Registers(a[i], tr) /\ \A j \in 1..Len(a) : j > i => ~Cancels(a[j], tr)
      BY <2>2
    <3>2. i \in 1..n /\ n + 1 > i BY <1>1, <1>3, <3>1
    <3>3. ~Cancels(e, tr) BY <1>1, <3>1, <3>2
    <3>4. Registers(q[i], tr) BY <1>1, <3>1, <3>2
    <3>5. \A j \in 1..n : j > i => ~Cancels(q[j], tr) BY <1>1, <3>1
    <3> QED BY <3>2, <3>3, <3>4, <3>5 DEF Booked
  <2> QED BY <1>3, <2>1, <2>2 DEF Booked
<1>4. ASSUME Registers(e, tr) PROVE Booked(a, A, tr)
  <2>1. Registers(a[n + 1], tr) BY <1>1, <1>4
  <2>2. \A j \in 1..Len(a) : j > n + 1 => ~Cancels(a[j], tr) BY <1>1
  <2> QED BY <1>1, <2>1, <2>2 DEF Booked
<1>5. ASSUME ~Cancels(e, tr), Booked(q, A, tr) PROVE Booked(a, A, tr)
  <2>1. CASE tr \in A /\ \A i \in 1..n : ~Cancels(q[i], tr)
    <3>1. \A i \in 1..Len(a) : ~Cancels(a[i], tr) BY <1>1, <1>5, <2>1
    <3> QED BY <2>1, <3>1 DEF Booked
  <2>2. CASE \E i \in 1..n :
               Registers(q[i], tr) /\ \A j \in 1..n : j > i => ~Cancels(q[j], tr)
    <3>1. PICK i \in 1..n :
            Registers(q[i], tr) /\ \A j \in 1..n : j > i => ~Cancels(q[j], tr)
      BY <2>2
    <3>2. i \in 1..Len(a) /\ Registers(a[i], tr) BY <1>1, <3>1
    <3>3. \A j \in 1..Len(a) : j > i => ~Cancels(a[j], tr) BY <1>1, <1>5, <3>1
    <3> QED BY <3>2, <3>3 DEF Booked
  <2> QED BY <1>5, <2>1, <2>2 DEF Booked
<1> QED BY <1>2, <1>3, <1>4, <1>5 DEF a

\* A block that runs has the effect it was booked for.
LEMMA BookedTail ==
  ASSUME NEW q \in Seq(QueueItem), q # <<>>, NEW A, NEW B, NEW tr,
         tr \in B <=> Registers(Head(q), tr) \/ (tr \in A /\ ~Cancels(Head(q), tr))
  PROVE  Booked(Tail(q), B, tr) <=> Booked(q, A, tr)
<1> DEFINE a == Tail(q)
<1>1. /\ Head(q) = q[1] /\ 1 \in 1..Len(q) /\ Len(q) \in Nat /\ Len(a) \in Nat
      /\ \A i \in 1..Len(a) : i + 1 \in 1..Len(q) /\ a[i] = q[i + 1]
      /\ \A i \in 1..Len(q) : i = 1 \/ (i - 1 \in 1..Len(a) /\ a[i - 1] = q[i])
  BY Taken, LenProperties
<1> HIDE DEF a
<1>2. tr \in B <=> Registers(q[1], tr) \/ (tr \in A /\ ~Cancels(q[1], tr)) BY <1>1
<1>3. ASSUME NEW i \in 1..Len(a), \A j \in 1..Len(a) : j > i => ~Cancels(a[j], tr),
             NEW j \in 1..Len(q), j > i + 1
      PROVE  ~Cancels(q[j], tr)
  <2>1. j - 1 \in 1..Len(a) /\ a[j - 1] = q[j] /\ j - 1 > i BY <1>1, <1>3
  <2> QED BY <1>3, <2>1
<1>4. ASSUME \A i \in 1..Len(a) : ~Cancels(a[i], tr), NEW j \in 1..Len(q), j > 1
      PROVE  ~Cancels(q[j], tr)
  <2>1. j - 1 \in 1..Len(a) /\ a[j - 1] = q[j] BY <1>1, <1>4
  <2> QED BY <1>4, <2>1
<1>5. ASSUME Booked(a, B, tr) PROVE Booked(q, A, tr)
  <2>1. CASE tr \in B /\ \A i \in 1..Len(a) : ~Cancels(a[i], tr)
    <3>1. CASE Registers(q[1], tr)
      <4>1. \A j \in 1..Len(q) : j > 1 => ~Cancels(q[j], tr) BY <1>4, <2>1
      <4> QED BY <1>1, <3>1, <4>1 DEF Booked
    <3>2. CASE tr \in A /\ ~Cancels(q[1], tr)
      <4>1. \A j \in 1..Len(q) : ~Cancels(q[j], tr) BY <1>1, <1>4, <2>1, <3>2
      <4> QED BY <3>2, <4>1 DEF Booked
    <3> QED BY <1>2, <2>1, <3>1, <3>2
  <2>2. CASE \E i \in 1..Len(a) :
               Registers(a[i], tr) /\ \A j \in 1..Len(a) : j > i => ~Cancels(a[j], tr)
    <3>1. PICK i \in 1..Len(a) :
            Registers(a[i], tr) /\ \A j \in 1..Len(a) : j > i => ~Cancels(a[j], tr)
      BY <2>2
    <3>2. i + 1 \in 1..Len(q) /\ Registers(q[i + 1], tr) BY <1>1, <3>1
    <3>3. \A j \in 1..Len(q) : j > i + 1 => ~Cancels(q[j], tr) BY <1>3, <3>1
    <3> QED BY <3>2, <3>3 DEF Booked
  <2> QED BY <1>5, <2>1, <2>2 DEF Booked
<1>6. ASSUME Booked(q, A, tr) PROVE Booked(a, B, tr)
  <2>1. CASE tr \in A /\ \A i \in 1..Len(q) : ~Cancels(q[i], tr)
    <3>1. tr \in B BY <1>1, <1>2, <2>1
    <3>2. \A i \in 1..Len(a) : ~Cancels(a[i], tr) BY <1>1, <2>1
    <3> QED BY <3>1, <3>2 DEF Booked
  <2>2. CASE \E i \in 1..Len(q) :
               Registers(q[i], tr) /\ \A j \in 1..Len(q) : j > i => ~Cancels(q[j], tr)
    <3>1. PICK i \in 1..Len(q) :
            Registers(q[i], tr) /\ \A j \in 1..Len(q) : j > i => ~Cancels(q[j], tr)
      BY <2>2
    <3>2. CASE i = 1
      <4>1. tr \in B BY <1>2, <3>1, <3>2
      <4>2. \A j \in 1..Len(a) : ~Cancels(a[j], tr)
        <5> TAKE j \in 1..Len(a)
        <5>1. j + 1 \in 1..Len(q) /\ a[j] = q[j + 1] /\ j + 1 > 1 BY <1>1
        <5> QED BY <3>1, <3>2, <5>1
      <4> QED BY <4>1, <4>2 DEF Booked
    <3>3. CASE i # 1
      <4>1. i - 1 \in 1..Len(a) /\ Registers(a[i - 1], tr) BY <1>1, <3>1, <3>3
      <4>2. \A j \in 1..Len(a) : j > i - 1 => ~Cancels(a[j], tr)
        <5> TAKE j \in 1..Len(a)
        <5>1. j + 1 \in 1..Len(q) /\ a[j] = q[j + 1] /\ (j > i - 1 => j + 1 > i) BY <1>1
        <5> QED BY <3>1, <5>1
      <4> QED BY <4>1, <4>2 DEF Booked
    <3> QED BY <3>2, <3>3
  <2> QED BY <1>6, <2>1, <2>2 DEF Booked
<1> QED BY <1>5, <1>6 DEF a

\* Publishing cancels the transfer that is booked and books the new one.
LEMMA PublishBooks == ASSUME IInv, BookInv, Publish PROVE BookInv'
<1> DEFINE x == Head(mainQueue).transfer
           c == [op |-> "cancel", transfer |-> activeTransferID]
           g == [op |-> "register", transfer |-> x]
           A == announcements
<1>1. /\ mainQueue # <<>> /\ Head(mainQueue).op = "announce" /\ activeTransferID' = x
      /\ queue' = IF x = NoTransfer THEN queue \o CancelActive
                  ELSE Append(queue \o CancelActive, g)
      /\ announcements' = A
  BY DEF Publish, MainNext
<1>2. x \in Transfer \cup {NoTransfer}
  <2>1. Head(mainQueue) \in MainItem BY <1>1, Taken DEF IInv, ShapeInv
  <2> QED BY <1>1, <2>1 DEF MainItem
<1> HIDE DEF x
<1>3. queue \in Seq(QueueItem) BY DEF IInv, ShapeInv
<1>4. queue \o CancelActive \in Seq(QueueItem)
      /\ \A tr \in Transfer : ~Booked(queue \o CancelActive, A, tr)
  <2>1. CASE activeTransferID = NoTransfer
    <3>1. queue \o CancelActive = queue BY <1>3, <2>1, ConcatEmptySeq DEF CancelActive
    <3> QED BY <1>3, <2>1, <3>1, TransferAssumption DEF BookInv
  <2>2. CASE activeTransferID # NoTransfer
    <3>1. /\ c \in QueueItem
          /\ \A tr : ~Registers(c, tr)
          /\ \A tr : Cancels(c, tr) <=> tr = activeTransferID
      BY <2>2 DEF IInv, TypeOK, QueueItem, Registers, Cancels
    <3>2. CancelActive = <<c>> BY <2>2 DEF CancelActive
    <3> HIDE DEF c
    <3>3. queue \o <<c>> = Append(queue, c) BY <1>3, <3>1, AppendIsConcat
    <3>4. Append(queue, c) \in Seq(QueueItem) BY <1>3, <3>1, Appended
    <3>5. ASSUME NEW tr \in Transfer PROVE ~Booked(Append(queue, c), A, tr)
      <4>1. Booked(Append(queue, c), A, tr) => ~Cancels(c, tr) /\ Booked(queue, A, tr)
        BY <1>3, <3>1, BookedAppend
      <4> QED BY <3>1, <4>1 DEF BookInv
    <3> QED BY <3>2, <3>3, <3>4, <3>5
  <2> QED BY <2>1, <2>2
<1> DEFINE q == queue \o CancelActive
<1> HIDE DEF q
<1>5. q \in Seq(QueueItem) /\ \A tr \in Transfer : ~Booked(q, A, tr) BY <1>4 DEF q
<1>6. CASE x = NoTransfer
  <2>1. queue' = q BY <1>1, <1>6 DEF q
  <2> QED BY <1>1, <1>5, <1>6, <2>1, TransferAssumption DEF BookInv
<1>7. CASE x # NoTransfer
  <2>1. g \in QueueItem /\ \A tr : Registers(g, tr) <=> tr = x
    BY <1>2, <1>7 DEF QueueItem, Registers
  <2>2. queue' = Append(q, g) BY <1>1, <1>7 DEF q
  <2> HIDE DEF g
  <2>3. ASSUME NEW tr \in Transfer PROVE Booked(Append(q, g), A, tr) <=> tr = x
    <3>1. Booked(Append(q, g), A, tr)
            <=> Registers(g, tr) \/ (~Cancels(g, tr) /\ Booked(q, A, tr))
      BY <1>5, <2>1, BookedAppend
    <3> QED BY <1>5, <2>1, <3>1
  <2> QED BY <1>1, <2>2, <2>3 DEF BookInv
<1> QED BY <1>6, <1>7

\* A block for another purpose is queued.
LEMMA AppendBooks ==
  ASSUME IInv, BookInv, NEW e \in QueueItem, e.op \notin {"register", "cancel"},
         queue' = Append(queue, e), UNCHANGED <<announcements, activeTransferID>>
  PROVE  BookInv'
<1>1. queue \in Seq(QueueItem) BY DEF IInv, ShapeInv
<1>2. \A tr : ~Registers(e, tr) /\ ~Cancels(e, tr) BY DEF Registers, Cancels
<1>3. ASSUME NEW tr \in Transfer
      PROVE  Booked(Append(queue, e), announcements, tr) <=> tr = activeTransferID
  <2>1. Booked(Append(queue, e), announcements, tr)
          <=> Registers(e, tr) \/ (~Cancels(e, tr) /\ Booked(queue, announcements, tr))
    BY <1>1, BookedAppend
  <2> QED BY <1>2, <2>1 DEF BookInv
<1> QED BY <1>3 DEF BookInv

\* A block runs on the coordinator's queue.
LEMMA TailBooks ==
  ASSUME IInv, BookInv, queue # <<>>, queue' = Tail(queue), UNCHANGED activeTransferID,
         \/ Head(queue).op = "register"
            /\ announcements' = announcements \cup {Head(queue).transfer}
         \/ Head(queue).op = "cancel"
            /\ announcements' = announcements \ {Head(queue).transfer}
         \/ Head(queue).op \notin {"register", "cancel"} /\ UNCHANGED announcements
  PROVE  BookInv'
<1>1. queue \in Seq(QueueItem) BY DEF IInv, ShapeInv
<1>2. ASSUME NEW tr \in Transfer
      PROVE  Booked(queue', announcements', tr) <=> tr = activeTransferID
  <2>1. tr \in announcements'
          <=> \/ Registers(Head(queue), tr)
              \/ tr \in announcements /\ ~Cancels(Head(queue), tr)
    BY DEF Registers, Cancels
  <2>2. Booked(Tail(queue), announcements', tr) <=> Booked(queue, announcements, tr)
    BY <1>1, <2>1, BookedTail
  <2> QED BY <2>2 DEF BookInv
<1> QED BY <1>2 DEF BookInv

\* What is queued behind a block, and what remains when one is taken.
LEMMA Waiting ==
  ASSUME NEW S, NEW q \in Seq(S)
  PROVE  /\ \A e \in S : /\ \A t : Completes(q, t) => Completes(Append(q, e), t)
                         /\ \A k : Removes(q, k) => Removes(Append(q, e), k)
                         /\ e.op = "completion" => Completes(Append(q, e), e.task)
                         /\ e.op = "remove" => Removes(Append(q, e), e.key)
         /\ q # <<>> =>
              /\ \A t : Completes(q, t) => Completes(Tail(q), t)
                                           \/ (Head(q).op = "completion" /\ Head(q).task = t)
              /\ \A k : Removes(q, k) => Removes(Tail(q), k)
                                         \/ (Head(q).op = "remove" /\ Head(q).key = k)
<1>1. ASSUME NEW e \in S
      PROVE  /\ \A t : Completes(q, t) => Completes(Append(q, e), t)
             /\ \A k : Removes(q, k) => Removes(Append(q, e), k)
             /\ e.op = "completion" => Completes(Append(q, e), e.task)
             /\ e.op = "remove" => Removes(Append(q, e), e.key)
  <2> DEFINE a == Append(q, e)
  <2>1. /\ \A i \in 1..Len(q) : i \in 1..Len(a) /\ a[i] = q[i]
        /\ \E i \in 1..Len(a) : a[i] = e
    <3>1. /\ Len(q) \in Nat /\ Len(a) = Len(q) + 1 /\ a[Len(q) + 1] = e
          /\ \A i \in 1..Len(q) : i \in 1..Len(a) /\ a[i] = q[i]
      BY Appended
    <3>2. Len(q) + 1 \in 1..Len(a) BY <3>1
    <3> QED BY <3>1, <3>2
  <2> HIDE DEF a
  <2>2. \A t : Completes(q, t) => Completes(a, t) BY <2>1 DEF Completes
  <2>3. \A k : Removes(q, k) => Removes(a, k) BY <2>1 DEF Removes
  <2>4. e.op = "completion" => Completes(a, e.task) BY <2>1 DEF Completes
  <2>5. e.op = "remove" => Removes(a, e.key) BY <2>1 DEF Removes
  <2> QED BY <2>2, <2>3, <2>4, <2>5 DEF a
<1>2. ASSUME q # <<>>
      PROVE  /\ \A t : Completes(q, t) => Completes(Tail(q), t)
                                          \/ (Head(q).op = "completion" /\ Head(q).task = t)
             /\ \A k : Removes(q, k) => Removes(Tail(q), k)
                                        \/ (Head(q).op = "remove" /\ Head(q).key = k)
  <2> DEFINE a == Tail(q)
             h == Head(q)
  <2>1. \A i \in 1..Len(q) : q[i] = h \/ \E j \in 1..Len(a) : a[j] = q[i]
    <3>1. /\ h = q[1]
          /\ \A i \in 1..Len(q) : i = 1 \/ (i - 1 \in 1..Len(a) /\ a[i - 1] = q[i])
      BY <1>2, Taken
    <3> QED BY <3>1
  <2> HIDE DEF a, h
  <2>2. ASSUME NEW t, Completes(q, t)
        PROVE  Completes(a, t) \/ (h.op = "completion" /\ h.task = t)
    <3>1. PICK i \in 1..Len(q) : q[i].op = "completion" /\ q[i].task = t
      BY <2>2 DEF Completes
    <3>2. q[i] = h \/ \E j \in 1..Len(a) : a[j] = q[i] BY <2>1
    <3> QED BY <3>1, <3>2 DEF Completes
  <2>3. ASSUME NEW k, Removes(q, k)
        PROVE  Removes(a, k) \/ (h.op = "remove" /\ h.key = k)
    <3>1. PICK i \in 1..Len(q) : q[i].op = "remove" /\ q[i].key = k
      BY <2>3 DEF Removes
    <3>2. q[i] = h \/ \E j \in 1..Len(a) : a[j] = q[i] BY <2>1
    <3> QED BY <3>1, <3>2 DEF Removes
  <2> QED BY <2>2, <2>3 DEF a, h
<1> QED BY <1>1, <1>2

\* The part of HeldInv about key k.
HeldAt(k) ==
  downloads[k] # 0 =>
    LET t == downloads[k] IN
    /\ task[t].pc = "running" => task[t].inFlight > 0
    /\ task[t].pc = "finished" => Completes(mainQueue, t) \/ Removes(queue, k)

LEMMA HeldParts == (HeldInv <=> \A k \in Key : HeldAt(k)) BY DEF HeldInv, HeldAt

\* A step that leaves a held task alone, and what it waits for.
LEMMA HeldKept ==
  ASSUME NEW k \in Key, HeldAt(k), downloads'[k] \in {0, downloads[k]},
         downloads'[k] # 0 =>
           LET t == downloads[k] IN
           /\ task'[t].pc = task[t].pc /\ task'[t].inFlight = task[t].inFlight
           /\ Completes(mainQueue, t) => Completes(mainQueue', t) \/ Removes(queue', k)
           /\ Removes(queue, k) => Removes(queue', k)
  PROVE  HeldAt(k)'
<1> SUFFICES ASSUME downloads'[k] # 0
             PROVE  LET t == downloads'[k] IN
                    /\ task'[t].pc = "running" => task'[t].inFlight > 0
                    /\ task'[t].pc = "finished" => Completes(mainQueue', t) \/ Removes(queue', k)
  BY DEF HeldAt
<1>1. downloads'[k] = downloads[k] /\ downloads[k] # 0 OBVIOUS
<1> QED BY <1>1 DEF HeldAt

\* Blocks are added to the queues.
LEMMA PostedHeld ==
  ASSUME IInv, HeldInv, NEW e \in MainItem, NEW f \in QueueItem,
         mainQueue' \in {mainQueue, Append(mainQueue, e)},
         queue' \in {queue, Append(queue, f)},
         UNCHANGED downloads, \A t \in 1..Len(task) : task'[t] = task[t]
  PROVE  HeldInv'
<1>1. mainQueue \in Seq(MainItem) /\ queue \in Seq(QueueItem) BY DEF IInv, ShapeInv
<1>2. \A t : Completes(mainQueue, t) => Completes(mainQueue', t)
  <2>1. \A t : Completes(mainQueue, t) => Completes(Append(mainQueue, e), t) BY <1>1, Waiting
  <2> QED BY <2>1
<1>3. \A k : Removes(queue, k) => Removes(queue', k)
  <2>1. \A k : Removes(queue, k) => Removes(Append(queue, f), k) BY <1>1, Waiting
  <2> QED BY <2>1
<1>4. Len(task) \in Nat BY LenProperties DEF IInv, ShapeInv
<1>5. ASSUME NEW k \in Key PROVE HeldAt(k)'
  <2>1. HeldAt(k) BY HeldParts
  <2>2. downloads[k] # 0 => downloads[k] \in 1..Len(task) BY <1>4 DEF IInv, TypeOK
  <2> QED BY <1>2, <1>3, <2>1, <2>2, HeldKept
<1>6. \A k \in Key : HeldAt(k)' BY <1>5
<1> QED BY <1>6 DEF HeldInv, HeldAt

\* Publishing adds blocks for other purposes.
LEMMA PublishHeld == ASSUME IInv, HeldInv, Publish PROVE HeldInv'
<1> DEFINE x == Head(mainQueue).transfer
           c == [op |-> "cancel", transfer |-> activeTransferID]
           g == [op |-> "register", transfer |-> x]
<1>1. /\ mainQueue # <<>> /\ Head(mainQueue).op = "announce" /\ mainQueue' = Tail(mainQueue)
      /\ queue' = IF x = NoTransfer THEN queue \o CancelActive
                  ELSE Append(queue \o CancelActive, g)
      /\ UNCHANGED <<downloads, task>>
  BY DEF Publish, MainNext
<1>2. mainQueue \in Seq(MainItem) /\ queue \in Seq(QueueItem) BY DEF IInv, ShapeInv
<1>3. x \in Transfer \cup {NoTransfer}
  <2>1. Head(mainQueue) \in MainItem BY <1>1, <1>2, Taken
  <2> QED BY <1>1, <2>1 DEF MainItem
<1> HIDE DEF x
<1>4. \A t : Completes(mainQueue, t) => Completes(mainQueue', t) BY <1>1, <1>2, Waiting
<1> DEFINE q == queue \o CancelActive
<1>5. q \in Seq(QueueItem) /\ \A k : Removes(queue, k) => Removes(q, k)
  <2>1. CASE activeTransferID = NoTransfer
    <3>1. q = queue BY <1>2, <2>1, ConcatEmptySeq DEF CancelActive
    <3> QED BY <1>2, <3>1
  <2>2. CASE activeTransferID # NoTransfer
    <3>1. c \in QueueItem BY <2>2 DEF IInv, TypeOK, QueueItem
    <3>2. CancelActive = <<c>> BY <2>2 DEF CancelActive
    <3> HIDE DEF c
    <3>3. q = Append(queue, c) BY <1>2, <3>1, <3>2, AppendIsConcat
    <3> QED BY <1>2, <3>1, <3>3, Appended, Waiting
  <2> QED BY <2>1, <2>2
<1>6. queue' = q \/ (x # NoTransfer /\ queue' = Append(q, g)) BY <1>1
<1> HIDE DEF q
<1>7. \A k : Removes(queue, k) => Removes(queue', k)
  <2>1. CASE queue' = q BY <1>5, <2>1
  <2>2. CASE x # NoTransfer /\ queue' = Append(q, g)
    <3>1. g \in QueueItem BY <1>3, <2>2 DEF QueueItem
    <3> HIDE DEF g
    <3> QED BY <1>5, <2>2, <3>1, Waiting
  <2> QED BY <1>6, <2>1, <2>2
<1>8. ASSUME NEW k \in Key PROVE HeldAt(k)'
  <2>1. HeldAt(k) BY HeldParts
  <2> QED BY <1>1, <1>4, <1>7, <2>1, HeldKept
<1>9. \A k \in Key : HeldAt(k)' BY <1>8
<1> QED BY <1>9 DEF HeldInv, HeldAt

\* A completion is turned into the removal of the key its task has.
LEMMA CompletionHeld == ASSUME IInv, HeldInv, Completion PROVE HeldInv'
<1> DEFINE u == Head(mainQueue).task
           e == [op |-> "remove", key |-> task[u].key]
<1>1. /\ mainQueue # <<>> /\ Head(mainQueue).op = "completion" /\ mainQueue' = Tail(mainQueue)
      /\ queue' = Append(queue, e)
      /\ task' = [task EXCEPT ![u].calls = @ + 1] /\ UNCHANGED downloads
  BY DEF Completion, MainNext
<1>2. /\ mainQueue \in Seq(MainItem) /\ queue \in Seq(QueueItem) /\ task \in Seq(TaskRec)
      /\ Len(task) \in Nat
  BY LenProperties DEF IInv, ShapeInv
<1>3. u \in 1..Len(task)
  <2>1. /\ 1 \in 1..Len(mainQueue) /\ Head(mainQueue) = mainQueue[1]
    BY <1>1, <1>2, Taken
  <2> QED BY <1>1, <2>1 DEF IInv, DoneInv
<1>4. \A t \in 1..Len(task) : task[t] \in TaskRec BY <1>2, ElementOfSeq
<1>5. e \in QueueItem /\ e.op = "remove" /\ e.key = task[u].key
  BY <1>3, <1>4 DEF TaskRec, QueueItem
<1> HIDE DEF e
<1>6. /\ \A k : Removes(queue, k) => Removes(queue', k)
      /\ Removes(queue', task[u].key)
  BY <1>1, <1>2, <1>5, Waiting
<1>7. \A t : Completes(mainQueue, t) => Completes(mainQueue', t) \/ t = u
  BY <1>1, <1>2, Waiting
<1>8. ASSUME NEW t \in 1..Len(task)
      PROVE  task'[t].pc = task[t].pc /\ task'[t].inFlight = task[t].inFlight
  <2>1. task[t] \in TaskRec /\ task'[t] = IF t = u THEN [task[u] EXCEPT !.calls = @ + 1]
                                          ELSE task[t]
    BY <1>1, <1>2, <1>4
  <2> QED BY <2>1 DEF TaskRec
<1>9. ASSUME NEW k \in Key PROVE HeldAt(k)'
  <2>1. HeldAt(k) BY HeldParts
  <2>2. downloads[k] # 0 => downloads[k] \in 1..Len(task) /\ task[downloads[k]].key = k
    BY <1>2 DEF IInv, TypeOK, KeyInv
  <2>3. downloads'[k] = downloads[k] BY <1>1
  <2> HIDE DEF u
  <2> QED BY <1>6, <1>7, <1>8, <2>1, <2>2, <2>3, HeldKept
<1>10. \A k \in Key : HeldAt(k)' BY <1>9
<1> QED BY <1>10 DEF HeldInv, HeldAt

\* A registration or a removal runs.
LEMMA BookHeld ==
  ASSUME IInv, HeldInv, RegisterAnnouncement \/ RemoveDownload
  PROVE  HeldInv'
<1>1. /\ queue # <<>> /\ queue' = Tail(queue) /\ UNCHANGED <<mainQueue, task>>
      /\ \/ Head(queue).op = "register" /\ downloads' = downloads
         \/ Head(queue).op = "remove" /\ downloads' = [downloads EXCEPT ![Head(queue).key] = 0]
  BY DEF RegisterAnnouncement, RemoveDownload, QueueNext
<1>2. queue \in Seq(QueueItem) BY DEF IInv, ShapeInv
<1>3. \A k : Removes(queue, k)
               => Removes(queue', k) \/ (Head(queue).op = "remove" /\ Head(queue).key = k)
  BY <1>1, <1>2, Waiting
<1>4. downloads \in [Key -> 0..Len(task)] BY DEF IInv, TypeOK
<1>5. ASSUME NEW k \in Key PROVE HeldAt(k)'
  <2>1. HeldAt(k) BY HeldParts
  <2>2. CASE downloads'[k] = 0 BY <2>1, <2>2, HeldKept
  <2>3. CASE downloads'[k] # 0
    <3>1. downloads'[k] = downloads[k] BY <1>1, <1>4, <2>3
    <3>2. ~(Head(queue).op = "remove" /\ Head(queue).key = k) BY <1>1, <1>4, <2>3
    <3> QED BY <1>1, <1>3, <2>1, <3>1, <3>2, HeldKept
  <2> QED BY <2>2, <2>3
<1> QED BY <1>5 DEF HeldInv, HeldAt

\* A cancelled task is not held any more, and no other is touched.
LEMMA CancelHeld == ASSUME IInv, HeldInv, CancelTransfer PROVE HeldInv'
<1> DEFINE x == Head(queue).transfer
           ended == ToCancel(x)
<1>1. /\ queue # <<>> /\ Head(queue).op = "cancel" /\ queue' = Tail(queue)
      /\ task' = [t \in DOMAIN task |->
                    IF t \in ended THEN FinishedAs(task[t], FALSE) ELSE task[t]]
      /\ \E order \in SetToSeqs(ended) :
           mainQueue' = mainQueue \o
             [i \in DOMAIN order |-> [op |-> "completion", task |-> order[i]]]
      /\ downloads' = [k \in Key |-> IF TransferOf[k] = x THEN 0 ELSE downloads[k]]
  BY DEF CancelTransfer, QueueNext
<1>2. /\ mainQueue \in Seq(MainItem) /\ Len(mainQueue) \in Nat /\ queue \in Seq(QueueItem)
      /\ DOMAIN task = 1..Len(task) /\ Len(task) \in Nat
  BY LenProperties DEF IInv, ShapeInv
<1>3. \A k \in Key : downloads[k] # 0 => downloads[k] \in 1..Len(task)
                                         /\ task[downloads[k]].key = k
  BY <1>2 DEF IInv, TypeOK, KeyInv
<1>4. ended \subseteq 1..Len(task)
      /\ \A t \in ended : TransferOf[task[t].key] = x
  BY <1>3 DEF ToCancel
<1> HIDE DEF ended, x
<1>5. \A t : Completes(mainQueue, t) => Completes(mainQueue', t)
  <2>1. PICK order \in SetToSeqs(ended) :
          mainQueue' = mainQueue \o
            [i \in DOMAIN order |-> [op |-> "completion", task |-> order[i]]]
    BY <1>1
  <2> DEFINE n == Cardinality(ended)
             more == [i \in 1..n |-> [op |-> "completion", task |-> order[i]]]
  <2>2. n \in Nat
    <3>1. IsFiniteSet(1..Len(task)) BY <1>2, FS_Interval
    <3>2. IsFiniteSet(ended) BY <1>4, <3>1, FS_Subset
    <3> QED BY <3>2, FS_CardinalityType
  <2>3. order \in [1..n -> ended] BY <2>1 DEF SetToSeqs
  <2> HIDE DEF n
  <2>4. more \in Seq(MainItem)
    <3>1. ASSUME NEW i \in 1..n PROVE order[i] \in Nat
      <4>1. order[i] \in ended BY <2>3
      <4>2. order[i] \in 1..Len(task) BY <1>4, <4>1
      <4> QED BY <1>2, <4>2
    <3>2. \A i \in 1..n : [op |-> "completion", task |-> order[i]] \in MainItem
      BY <3>1 DEF MainItem
    <3> QED BY <2>2, <3>2
  <2>5. mainQueue' = mainQueue \o more BY <2>1, <2>3
  <2> HIDE DEF more
  <2> DEFINE m == mainQueue'
  <2>6. m = mainQueue \o more BY <2>5
  <2> HIDE DEF m
  <2>7. /\ Len(m) = Len(mainQueue) + Len(more) /\ Len(more) \in Nat
        /\ \A i \in 1..Len(m) :
             m[i] = IF i <= Len(mainQueue) THEN mainQueue[i] ELSE more[i - Len(mainQueue)]
    BY <1>2, <2>4, <2>6, Joined, LenProperties
  <2>8. \A i \in 1..Len(mainQueue) : i \in 1..Len(m) /\ m[i] = mainQueue[i] BY <1>2, <2>7
  <2>9. \A t : Completes(mainQueue, t) => Completes(m, t) BY <2>8 DEF Completes
  <2> QED BY <2>9 DEF m
<1>6. \A k : Removes(queue, k) => Removes(queue', k) BY <1>1, <1>2, Waiting
<1>7. ASSUME NEW k \in Key PROVE HeldAt(k)'
  <2>1. HeldAt(k) BY HeldParts
  <2>2. CASE downloads'[k] = 0 BY <2>1, <2>2, HeldKept
  <2>3. CASE downloads'[k] # 0
    <3>1. downloads'[k] = downloads[k] /\ TransferOf[k] # x BY <1>1, <2>3
    <3>2. downloads[k] \in 1..Len(task) /\ downloads[k] \notin ended BY <1>3, <1>4, <2>3, <3>1
    <3>3. task'[downloads[k]] = task[downloads[k]] BY <1>1, <1>2, <3>2
    <3> QED BY <1>5, <1>6, <2>1, <3>1, <3>3, HeldKept
  <2> QED BY <2>2, <2>3
<1> QED BY <1>7 DEF HeldInv, HeldAt

\* A task handles the block made for it, and waits for an answer or completes.
LEMMA TaskHeld ==
  ASSUME IInv, HeldInv, queue # <<>>, queue' = Tail(queue), Head(queue).op # "remove",
         NEW t \in 1..Len(task), NEW s, task' = [task EXCEPT ![t] = s],
         NEW h \in Key, task[t].key = h, downloads' = [downloads EXCEPT ![h] = t],
         \/ s.pc = "running" /\ s.inFlight > 0 /\ mainQueue' = mainQueue
         \/ s.pc = "finished" /\ mainQueue' = Hop(t)
  PROVE  HeldInv'
<1> DEFINE e == [op |-> "completion", task |-> t]
<1>1. /\ mainQueue \in Seq(MainItem) /\ queue \in Seq(QueueItem) /\ task \in Seq(TaskRec)
      /\ DOMAIN task = 1..Len(task) /\ Len(task) \in Nat
  BY LenProperties DEF IInv, ShapeInv
<1>2. e \in MainItem /\ e.op = "completion" /\ e.task = t BY <1>1 DEF MainItem
<1>3. Hop(t) = Append(mainQueue, e) BY DEF Hop
<1> HIDE DEF e
<1>4. /\ \A u : Completes(mainQueue, u) => Completes(Hop(t), u)
      /\ Completes(Hop(t), t)
  BY <1>1, <1>2, <1>3, Waiting
<1>5. \A k : Removes(queue, k) => Removes(queue', k) BY <1>1, Waiting
<1>6. \A k \in Key : downloads[k] # 0 => downloads[k] \in 1..Len(task)
                                         /\ task[downloads[k]].key = k
  BY <1>1 DEF IInv, TypeOK, KeyInv
<1>7. downloads \in [Key -> 0..Len(task)] BY DEF IInv, TypeOK
<1>8. task'[t] = s BY <1>1
<1>9. ASSUME NEW k \in Key PROVE HeldAt(k)'
  <2>1. HeldAt(k) BY HeldParts
  <2>2. CASE k = h
    <3>1. downloads'[k] = t BY <1>7, <2>2
    <3> QED BY <1>4, <1>8, <3>1 DEF HeldAt
  <2>3. CASE k # h
    <3>1. downloads'[k] = downloads[k] BY <1>7, <2>3
    <3>2. downloads[k] # 0 => task'[downloads[k]] = task[downloads[k]] BY <1>1, <1>6, <2>3
    <3>3. \A u : Completes(mainQueue, u) => Completes(mainQueue', u) BY <1>4
    <3> QED BY <1>5, <2>1, <3>1, <3>2, <3>3, HeldKept
  <2> QED BY <2>2, <2>3
<1> QED BY <1>9 DEF HeldInv, HeldAt

\* A task that has not had every answer is waiting for one once its pipeline
\* is topped up.
LEMMA PrimeGoes ==
  ASSUME NEW r \in TaskRec, r.nextRequestOffset <= Size[r.key], r.inFlight <= kPipelineDepth,
         ~AllAnswered(r)
  PROVE  r.inFlight + PrimeCount(r) > 0 /\ PrimeCount(r) \in Nat
<1>1. /\ r.nextRequestOffset \in Nat /\ r.inFlight \in Nat /\ Size[r.key] \in Nat
      /\ kPipelineDepth \in Nat /\ kPipelineDepth > 0
  BY TransferAssumption DEF TaskRec
<1>2. r.nextRequestOffset < Size[r.key] \/ r.inFlight > 0 BY <1>1 DEF AllAnswered
<1> QED BY <1>1, <1>2 DEF PrimeCount

\* What primeRequests makes of the task.
LEMMA PrimedFlight ==
  ASSUME NEW r \in TaskRec, NEW n \in Nat
  PROVE  LET s == [r EXCEPT !.nextRequestOffset = @ + n, !.inFlight = @ + n]
         IN s.pc = r.pc /\ s.inFlight = r.inFlight + n
BY DEF TaskRec

\* A task is started.
LEMMA StartHeld == ASSUME IInv, HeldInv, Start PROVE HeldInv'
<1> DEFINE t == Head(queue).task
           k == task[t].key
<1>1. /\ queue # <<>> /\ Head(queue).op = "start" /\ queue' = Tail(queue)
      /\ downloads' = [downloads EXCEPT ![k] = t]
      /\ \/ /\ Size[k] > 0 /\ PrimeRequests(t, [task[t] EXCEPT !.pc = "running"])
            /\ UNCHANGED mainQueue
         \/ /\ task' = [task EXCEPT ![t] = FinishedAs(@, Size[k] = 0)]
            /\ mainQueue' = Hop(t)
  BY DEF Start, QueueNext
<1>2. t \in 1..Len(task) /\ task[t].pc = "queued"
  <2>1. Head(queue) = queue[1] /\ 1 \in 1..Len(queue) BY <1>1, Taken DEF IInv, ShapeInv
  <2> QED BY <1>1, <2>1 DEF IInv, StartInv
<1>3. task[t] \in TaskRec /\ task \in Seq(TaskRec) BY <1>2, ElementOfSeq DEF IInv, ShapeInv
<1>4. /\ task[t].nextRequestOffset = 0 /\ task[t].inFlight = 0 /\ k \in Key
  BY <1>2, <1>3 DEF IInv, StartInv, TaskRec
<1>5. Size[k] \in Nat /\ kPipelineDepth \in Nat BY <1>4, TransferAssumption
<1> HIDE DEF t
<1>6. CASE /\ Size[k] > 0 /\ PrimeRequests(t, [task[t] EXCEPT !.pc = "running"])
           /\ UNCHANGED mainQueue
  <2> DEFINE r == [task[t] EXCEPT !.pc = "running"]
             n == PrimeCount(r)
             s == [r EXCEPT !.nextRequestOffset = @ + n, !.inFlight = @ + n]
  <2>1. task' = [task EXCEPT ![t] = s] BY <1>6 DEF PrimeRequests
  <2>2. /\ r \in TaskRec /\ r.key = k /\ r.pc = "running" /\ r.nextRequestOffset = 0
        /\ r.inFlight = 0
    BY <1>3, <1>4 DEF TaskRec
  <2> HIDE DEF r
  <2>3. r.inFlight + n > 0 /\ n \in Nat
    <3>1. r.nextRequestOffset <= Size[r.key] /\ r.inFlight <= kPipelineDepth BY <1>5, <2>2
    <3>2. ~AllAnswered(r) BY <1>5, <1>6, <2>2 DEF AllAnswered
    <3> QED BY <2>2, <3>1, <3>2, PrimeGoes
  <2> HIDE DEF n
  <2>4. s.pc = "running" /\ s.inFlight > 0 BY <2>2, <2>3, PrimedFlight
  <2> HIDE DEF s
  <2> QED BY <1>1, <1>2, <1>4, <1>6, <2>1, <2>4, TaskHeld
<1>7. CASE /\ task' = [task EXCEPT ![t] = FinishedAs(@, Size[k] = 0)]
           /\ mainQueue' = Hop(t)
  <2> DEFINE s == FinishedAs(task[t], Size[k] = 0)
  <2>1. s.pc = "finished" BY <1>3, EndedRec
  <2>2. task' = [task EXCEPT ![t] = s] BY <1>3, <1>7
  <2> HIDE DEF s
  <2> QED BY <1>1, <1>2, <1>4, <1>7, <2>1, <2>2, TaskHeld
<1> QED BY <1>1, <1>6, <1>7

\* An answer is handled.
LEMMA ChunkHeld == ASSUME IInv, HeldInv, HandleChunkData PROVE HeldInv'
<1> DEFINE c == Head(queue)
           t == downloads[c.key]
           r == AnswerTaken(task[t])
           w == ChunkWritten(task[t], c.offset)
<1>1. /\ queue # <<>> /\ c.op = "chunk" /\ queue' = Tail(queue) /\ UNCHANGED downloads
  BY DEF HandleChunkData, QueueNext
<1>2. CASE t = 0 \/ (t # 0 => task[t].pc = "finished")
  <2>1. UNCHANGED <<mainQueue, task, requests>> BY <1>2 DEF HandleChunkData
  <2>2. queue \in Seq(QueueItem) BY DEF IInv, ShapeInv
  <2>3. \A k : Removes(queue, k) => Removes(queue', k) BY <1>1, <2>2, Waiting
  <2>4. ASSUME NEW k \in Key PROVE HeldAt(k)'
    <3>1. HeldAt(k) BY HeldParts
    <3> QED BY <1>1, <2>1, <2>3, <3>1, HeldKept
  <2> QED BY <2>4 DEF HeldInv, HeldAt
<1>3. CASE ~(t = 0 \/ (t # 0 => task[t].pc = "finished"))
  <2>1. \/ /\ task' = [task EXCEPT ![t] = FinishedAs(r, FALSE)]
           /\ mainQueue' = Hop(t) /\ UNCHANGED requests
        \/ /\ c.data # "none" /\ AllAnswered(w)
           /\ task' = [task EXCEPT ![t] = FinishedAs(w, TRUE)]
           /\ mainQueue' = Hop(t) /\ UNCHANGED requests
        \/ c.data # "none" /\ ~AllAnswered(w) /\ PrimeRequests(t, w) /\ UNCHANGED mainQueue
    <3>1. c.data \in {"none", "whole"}
      <4>1. c \in QueueItem BY <1>1, Taken DEF IInv, ShapeInv
      <4> QED BY <1>1, <4>1 DEF QueueItem
    <3> QED BY <1>3, <3>1 DEF HandleChunkData, AnswerTaken, ChunkWritten
  <2>2. /\ t \in 1..Len(task) /\ c.key = task[t].key /\ c.offset \in Due(t)
        /\ task[t].pc = "running" /\ Balanced(task[t], Due(t))
    BY <1>1, <1>3, ChunkTaken
  <2>3. task[t] \in TaskRec /\ task \in Seq(TaskRec) /\ DOMAIN task = 1..Len(task)
    BY <2>2, ElementOfSeq, LenProperties DEF IInv, ShapeInv
  <2>4. /\ r \in TaskRec /\ w \in TaskRec /\ w.pc = "running" /\ w.key = task[t].key
        /\ w.nextRequestOffset = task[t].nextRequestOffset
        /\ w.inFlight <= task[t].inFlight
    <3>1. Due(t) \in SUBSET Nat BY DEF Due, DueOf
    <3> DEFINE p == task[t]
               o == c.offset
               due == Due(t)
    <3>2. p \in TaskRec /\ due \in SUBSET Nat /\ Balanced(p, due) /\ o \in due
      BY <2>2, <2>3, <3>1
    <3> HIDE DEF p, o, due
    <3>3. LET y == ChunkWritten(p, o) IN
          /\ AnswerTaken(p) \in TaskRec /\ y \in TaskRec /\ y.key = p.key /\ y.pc = p.pc
          /\ y.nextRequestOffset = p.nextRequestOffset /\ y.inFlight <= p.inFlight
      BY <3>2, Answered
    <3> QED BY <2>2, <3>3 DEF p, o
  <2>5. /\ w.nextRequestOffset <= Size[w.key] /\ w.inFlight <= kPipelineDepth
    <3>1. /\ task[t].inFlight \in 0..kPipelineDepth
          /\ task[t].nextRequestOffset \in 0..Size[task[t].key]
      BY <2>2, <2>3 DEF IInv, TypeOK
    <3>2. task[t].inFlight <= kPipelineDepth /\ task[t].nextRequestOffset <= Size[task[t].key]
          /\ kPipelineDepth \in Nat /\ task[t].inFlight \in Nat
      BY <3>1, TransferAssumption
    <3> HIDE DEF t, w
    <3>3. w.inFlight \in Nat BY <2>4 DEF TaskRec
    <3> QED BY <2>4, <3>2, <3>3
  <2>6. c.key \in Key BY <2>2, <2>3 DEF TaskRec
  <2>7. downloads' = [downloads EXCEPT ![c.key] = t]
    <3>1. downloads \in [Key -> 0..Len(task)] BY DEF IInv, TypeOK
    <3>2. downloads' = downloads BY <1>1
    <3> QED BY <2>6, <3>1, <3>2
  <2> HIDE DEF t, r, w
  <2>8. ASSUME NEW p \in TaskRec, NEW b \in BOOLEAN,
               task' = [task EXCEPT ![t] = FinishedAs(p, b)], mainQueue' = Hop(t)
        PROVE  HeldInv'
    <3> DEFINE s == FinishedAs(p, b)
    <3>1. s.pc = "finished" BY EndedRec
    <3>2. task' = [task EXCEPT ![t] = s] BY <2>8
    <3> HIDE DEF s
    <3> QED BY <1>1, <2>2, <2>6, <2>7, <2>8, <3>1, <3>2, TaskHeld
  <2>9. CASE ~AllAnswered(w) /\ PrimeRequests(t, w) /\ UNCHANGED mainQueue
    <3> DEFINE n == PrimeCount(w)
               s == [w EXCEPT !.nextRequestOffset = @ + n, !.inFlight = @ + n]
    <3>1. task' = [task EXCEPT ![t] = s] BY <2>9 DEF PrimeRequests
    <3>2. w.inFlight + n > 0 /\ n \in Nat BY <2>4, <2>5, <2>9, PrimeGoes
    <3> HIDE DEF n
    <3>3. s.pc = "running" /\ s.inFlight > 0 BY <2>4, <3>2, PrimedFlight
    <3> HIDE DEF s
    <3> QED BY <1>1, <2>2, <2>6, <2>7, <2>9, <3>1, <3>3, TaskHeld
  <2> QED BY <2>1, <2>4, <2>8, <2>9
<1> QED BY <1>2, <1>3

\* Every step keeps the two invariants.
LEMMA LeftStep ==
  ASSUME ~Repaste, Unreliable = {}, IInv, IInv', BookInv, HeldInv, [Next]_vars
  PROVE  BookInv' /\ HeldInv'
<1>1. /\ queue \in Seq(QueueItem) /\ task \in Seq(TaskRec) /\ Len(task) \in Nat
      /\ DOMAIN task = 1..Len(task)
  BY LenProperties DEF IInv, ShapeInv
<1>2. ASSUME NEW tr \in Transfer \cup {NoTransfer},
             mainQueue' = Append(mainQueue, [op |-> "announce", transfer |-> tr]),
             UNCHANGED <<activeTransferID, queue, announcements, downloads, task>>
      PROVE  BookInv' /\ HeldInv'
  <2> DEFINE e == [op |-> "announce", transfer |-> tr]
             f == [op |-> "start", task |-> 0]
  <2>1. e \in MainItem /\ f \in QueueItem BY DEF MainItem, QueueItem
  <2>2. mainQueue' = Append(mainQueue, e) BY <1>2
  <2> HIDE DEF e, f
  <2>3. HeldInv' BY <1>2, <2>1, <2>2, PostedHeld
  <2> QED BY <1>2, <2>3 DEF BookInv
<1>3. ASSUME NEW tr \in Transfer, AnnounceFiles(tr) PROVE BookInv' /\ HeldInv'
  BY <1>2, <1>3 DEF AnnounceFiles
<1>4. CASE Replace BY <1>2, <1>4 DEF Replace
<1>5. CASE Publish BY <1>5, PublishBooks, PublishHeld
<1>6. CASE Completion
  <2> DEFINE e == [op |-> "remove", key |-> task[Head(mainQueue).task].key]
  <2>1. queue' = Append(queue, e) /\ UNCHANGED <<announcements, activeTransferID>>
    BY <1>6 DEF Completion
  <2>2. e.op \notin {"register", "cancel"} OBVIOUS
  <2>3. e \in QueueItem
    <3>1. Head(mainQueue).task \in 1..Len(task)
      <4>1. /\ mainQueue # <<>> /\ Head(mainQueue).op = "completion"
        BY <1>6 DEF Completion, MainNext
      <4>2. 1 \in 1..Len(mainQueue) /\ Head(mainQueue) = mainQueue[1]
        BY <4>1, Taken DEF IInv, ShapeInv
      <4> QED BY <4>1, <4>2 DEF IInv, DoneInv
    <3>2. task[Head(mainQueue).task].key \in Key BY <1>1, <3>1 DEF IInv, TypeOK
    <3> QED BY <3>2 DEF QueueItem
  <2> HIDE DEF e
  <2>4. BookInv' BY <2>1, <2>2, <2>3, AppendBooks
  <2> QED BY <1>6, <2>4, CompletionHeld
<1>7. CASE RegisterAnnouncement \/ RemoveDownload
  <2>1. /\ queue # <<>> /\ queue' = Tail(queue) /\ UNCHANGED activeTransferID
        /\ \/ Head(queue).op = "register"
              /\ announcements' = announcements \cup {Head(queue).transfer}
           \/ Head(queue).op \notin {"register", "cancel"} /\ UNCHANGED announcements
    BY <1>7 DEF RegisterAnnouncement, RemoveDownload, QueueNext
  <2> QED BY <1>7, <2>1, TailBooks, BookHeld
<1>8. CASE Start
  <2>1. /\ queue # <<>> /\ queue' = Tail(queue) /\ UNCHANGED <<announcements, activeTransferID>>
        /\ Head(queue).op \notin {"register", "cancel"}
    BY <1>8 DEF Start, QueueNext
  <2> QED BY <1>8, <2>1, TailBooks, StartHeld
<1>9. CASE HandleChunkData
  <2>1. /\ queue # <<>> /\ queue' = Tail(queue) /\ UNCHANGED <<announcements, activeTransferID>>
        /\ Head(queue).op \notin {"register", "cancel"}
    BY <1>9 DEF HandleChunkData, QueueNext
  <2> QED BY <1>9, <2>1, TailBooks, ChunkHeld
<1>10. CASE CancelTransfer
  <2>1. /\ queue # <<>> /\ queue' = Tail(queue) /\ UNCHANGED activeTransferID
        /\ Head(queue).op = "cancel"
        /\ announcements' = announcements \ {Head(queue).transfer}
    BY <1>10 DEF CancelTransfer, QueueNext
  <2> QED BY <1>10, <2>1, TailBooks, CancelHeld
\* A block of the coordinator's queue that does not concern the bookkeeping.
<1>11. ASSUME NEW f \in QueueItem, f.op \notin {"register", "cancel"}, queue' = Append(queue, f),
              UNCHANGED <<mainQueue, downloads, announcements, activeTransferID>>,
              \A t \in 1..Len(task) : task'[t] = task[t]
       PROVE  BookInv' /\ HeldInv'
  <2> DEFINE e == [op |-> "announce", transfer |-> NoTransfer]
  <2>1. e \in MainItem BY DEF MainItem
  <2> HIDE DEF e
  <2> QED BY <1>11, <2>1, AppendBooks, PostedHeld
<1>12. ASSUME NEW k \in Key, WritePromiseTo(k) PROVE BookInv' /\ HeldInv'
  <2> DEFINE f == [op |-> "start", task |-> Len(task) + 1]
             r == [key |-> k, pc |-> "queued", nextRequestOffset |-> 0, inFlight |-> 0,
                   disk |-> {}, ok |-> FALSE, calls |-> 0]
  <2>1. /\ queue' = Append(queue, f) /\ task' = Append(task, r)
        /\ UNCHANGED <<mainQueue, downloads, announcements, activeTransferID>>
    BY <1>12 DEF WritePromiseTo
  <2>2. f \in QueueItem /\ f.op = "start" BY <1>1 DEF QueueItem
  <2>3. r \in TaskRec BY DEF TaskRec
  <2> HIDE DEF f, r
  <2>4. \A t \in 1..Len(task) : task'[t] = task[t] BY <1>1, <2>1, <2>3, Appended
  <2> QED BY <1>11, <2>1, <2>2, <2>4
<1>13. ASSUME NEW r \in requests, NEW data \in Data(r),
              ParentAnswers(r, data) \/ ParentRepeats(r, data)
       PROVE  BookInv' /\ HeldInv'
  <2> DEFINE f == [op |-> "chunk", key |-> task[r.task].key, offset |-> r.offset,
                   data |-> data, task |-> r.task]
  <2>1. /\ queue' = Append(queue, f)
        /\ UNCHANGED <<mainQueue, downloads, announcements, activeTransferID, task>>
    BY <1>13 DEF ParentAnswers, ParentRepeats, Answer
  <2>2. f \in QueueItem /\ f.op = "chunk"
    <3>1. r.task \in 1..Len(task) /\ r.offset \in Nat BY <1>1 DEF IInv, TypeOK
    <3>2. task[r.task].key \in Key /\ r.task \in Nat BY <1>1, <3>1 DEF IInv, TypeOK
    <3>3. data \in {"none", "whole"} BY DEF Data
    <3> QED BY <3>1, <3>2, <3>3 DEF QueueItem
  <2> HIDE DEF f
  <2> QED BY <1>11, <2>1, <2>2
<1>14. CASE UNCHANGED vars BY <1>14 DEF vars, BookInv, HeldInv
<1> QED BY <1>3, <1>4, <1>5, <1>6, <1>7, <1>8, <1>9, <1>10, <1>12, <1>13, <1>14
        DEF Next, MainStep, QueueStep

\* Nothing is left behind once the queues are empty: the coordinator holds no
\* task, and no transfer but the one on the pasteboard, whatever was cancelled,
\* failed or replaced on the way and in whichever order the queues ran.
THEOREM NothingIsLeft == ASSUME ~Repaste, Unreliable = {} PROVE Spec => []NoLeftovers
<1>1. Init => BookInv /\ HeldInv
  <2> SUFFICES ASSUME Init PROVE BookInv /\ HeldInv OBVIOUS
  <2>1. /\ queue = <<>> /\ announcements = {} /\ activeTransferID = NoTransfer
        /\ \A k \in Key : downloads[k] = 0
    BY DEF Init
  <2>2. Len(queue) = 0 BY <2>1, EmptySeq
  <2>3. BookInv BY <2>1, <2>2, TransferAssumption DEF BookInv, Booked
  <2> QED BY <2>1, <2>3 DEF HeldInv
<1>2. IInv /\ BookInv /\ HeldInv => NoLeftovers
  <2> SUFFICES ASSUME IInv, BookInv, HeldInv, mainQueue = <<>>, queue = <<>>, requests = {}
               PROVE  /\ \A k \in Key : downloads[k] = 0
                      /\ announcements = {activeTransferID} \cap Transfer
    BY DEF NoLeftovers
  <2>1. Len(queue) = 0 /\ Len(mainQueue) = 0 BY EmptySeq
  <2>2. announcements = {activeTransferID} \cap Transfer
    <3>1. \A tr \in Transfer : tr \in announcements <=> tr = activeTransferID
      BY <2>1 DEF BookInv, Booked
    <3>2. announcements \subseteq Transfer BY DEF IInv, TypeOK
    <3> QED BY <3>1, <3>2
  <2>3. ASSUME NEW k \in Key, downloads[k] # 0 PROVE FALSE
    <3> DEFINE t == downloads[k]
    <3>1. t \in 1..Len(task) /\ task[t].pc # "queued"
      <4>1. Len(task) \in Nat BY LenProperties DEF IInv, ShapeInv
      <4> QED BY <2>3, <4>1 DEF IInv, TypeOK, KeyInv
    <3>2. task[t] \in TaskRec BY <3>1, ElementOfSeq DEF IInv, ShapeInv
    <3>3. task[t].pc # "finished" BY <2>1, <2>3 DEF HeldInv, Completes, Removes
    <3>4. task[t].pc = "running" BY <3>1, <3>2, <3>3 DEF TaskRec
    <3>5. Balanced(task[t], Due(t)) /\ task[t].inFlight > 0
      BY <2>3, <3>4 DEF IInv, FlightInv, HeldInv
    <3>6. Due(t) = {} BY <2>1 DEF Due, DueOf
    <3>7. task[t].inFlight = 0 BY <3>5, <3>6, FS_EmptySet DEF Balanced
    <3> QED BY <3>5, <3>7
  <2> QED BY <2>2, <2>3
<1>3. ASSUME ~Repaste, Unreliable = {}
      PROVE  IInv /\ IInv' /\ (BookInv /\ HeldInv) /\ [Next]_vars => (BookInv /\ HeldInv)'
  BY <1>3, LeftStep
<1> QED BY <1>1, <1>2, <1>3, InvHolds, PTL DEF Spec
=============================================================================
