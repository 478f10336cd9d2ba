----------------------- MODULE WinDataObjectsProofs -----------------------
(***************************************************************************)
(* Proofs about WinDataObjects: whatever the pipe thread, the STA and the  *)
(* other applications do, every reference to a data object has a holder    *)
(* and every holder a reference.                                           *)
(***************************************************************************)
EXTENDS WinDataObjects, TLAPS

\* What the main thread has in hand: an object of ours, one it read, or none.
HoldsOurs == {"publish", "releaseFailed", "releasePrev", "clearOut"}
HoldsRead == {"chunk", "unpin", "releaseIn"}

\* Whose object each pointer points to.
OriginInv ==
  /\ outbound # 0 => origin[outbound] = "ours"
  /\ virtual # 0 => origin[virtual] = "read"
  /\ clip.by = "ole" => origin[clip.id] = "ours"
  /\ sta.pc \in {"check", "drop"} => sta.obj # 0 /\ origin[sta.obj] = "ours"
  /\ sta.pc = "update" /\ sta.obj # 0 => origin[sta.obj] = "read"
  /\ main.pc \in HoldsOurs => main.obj # 0 /\ origin[main.obj] = "ours"
  /\ main.pc \in HoldsRead => main.obj # 0 /\ origin[main.obj] = "read"
  /\ main.pc = "update" /\ main.obj # 0 => origin[main.obj] = "read"
  /\ main.pc \notin HoldsOurs \cup HoldsRead \cup {"update"} => main.obj = 0

\* How the threads follow each other: until the teardown only the STA changes
\* outbound_data_object_, so the pointer OnClipboardChanged has looked up is
\* still there when it drops it.
PhaseInv ==
  /\ sta.pc \in {"check", "drop"} /\ main.pc \in Serving => sta.obj = outbound
  /\ sta.pc \in {"wipe", "clearEnd"} => main.pc \in {"clearOut", "clearWindow"}
  /\ main.pc = "start" => refs = <<>> /\ sta.pc = "init"

\* What the parent knows: the list cached last is the one being sent or told.
ListInv ==
  /\ ~connected => told = Nothing
  /\ main.pc \notin Serving => ~connected
  /\ main.pc \in Serving /\ ~raced =>
       /\ sta.pc = "send" => main.pc # "reply" /\ cached = sta.list
       /\ main.pc = "reply" => cached = main.list
       /\ sta.pc # "send" /\ main.pc # "reply" /\ told # Nothing => cached = told

IInv == TypeOK /\ OriginInv /\ PhaseInv /\ RefsBalanced
-----------------------------------------------------------------------------
\* The counts are integers, and the main thread's object has one.
LEMMA Counts ==
  ASSUME IInv
  PROVE  /\ refs \in Seq(Int) /\ Len(refs) \in Nat /\ \A o \in 1..Len(refs) : refs[o] \in Int
         /\ main.obj \in Pointer /\ main.obj \in Nat
         /\ main.pc \in HoldsOurs \cup HoldsRead => main.obj \in 1..Len(refs)
<1>1. refs \in Seq(Int) BY DEF IInv, TypeOK, ObjectTypes
<1>2. Len(refs) \in Nat /\ \A o \in 1..Len(refs) : refs[o] \in Int BY <1>1
<1>3. main.obj \in Pointer /\ main.obj \in Nat /\ main.obj <= Len(refs)
  BY DEF IInv, TypeOK, ThreadTypes, Thread, Pointer
<1>4. main.pc \in HoldsOurs \cup HoldsRead => main.obj # 0 BY DEF IInv, OriginInv
<1> QED BY <1>1, <1>2, <1>3, <1>4

\* A dropped reference changes one count.
LEMMA ReleaseCount ==
  ASSUME NEW r \in Seq(Int), NEW o \in 1..Len(r)
  PROVE  /\ Release(r, o) \in Seq(Int) /\ Len(Release(r, o)) = Len(r)
         /\ \A p \in 1..Len(r) :
              r[p] \in Int /\ Release(r, o)[p] = IF p = o THEN r[p] - 1 ELSE r[p]
BY DEF Release

\* So does a reference taken.
LEMMA AddRefCount ==
  ASSUME NEW r \in Seq(Int), NEW o \in 1..Len(r)
  PROVE  /\ AddRef(r, o) \in Seq(Int) /\ Len(AddRef(r, o)) = Len(r)
         /\ \A p \in 1..Len(r) :
              r[p] \in Int /\ AddRef(r, o)[p] = IF p = o THEN r[p] + 1 ELSE r[p]
BY DEF AddRef

\* A new object leaves the others alone.
LEMMA AppendEntry ==
  ASSUME NEW S, NEW r \in Seq(S), NEW x \in S
  PROVE  /\ Append(r, x) \in Seq(S) /\ Len(Append(r, x)) = Len(r) + 1
         /\ Append(r, x)[Len(r) + 1] = x
         /\ \A p \in 1..Len(r) : Append(r, x)[p] = r[p]
OBVIOUS

\* OLE's reference goes with its object.
LEMMA OleDroppedCount ==
  ASSUME ObjectTypes
  PROVE  /\ OleDropped(refs) \in Seq(Int) /\ Len(OleDropped(refs)) = Len(refs)
         /\ \A p \in 1..Len(refs) :
              refs[p] \in Int /\
              OleDropped(refs)[p] = IF clip.by = "ole" /\ clip.id = p THEN refs[p] - 1 ELSE refs[p]
<1>1. CASE clip.by = "ole"
  <2>1. refs \in Seq(Int) /\ clip.id \in 1..Len(refs)
    BY <1>1 DEF ObjectTypes
  <2>2. OleDropped(refs) = Release(refs, clip.id)
    BY <1>1 DEF OleDropped
  <2> QED BY <1>1, <2>1, <2>2, ReleaseCount
<1>2. CASE clip.by # "ole"
  BY <1>2 DEF OleDropped, ObjectTypes
<1> QED BY <1>1, <1>2

\* A thread with an object in hand, or none.
LEMMA ThreadAt ==
  /\ \A pc \in StaStep : At(pc) \in Thread(StaStep)
  /\ \A pc \in StaStep, o \in Pointer : With(pc, o) \in Thread(StaStep)
  /\ \A pc \in MainStep : At(pc) \in Thread(MainStep)
  /\ \A pc \in MainStep, o \in Pointer : With(pc, o) \in Thread(MainStep)
  /\ \A pc : At(pc).pc = pc /\ At(pc).obj = 0
  /\ \A pc, o : With(pc, o).pc = pc /\ With(pc, o).obj = o
BY BoundsAssumption DEF Thread, At, With, Nothing, Pointer, Clip

\* A step that changes no count and no holder.
LEMMA BalanceKept ==
  ASSUME RefsBalanced, UNCHANGED <<refs, origin>>, main'.pc \in Serving => main.pc \in Serving,
         \A o \in 1..Len(refs) : Held(o)' = Held(o)
  PROVE  RefsBalanced'
BY DEF RefsBalanced

\* A step that changes counts: by as much as the holders of the objects whose
\* balance is claimed.
LEMMA BalanceStep ==
  ASSUME RefsBalanced, ObjectTypes, ObjectTypes', Len(refs') = Len(refs), UNCHANGED origin,
         main'.pc \in Serving => main.pc \in Serving,
         \A o \in 1..Len(refs) :
           origin[o] = "read" \/ (origin[o] = "ours" /\ main.pc \in Serving) =>
             refs'[o] = refs[o] + (Held(o)' - Held(o))
  PROVE  RefsBalanced'
<1> SUFFICES ASSUME NEW o \in 1..Len(refs),
                    origin[o] = "read" \/ (origin[o] = "ours" /\ main.pc \in Serving)
             PROVE  refs'[o] = Held(o)'
  BY DEF RefsBalanced
<1>1. refs[o] = Held(o)
  BY DEF RefsBalanced
<1>2. Held(o) \in Int /\ Held(o)' \in Int
  BY DEF Held, One
<1> QED BY <1>1, <1>2

\* A step that creates an object: its one reference is held.
LEMMA BalanceAppend ==
  ASSUME RefsBalanced, ObjectTypes, NEW k \in {"ours", "read", "empty"},
         refs' = Append(refs, 1), origin' = Append(origin, k),
         main'.pc \in Serving => main.pc \in Serving,
         \A o \in 1..Len(refs) : Held(o)' = Held(o),
         \A n \in Nat : k # "empty" /\ n = Len(refs) + 1 => Held(n)' = 1
  PROVE  RefsBalanced'
<1>1. /\ Len(refs') = Len(refs) + 1 /\ refs'[Len(refs) + 1] = 1
      /\ origin'[Len(refs) + 1] = k
      /\ \A o \in 1..Len(refs) : refs'[o] = refs[o] /\ origin'[o] = origin[o]
  BY AppendEntry DEF ObjectTypes
<1>2. ASSUME NEW o \in 1..Len(refs'),
             origin'[o] = "read" \/ (origin'[o] = "ours" /\ main'.pc \in Serving)
      PROVE  refs'[o] = Held(o)'
  <2>1. CASE o \in 1..Len(refs)
    BY <1>1, <1>2, <2>1 DEF RefsBalanced
  <2>2. CASE o = Len(refs) + 1
    BY <1>1, <1>2, <2>2 DEF ObjectTypes
  <2> QED BY <1>1, <2>1, <2>2 DEF ObjectTypes
<1> QED BY <1>2 DEF RefsBalanced

\* Initially there is no object.
LEMMA InvInit == Init => IInv
<1> SUFFICES ASSUME Init PROVE IInv
  OBVIOUS
<1> USE DEF Init
<1>1. ClipTypes
  BY BoundsAssumption DEF ClipTypes, Clip, Nothing
<1>2. ObjectTypes
  BY BoundsAssumption DEF ObjectTypes, Nothing
<1>3. FlagTypes
  BY DEF FlagTypes
<1>4. ThreadTypes
  <2>1. sta \in Thread(StaStep) /\ main \in Thread(MainStep) /\ sta.obj = 0 /\ main.obj = 0
    BY ThreadAt DEF StaStep, MainStep
  <2> QED BY <2>1 DEF ThreadTypes
<1>5. OriginInv /\ PhaseInv /\ RefsBalanced
  BY DEF OriginInv, PhaseInv, RefsBalanced, At, Nothing, HoldsOurs, HoldsRead, Serving
<1> QED BY <1>1, <1>2, <1>3, <1>4, <1>5 DEF IInv, TypeOK

\* Another application copies: OLE drops our object.
LEMMA AppCopyStep ==
  ASSUME IInv, NEW kind \in {"none", "paths", "virtual", "empty"}, AppCopy(kind)
  PROVE  IInv'
<1> USE DEF IInv, TypeOK, AppCopy, Take, cacheVars, lifeVars
<1>1. ClipTypes'
  BY BoundsAssumption DEF ClipTypes, Clip
<1>2. ObjectTypes'
  BY OleDroppedCount DEF ObjectTypes
<1>3. FlagTypes'
  BY DEF FlagTypes
<1>4. ThreadTypes'
  BY OleDroppedCount DEF ThreadTypes
<1>5. OriginInv'
  BY DEF OriginInv
<1>6. PhaseInv'
  BY OleDroppedCount DEF PhaseInv, ObjectTypes
<1>7. RefsBalanced'
  BY OleDroppedCount DEF RefsBalanced, Held, One
<1> QED BY <1>1, <1>2, <1>3, <1>4, <1>5, <1>6, <1>7

\* OnClipboardChanged begins, and asks whether our object is current.
LEMMA ChangedLookStep ==
  ASSUME IInv, ChangedBegin \/ ChangedCheck
  PROVE  IInv'
<1> USE DEF IInv, TypeOK, ChangedBegin, ChangedCheck, Dispatching, clipVars, objVars, cacheVars,
            lifeVars
<1>0. /\ 0 \in Pointer /\ outbound \in Pointer /\ sta.obj \in Pointer /\ Nothing \in Clip
      /\ sta.obj \in Nat
  BY BoundsAssumption DEF Pointer, ObjectTypes, ThreadTypes, Thread, Clip, Nothing
<1>1. ClipTypes'
  BY DEF ClipTypes
<1>2. ObjectTypes'
  BY DEF ObjectTypes
<1>3. FlagTypes'
  BY DEF FlagTypes
<1>4. ThreadTypes'
  BY <1>0, ThreadAt DEF ThreadTypes, ObjectTypes, StaStep
<1>5. OriginInv'
  BY DEF OriginInv, At, With
<1>6. PhaseInv'
  BY DEF PhaseInv, At, With
<1>7. RefsBalanced'
  <2>1. \A o \in 1..Len(refs) : Held(o)' = Held(o)
    BY DEF Held, One, At, With
  <2> QED BY <2>1, BalanceKept
<1> QED BY <1>1, <1>2, <1>3, <1>4, <1>5, <1>6, <1>7

\* It drops the reference to our object, which is the one outbound holds.
LEMMA ChangedDropStep ==
  ASSUME IInv, ChangedDrop
  PROVE  IInv'
<1> USE DEF IInv, TypeOK, ChangedDrop, clipVars, objVars, cacheVars, lifeVars
<1>0. /\ sta.obj \in 1..Len(refs) /\ refs \in Seq(Int) /\ origin[sta.obj] = "ours"
      /\ 0 \in Pointer /\ Nothing \in Clip
  BY BoundsAssumption
     DEF ObjectTypes, ThreadTypes, Thread, Pointer, OriginInv, Clip, Nothing
<1>1. ClipTypes'
  BY DEF ClipTypes
<1>2. ObjectTypes'
  BY <1>0, ReleaseCount DEF ObjectTypes
<1>3. FlagTypes'
  BY DEF FlagTypes
<1>4. ThreadTypes'
  BY <1>0, ThreadAt, ReleaseCount DEF ThreadTypes, ObjectTypes, StaStep
<1>5. OriginInv'
  BY DEF OriginInv, At
<1>6. PhaseInv'
  BY DEF PhaseInv, At
<1>7. RefsBalanced'
  <2> SUFFICES ASSUME NEW o \in 1..Len(refs),
                      origin[o] = "read" \/ (origin[o] = "ours" /\ main.pc \in Serving)
               PROVE  refs'[o] = Held(o)'
    BY <1>0, ReleaseCount DEF RefsBalanced
  <2>1. refs[o] = Held(o) /\ refs[o] \in Int
    BY <1>0, ReleaseCount DEF RefsBalanced
  <2>2. CASE o = sta.obj
    <3>1. outbound = o /\ outbound' = 0 /\ o # 0
      BY <1>0, <2>2 DEF PhaseInv
    <3>2. refs'[o] = refs[o] - 1
      BY <1>0, <2>2, ReleaseCount
    <3> QED BY <2>1, <3>1, <3>2 DEF Held, One, At
  <2>3. CASE o # sta.obj
    <3>1. refs'[o] = refs[o] /\ (outbound' = o <=> outbound = o)
      BY <1>0, <2>3, ReleaseCount
    <3> QED BY <2>1, <3>1 DEF Held, One, At
  <2> QED BY <2>2, <2>3
<1> QED BY <1>1, <1>2, <1>3, <1>4, <1>5, <1>6, <1>7

\* Connections, the watchdog and the ways to stop change no object.
LEMMA ConnectionStep ==
  ASSUME IInv, Connect \/ Disconnect \/ ParentDies \/ WatchdogWakes \/ Shutdown
  PROVE  IInv'
<1> USE DEF IInv, TypeOK, Connect, Disconnect, ParentDies, WatchdogWakes, Shutdown, clipVars,
            objVars, cacheVars, lifeVars
<1>1. ClipTypes'
  BY DEF ClipTypes, Clip, Nothing
<1>2. ObjectTypes'
  BY DEF ObjectTypes
<1>3. FlagTypes'
  BY Zenon DEF FlagTypes
<1>4. ThreadTypes'
  BY DEF ThreadTypes, ObjectTypes
<1>5. OriginInv'
  BY DEF OriginInv, HoldsOurs, HoldsRead
<1>6. PhaseInv'
  BY DEF PhaseInv, Serving
<1>7. RefsBalanced'
  <2>1. \A o \in 1..Len(refs) : Held(o)' = Held(o)
    BY DEF Held, One
  <2>2. main'.pc \in Serving => main.pc \in Serving
    BY DEF Serving
  <2> QED BY <2>1, <2>2, BalanceKept
<1> QED BY <1>1, <1>2, <1>3, <1>4, <1>5, <1>6, <1>7

\* A frame that is passed to the STA, and a list that is sent.
LEMMA FrameStep ==
  ASSUME IInv, SetClipboard \/ GetClipboard \/ ChangedSend \/ GetReply
  PROVE  IInv'
<1> USE DEF IInv, TypeOK, SetClipboard, GetClipboard, Frame, ChangedSend, GetReply, Tell,
            clipVars, objVars, cacheVars, lifeVars
<1>0. sta.list \in Clip /\ main.list \in Clip
  BY DEF ThreadTypes, Thread
<1>1. ClipTypes'
  BY <1>0, BoundsAssumption DEF ClipTypes
<1>2. ObjectTypes'
  BY <1>0 DEF ObjectTypes
<1>3. FlagTypes'
  BY <1>0 DEF FlagTypes
<1>4. ThreadTypes'
  <2>1. sta' \in Thread(StaStep) \/ sta' = sta
    BY ThreadAt DEF StaStep
  <2>2. main' \in Thread(MainStep) \/ main' = main
    BY ThreadAt DEF MainStep, Serving, Teardown
  <2>3. sta'.obj \in {0, sta.obj} /\ main'.obj \in {0, main.obj}
    BY DEF At
  <2> QED BY <2>1, <2>2, <2>3 DEF ThreadTypes, ObjectTypes
<1>5. OriginInv'
  BY <1>0 DEF OriginInv, HoldsOurs, HoldsRead, At
<1>6. PhaseInv'
  BY <1>0 DEF PhaseInv, Serving, At
<1>7. RefsBalanced'
  <2>1. \A o \in 1..Len(refs) : Held(o)' = Held(o)
    BY DEF Held, One, At, OriginInv, HoldsOurs, HoldsRead
  <2>2. main'.pc \in Serving => main.pc \in Serving
    BY DEF Serving, At
  <2> QED BY <2>1, <2>2, BalanceKept
<1> QED BY <1>1, <1>2, <1>3, <1>4, <1>5, <1>6, <1>7

\* The steps of the teardown that only move on.
LEMMA TeardownStep ==
  ASSUME IInv, ServeEnds \/ JoinWatchdog \/ RunClear \/ StaStop \/ StaExit \/ StaJoined
  PROVE  IInv'
<1> USE DEF IInv, TypeOK, ServeEnds, JoinWatchdog, RunClear, StaStop, StaExit, StaJoined,
            Dispatching, clipVars, objVars, cacheVars, lifeVars
<1>1. ClipTypes'
  BY DEF ClipTypes, Clip, Nothing
<1>2. ObjectTypes'
  BY DEF ObjectTypes
<1>3. FlagTypes'
  BY Zenon DEF FlagTypes
<1>4. ThreadTypes'
  <2>1. sta' \in Thread(StaStep) \/ sta' = sta
    BY ThreadAt DEF StaStep
  <2>2. main' \in Thread(MainStep) \/ main' = main
    BY ThreadAt DEF MainStep, Serving, Teardown
  <2>3. sta'.obj \in {0, sta.obj} /\ main'.obj \in {0, main.obj}
    BY DEF At
  <2> QED BY <2>1, <2>2, <2>3 DEF ThreadTypes, ObjectTypes
<1>5. OriginInv'
  BY DEF OriginInv, HoldsOurs, HoldsRead, At
<1>6. PhaseInv'
  BY DEF PhaseInv, Serving, At
<1>7. RefsBalanced'
  <2>1. \A o \in 1..Len(refs) : Held(o)' = Held(o)
    BY DEF Held, One, At, OriginInv, HoldsOurs, HoldsRead
  <2>2. main'.pc \in Serving => main.pc \in Serving
    BY DEF Serving, At
  <2> QED BY <2>1, <2>2, BalanceKept
<1> QED BY <1>1, <1>2, <1>3, <1>4, <1>5, <1>6, <1>7

\* What ReadClipboard leaves: nothing new, or one object that is handed out or
\* belongs to nobody.
LEMMA ReadOutcome ==
  ASSUME IInv, NEW list \in {Nothing, clip}, NEW obj \in {0, Len(refs) + 1},
         ReadClipboard(list, obj)
  PROVE  /\ list \in Clip /\ obj \in 0..Len(refs') /\ obj \in Pointer
         /\ refs' \in Seq(Int) /\ Len(refs') <= MaxObjects /\ Len(refs) <= Len(refs')
         /\ origin' \in Seq({"ours", "read", "empty"}) /\ Len(origin') = Len(refs')
         /\ \A o \in 1..Len(refs) : origin'[o] = origin[o]
         /\ \/ UNCHANGED <<refs, origin>> /\ obj = 0
            \/ /\ refs' = Append(refs, 1)
               /\ \/ origin' = Append(origin, "read") /\ obj = Len(refs) + 1
                                                     /\ origin'[obj] = "read"
                  \/ origin' = Append(origin, "empty") /\ obj = 0
<1>1. list \in Clip
  BY DEF IInv, TypeOK, ClipTypes, Clip, Nothing
<1>2. CASE UNCHANGED objVars
  <2>1. obj = 0
    BY <1>2, AppendEntry DEF ReadClipboard, objVars, IInv, TypeOK, ObjectTypes
  <2> QED BY <1>1, <1>2, <2>1, BoundsAssumption DEF objVars, IInv, TypeOK, ObjectTypes, Pointer
<1>3. CASE Len(refs) < MaxObjects /\ refs' = Append(refs, 1)
           /\ origin' = Append(origin, "read") /\ obj = Len(refs) + 1
  BY <1>1, <1>3, AppendEntry, BoundsAssumption DEF IInv, TypeOK, ObjectTypes, Pointer
<1>4. CASE Len(refs) < MaxObjects /\ refs' = Append(refs, 1)
           /\ origin' = Append(origin, "empty") /\ obj = 0
  BY <1>1, <1>4, AppendEntry, BoundsAssumption DEF IInv, TypeOK, ObjectTypes, Pointer
<1> QED BY <1>2, <1>3, <1>4 DEF ReadClipboard

\* OnClipboardChanged reads the clipboard.
LEMMA ChangedReadStep ==
  ASSUME IInv, ChangedRead
  PROVE  IInv'
<1> USE DEF IInv, TypeOK, clipVars, cacheVars, lifeVars
<1>0. PICK list \in {Nothing, clip}, obj \in {0, Len(refs) + 1} :
        /\ \/ ReadClipboard(list, obj)
           \/ UNCHANGED <<refs, origin>> /\ list = Nothing /\ obj = 0
        /\ \/ /\ sta' = [pc |-> "update", obj |-> obj, list |-> list]
           \/ /\ sta' = At("pump") /\ obj = 0
  <2>1. ASSUME NEW list \in {Nothing, clip}, NEW obj \in {0, Len(refs) + 1},
               ReadClipboard(list, obj)
        PROVE  list = Nothing => obj = 0
    BY <2>1 DEF ReadClipboard, Nothing
  <2> QED BY <2>1 DEF ChangedRead, objVars
<1>1. /\ list \in Clip /\ obj \in 0..Len(refs') /\ obj \in Pointer
      /\ refs' \in Seq(Int) /\ Len(refs') <= MaxObjects /\ Len(refs) <= Len(refs')
      /\ origin' \in Seq({"ours", "read", "empty"}) /\ Len(origin') = Len(refs')
      /\ \A o \in 1..Len(refs) : origin'[o] = origin[o]
      /\ \/ UNCHANGED <<refs, origin>> /\ obj = 0
         \/ /\ refs' = Append(refs, 1)
            /\ \/ origin' = Append(origin, "read") /\ obj = Len(refs) + 1
                                                  /\ origin'[obj] = "read"
               \/ origin' = Append(origin, "empty") /\ obj = 0
  <2>1. CASE ReadClipboard(list, obj)
    BY <2>1, ReadOutcome
  <2>2. CASE UNCHANGED <<refs, origin>> /\ list = Nothing /\ obj = 0
    BY <2>2, BoundsAssumption DEF ObjectTypes, Pointer, Clip, Nothing
  <2> QED BY <1>0, <2>1, <2>2
<1>2. /\ sta.pc = "read" /\ main' = main /\ UNCHANGED <<clip, notices, copies, outbound, virtual, cached>>
      /\ UNCHANGED <<raced, told, connected, listening, quit, stop, parent, watchdog>>
      /\ UNCHANGED <<cancelled, frames>>
  BY DEF ChangedRead
<1>3. ClipTypes' /\ FlagTypes'
  BY <1>2 DEF ClipTypes, FlagTypes
<1>4. ObjectTypes'
  BY <1>1, <1>2 DEF ObjectTypes
<1>5. ThreadTypes'
  <2>1. sta' \in Thread(StaStep) /\ sta'.obj \in {0, obj}
    BY <1>0, <1>1, ThreadAt, BoundsAssumption DEF Thread, StaStep, Serving
  <2>2. sta.obj \in Nat /\ main.obj \in Nat
    BY DEF ThreadTypes, Thread, Pointer
  <2> QED BY <1>1, <1>2, <2>1, <2>2 DEF ThreadTypes, ObjectTypes
<1>6. OriginInv'
  <2>1. \A o \in {outbound, virtual, sta.obj, main.obj} : o # 0 => origin'[o] = origin[o]
    BY <1>1 DEF ObjectTypes, ThreadTypes, Thread, Pointer
  <2>2. clip.by = "ole" => origin'[clip.id] = origin[clip.id]
    BY <1>1 DEF ObjectTypes
  <2>3. obj # 0 => origin'[obj] = "read"
    BY <1>1
  <2> QED BY <1>0, <1>2, <2>1, <2>2, <2>3 DEF OriginInv, HoldsOurs, HoldsRead, At
<1>7. PhaseInv'
  BY <1>0, <1>1, <1>2 DEF PhaseInv, Serving, At, ThreadTypes, Thread, MainStep
<1>8. RefsBalanced'
  <2>1. \A o \in 1..Len(refs) : Held(o)' = Held(o)
    BY <1>0, <1>1, <1>2 DEF Held, One, At, OriginInv, HoldsOurs, HoldsRead, ObjectTypes
  <2>2. main'.pc \in Serving => main.pc \in Serving
    BY <1>0, <1>2 DEF Serving, At
  <2>3. CASE UNCHANGED <<refs, origin>>
    BY <2>1, <2>2, <2>3, BalanceKept
  <2>4. CASE refs' = Append(refs, 1) /\ origin' = Append(origin, "empty")
    BY <2>1, <2>2, <2>4, BalanceAppend
  <2>5. CASE refs' = Append(refs, 1) /\ origin' = Append(origin, "read") /\ obj = Len(refs) + 1
    <3>1. ASSUME NEW n \in Nat, n = Len(refs) + 1
          PROVE  Held(n)' = 1
      <4>1. sta' = [pc |-> "update", obj |-> n, list |-> list]
        BY <1>0, <2>5, <3>1 DEF ObjectTypes
      <4>2. ~(clip.by = "ole" /\ clip.id = n) /\ outbound # n /\ virtual # n /\ main.obj # n
        BY <3>1 DEF ObjectTypes, ThreadTypes, Thread, Pointer
      <4> QED BY <1>2, <4>1, <4>2 DEF Held, One
    <3> QED BY <2>1, <2>2, <2>5, <3>1, BalanceAppend
  <2> QED BY <1>1, <2>3, <2>4, <2>5
<1> QED BY <1>3, <1>4, <1>5, <1>6, <1>7, <1>8

\* So does GET_CLIPBOARD, for the main thread.
LEMMA GetStep ==
  ASSUME IInv, RunGet
  PROVE  IInv'
<1> USE DEF IInv, TypeOK, clipVars, cacheVars, lifeVars
<1>0. PICK list \in {Nothing, clip}, obj \in {0, Len(refs) + 1} :
        /\ \/ ReadClipboard(list, obj)
           \/ UNCHANGED <<refs, origin>> /\ list = Nothing /\ obj = 0
        /\ \/ /\ main' = [pc |-> "update", obj |-> obj, list |-> list]
           \/ /\ main' = At("serve") /\ obj = 0
  <2>1. ASSUME NEW list \in {Nothing, clip}, NEW obj \in {0, Len(refs) + 1},
               ReadClipboard(list, obj)
        PROVE  list = Nothing => obj = 0
    BY <2>1 DEF ReadClipboard, Nothing
  <2> QED BY <2>1 DEF RunGet, objVars
<1>1. /\ list \in Clip /\ obj \in 0..Len(refs') /\ obj \in Pointer
      /\ refs' \in Seq(Int) /\ Len(refs') <= MaxObjects /\ Len(refs) <= Len(refs')
      /\ origin' \in Seq({"ours", "read", "empty"}) /\ Len(origin') = Len(refs')
      /\ \A o \in 1..Len(refs) : origin'[o] = origin[o]
      /\ \/ UNCHANGED <<refs, origin>> /\ obj = 0
         \/ /\ refs' = Append(refs, 1)
            /\ \/ origin' = Append(origin, "read") /\ obj = Len(refs) + 1
                                                  /\ origin'[obj] = "read"
               \/ origin' = Append(origin, "empty") /\ obj = 0
  <2>1. CASE ReadClipboard(list, obj)
    BY <2>1, ReadOutcome
  <2>2. CASE UNCHANGED <<refs, origin>> /\ list = Nothing /\ obj = 0
    BY <2>2, BoundsAssumption DEF ObjectTypes, Pointer, Clip, Nothing
  <2> QED BY <1>0, <2>1, <2>2
<1>2. /\ main.pc = "get" /\ sta' = sta /\ UNCHANGED <<clip, notices, copies, outbound, virtual, cached>>
      /\ UNCHANGED <<raced, told, connected, listening, quit, stop, parent, watchdog>>
      /\ UNCHANGED <<cancelled, frames>>
  BY DEF RunGet
<1>3. ClipTypes' /\ FlagTypes'
  BY <1>2 DEF ClipTypes, FlagTypes
<1>4. ObjectTypes'
  BY <1>1, <1>2 DEF ObjectTypes
<1>5. ThreadTypes'
  <2>1. main' \in Thread(MainStep) /\ main'.obj \in {0, obj}
    BY <1>0, <1>1, ThreadAt, BoundsAssumption DEF Thread, MainStep, Serving
  <2>2. sta.obj \in Nat /\ main.obj \in Nat
    BY DEF ThreadTypes, Thread, Pointer
  <2> QED BY <1>1, <1>2, <2>1, <2>2 DEF ThreadTypes, ObjectTypes
<1>6. OriginInv'
  <2>1. \A o \in {outbound, virtual, sta.obj, main.obj} : o # 0 => origin'[o] = origin[o]
    BY <1>1 DEF ObjectTypes, ThreadTypes, Thread, Pointer
  <2>2. clip.by = "ole" => origin'[clip.id] = origin[clip.id]
    BY <1>1 DEF ObjectTypes
  <2>3. obj # 0 => origin'[obj] = "read"
    BY <1>1
  <2> QED BY <1>0, <1>2, <2>1, <2>2, <2>3 DEF OriginInv, HoldsOurs, HoldsRead, At
<1>7. PhaseInv'
  BY <1>0, <1>1, <1>2 DEF PhaseInv, Serving, At, ThreadTypes, Thread, MainStep
<1>8. RefsBalanced'
  <2>1. \A o \in 1..Len(refs) : Held(o)' = Held(o)
    BY <1>0, <1>1, <1>2 DEF Held, One, At, OriginInv, HoldsOurs, HoldsRead, ObjectTypes
  <2>2. main'.pc \in Serving => main.pc \in Serving
    BY <1>0, <1>2 DEF Serving, At
  <2>3. CASE UNCHANGED <<refs, origin>>
    BY <2>1, <2>2, <2>3, BalanceKept
  <2>4. CASE refs' = Append(refs, 1) /\ origin' = Append(origin, "empty")
    BY <2>1, <2>2, <2>4, BalanceAppend
  <2>5. CASE refs' = Append(refs, 1) /\ origin' = Append(origin, "read") /\ obj = Len(refs) + 1
    <3>1. ASSUME NEW n \in Nat, n = Len(refs) + 1
          PROVE  Held(n)' = 1
      <4>1. main' = [pc |-> "update", obj |-> n, list |-> list]
        BY <1>0, <2>5, <3>1 DEF ObjectTypes
      <4>2. ~(clip.by = "ole" /\ clip.id = n) /\ outbound # n /\ virtual # n /\ sta.obj # n
        BY <3>1 DEF ObjectTypes, ThreadTypes, Thread, Pointer
      <4> QED BY <1>2, <4>1, <4>2 DEF Held, One
    <3> QED BY <2>1, <2>2, <2>5, <3>1, BalanceAppend
  <2> QED BY <1>1, <2>3, <2>4, <2>5
<1> QED BY <1>3, <1>4, <1>5, <1>6, <1>7, <1>8

\* The object cached before, if any, is released.
LEMMA UpdateCount ==
  ASSUME IInv, NEW list, NEW obj, UpdateFiles(list, obj)
  PROVE  /\ refs' \in Seq(Int) /\ Len(refs') = Len(refs)
         /\ \A o \in 1..Len(refs) :
              refs[o] \in Int /\ refs'[o] = IF o = virtual THEN refs[o] - 1 ELSE refs[o]
<1> USE DEF IInv, TypeOK, ObjectTypes, UpdateFiles
<1>1. CASE virtual = 0
  BY <1>1
<1>2. CASE virtual # 0
  BY <1>2, ReleaseCount
<1> QED BY <1>1, <1>2

\* OnClipboardChanged caches what it has read.
LEMMA ChangedUpdateStep ==
  ASSUME IInv, ChangedUpdate
  PROVE  IInv'
<1> USE DEF IInv, TypeOK, ChangedUpdate, UpdateFiles, clipVars, lifeVars
<1>0. /\ refs' \in Seq(Int) /\ Len(refs') = Len(refs)
      /\ \A o \in 1..Len(refs) :
           refs[o] \in Int /\ refs'[o] = IF o = virtual THEN refs[o] - 1 ELSE refs[o]
      /\ sta.list \in Clip /\ sta.obj \in 0..Len(refs)
  BY UpdateCount DEF ThreadTypes, Thread, Pointer
<1>1. ClipTypes'
  BY <1>0 DEF ClipTypes
<1>2. ObjectTypes'
  BY <1>0 DEF ObjectTypes
<1>3. FlagTypes'
  BY DEF FlagTypes
<1>4. ThreadTypes'
  <2>1. sta' \in Thread(StaStep)
    BY <1>0, BoundsAssumption DEF Thread, StaStep, Serving, Pointer
  <2> QED BY <1>0, <2>1 DEF ThreadTypes, ObjectTypes
<1>5. OriginInv'
  BY <1>0 DEF OriginInv, HoldsOurs, HoldsRead
<1>6. PhaseInv'
  BY <1>0 DEF PhaseInv, Serving
<1>7. RefsBalanced'
  <2>1. ASSUME NEW o \in 1..Len(refs)
        PROVE  refs'[o] = refs[o] + (Held(o)' - Held(o))
    BY <1>0, <2>1 DEF Held, One
  <2>2. main'.pc \in Serving => main.pc \in Serving
    BY DEF Serving
  <2> QED BY <1>0, <1>2, <2>1, <2>2, BalanceStep
<1> QED BY <1>1, <1>2, <1>3, <1>4, <1>5, <1>6, <1>7

\* So does GET_CLIPBOARD.
LEMMA GetUpdateStep ==
  ASSUME IInv, GetUpdate
  PROVE  IInv'
<1> USE DEF IInv, TypeOK, GetUpdate, UpdateFiles, clipVars, lifeVars
<1>0. /\ refs' \in Seq(Int) /\ Len(refs') = Len(refs)
      /\ \A o \in 1..Len(refs) :
           refs[o] \in Int /\ refs'[o] = IF o = virtual THEN refs[o] - 1 ELSE refs[o]
      /\ main.list \in Clip /\ main.obj \in 0..Len(refs)
  BY UpdateCount DEF ThreadTypes, Thread, Pointer
<1>1. ClipTypes'
  BY <1>0 DEF ClipTypes
<1>2. ObjectTypes'
  BY <1>0 DEF ObjectTypes
<1>3. FlagTypes'
  BY DEF FlagTypes
<1>4. ThreadTypes'
  <2>1. main' \in Thread(MainStep)
    BY <1>0, BoundsAssumption DEF Thread, MainStep, Serving, Pointer
  <2> QED BY <1>0, <2>1 DEF ThreadTypes, ObjectTypes
<1>5. OriginInv'
  BY <1>0 DEF OriginInv, HoldsOurs, HoldsRead
<1>6. PhaseInv'
  BY <1>0 DEF PhaseInv, Serving
<1>7. RefsBalanced'
  <2>1. ASSUME NEW o \in 1..Len(refs)
        PROVE  refs'[o] = refs[o] + (Held(o)' - Held(o))
    BY <1>0, <2>1 DEF Held, One
  <2>2. main'.pc \in Serving => main.pc \in Serving
    BY DEF Serving
  <2> QED BY <1>0, <1>2, <2>1, <2>2, BalanceStep
<1> QED BY <1>1, <1>2, <1>3, <1>4, <1>5, <1>6, <1>7

\* FILE_CHUNK_REQUEST pins the cached object.
LEMMA FileChunkRequestStep ==
  ASSUME IInv, FileChunkRequest
  PROVE  IInv'
<1> USE DEF IInv, TypeOK, FileChunkRequest, Frame, Pin, clipVars, cacheVars, lifeVars
<1>0. /\ refs' \in Seq(Int) /\ Len(refs') = Len(refs)
      /\ \A o \in 1..Len(refs) :
           refs[o] \in Int /\ refs'[o] = IF o = virtual THEN refs[o] + 1 ELSE refs[o]
      /\ virtual \in Pointer /\ virtual \in Nat
  BY AddRefCount, BoundsAssumption DEF ObjectTypes, Pointer
<1>1. ClipTypes'
  BY <1>0, BoundsAssumption DEF ClipTypes
<1>2. ObjectTypes'
  BY <1>0 DEF ObjectTypes
<1>3. FlagTypes'
  BY <1>0 DEF FlagTypes
<1>4. ThreadTypes'
  <2>1. sta' \in Thread(StaStep)
    BY <1>0, ThreadAt DEF StaStep, ThreadTypes
  <2>2. main' \in Thread(MainStep)
    BY <1>0, ThreadAt DEF MainStep, Serving, Teardown, ThreadTypes
  <2> QED BY <1>0, <2>1, <2>2, ThreadAt DEF ThreadTypes, ObjectTypes
<1>5. OriginInv'
  BY <1>0 DEF OriginInv, HoldsOurs, HoldsRead, With
<1>6. PhaseInv'
  BY <1>0 DEF PhaseInv, Serving, With
<1>7. RefsBalanced'
  <2>1. ASSUME NEW o \in 1..Len(refs),
               origin[o] = "read" \/ (origin[o] = "ours" /\ main.pc \in Serving)
        PROVE  refs'[o] = refs[o] + (Held(o)' - Held(o))
    BY <1>0, <2>1 DEF Held, One, With, OriginInv, HoldsOurs, HoldsRead
  <2>2. main'.pc \in Serving => main.pc \in Serving
    BY DEF Serving, At, With
  <2> QED BY <1>0, <1>2, <2>1, <2>2, BalanceStep
<1> QED BY <1>1, <1>2, <1>3, <1>4, <1>5, <1>6, <1>7

\* The chunk is read on the STA and the object unpinned.
LEMMA ChunkStep ==
  ASSUME IInv, RunChunk \/ Unpin
  PROVE  IInv'
<1> USE DEF IInv, TypeOK, RunChunk, Unpin, Dispatching, clipVars, objVars, cacheVars, lifeVars
<1>0. /\ refs' \in Seq(Int) /\ Len(refs') = Len(refs)
      /\ \A o \in 1..Len(refs) :
           refs[o] \in Int /\ refs'[o] = IF Unpin /\ o = main.obj THEN refs[o] - 1 ELSE refs[o]
      /\ main.obj \in Pointer /\ main.obj \in Nat
  <2>1. refs \in Seq(Int) /\ Len(refs) \in Nat /\ \A o \in 1..Len(refs) : refs[o] \in Int
    BY Counts
  <2>2. main.obj \in Pointer /\ main.obj \in Nat BY Counts
  <2>3. CASE Unpin
    <3>1. main.obj \in 1..Len(refs) BY <2>3, Counts DEF HoldsRead
    <3>2. refs' = Release(refs, main.obj) BY <2>3
    <3> QED BY <2>1, <2>2, <2>3, <3>1, <3>2, ReleaseCount
  <2>4. CASE RunChunk
    <3>1. refs' = refs /\ ~Unpin BY <2>4
    <3> QED BY <2>1, <2>2, <3>1
  <2> QED BY <2>3, <2>4
<1>1. ClipTypes'
  BY <1>0 DEF ClipTypes
<1>2. ObjectTypes'
  BY <1>0 DEF ObjectTypes
<1>3. FlagTypes'
  BY <1>0 DEF FlagTypes
<1>4. ThreadTypes'
  <2>1. sta' \in Thread(StaStep)
    BY <1>0, ThreadAt DEF StaStep, ThreadTypes
  <2>2. main' \in Thread(MainStep)
    BY <1>0, ThreadAt DEF MainStep, Serving, Teardown, ThreadTypes
  <2> QED BY <1>0, <2>1, <2>2, ThreadAt DEF ThreadTypes, ObjectTypes
<1>5. OriginInv'
  BY <1>0 DEF OriginInv, HoldsOurs, HoldsRead, With, At
<1>6. PhaseInv'
  BY <1>0 DEF PhaseInv, Serving, With, At
<1>7. RefsBalanced'
  <2>1. ASSUME NEW o \in 1..Len(refs),
               origin[o] = "read" \/ (origin[o] = "ours" /\ main.pc \in Serving)
        PROVE  refs'[o] = refs[o] + (Held(o)' - Held(o))
    BY <1>0, <2>1 DEF Held, One, With, At, OriginInv, HoldsOurs, HoldsRead
  <2>2. main'.pc \in Serving => main.pc \in Serving
    BY DEF Serving, At, With
  <2> QED BY <1>0, <1>2, <2>1, <2>2, BalanceStep
<1> QED BY <1>1, <1>2, <1>3, <1>4, <1>5, <1>6, <1>7

\* A RunSync item releases the object in hand.
LEMMA ReleaseStep ==
  ASSUME IInv, RunRelease
  PROVE  IInv'
<1> USE DEF IInv, TypeOK, RunRelease, Dispatching, clipVars, objVars, cacheVars, lifeVars
<1>0. /\ refs' \in Seq(Int) /\ Len(refs') = Len(refs)
      /\ \A o \in 1..Len(refs) :
           refs[o] \in Int /\ refs'[o] = IF o = main.obj THEN refs[o] - 1 ELSE refs[o]
      /\ main.obj \in Pointer /\ main.obj \in Nat
  BY ReleaseCount DEF ObjectTypes, Pointer, ThreadTypes, Thread, OriginInv, HoldsRead, HoldsOurs
<1>1. ClipTypes'
  BY <1>0 DEF ClipTypes
<1>2. ObjectTypes'
  BY <1>0 DEF ObjectTypes
<1>3. FlagTypes'
  BY <1>0 DEF FlagTypes
<1>4. ThreadTypes'
  <2>1. sta' \in Thread(StaStep)
    BY <1>0, ThreadAt DEF StaStep, ThreadTypes
  <2>2. main' \in Thread(MainStep)
    BY <1>0, ThreadAt DEF MainStep, Serving, Teardown, ThreadTypes
  <2> QED BY <1>0, <2>1, <2>2, ThreadAt DEF ThreadTypes, ObjectTypes
<1>5. OriginInv'
  BY <1>0 DEF OriginInv, HoldsOurs, HoldsRead, With, At
<1>6. PhaseInv'
  BY <1>0 DEF PhaseInv, Serving, With, At
<1>7. RefsBalanced'
  <2>1. ASSUME NEW o \in 1..Len(refs),
               origin[o] = "read" \/ (origin[o] = "ours" /\ main.pc \in Serving)
        PROVE  refs'[o] = refs[o] + (Held(o)' - Held(o))
    BY <1>0, <2>1 DEF Held, One, With, At, OriginInv, HoldsOurs, HoldsRead
  <2>2. main'.pc \in Serving => main.pc \in Serving
    BY DEF Serving, At, With
  <2> QED BY <1>0, <1>2, <2>1, <2>2, BalanceStep
<1> QED BY <1>1, <1>2, <1>3, <1>4, <1>5, <1>6, <1>7

\* OleSetClipboard publishes the new object, or fails.
LEMMA PublishStep ==
  ASSUME IInv, RunPublish
  PROVE  IInv'
<1> USE DEF IInv, TypeOK, RunPublish, Dispatching, Take, clipVars, objVars, cacheVars, lifeVars
<1>0. /\ main.obj \in 1..Len(refs) /\ main.obj \in Pointer /\ outbound \in Pointer
      /\ outbound \in Nat
      /\ refs' \in Seq(Int) /\ Len(refs') = Len(refs)
      /\ \A o \in 1..Len(refs) :
           /\ refs[o] \in Int
           /\ \/ UNCHANGED <<clip, refs, outbound>>
              \/ refs'[o] = refs[o] - One(clip.by = "ole" /\ clip.id = o) + One(o = main.obj)
  <2>1. /\ main.obj \in 1..Len(refs) /\ main.obj \in Pointer /\ outbound \in Pointer
        /\ outbound \in Nat /\ \A o \in 1..Len(refs) : refs[o] \in Int
    BY BoundsAssumption DEF ObjectTypes, Pointer, ThreadTypes, Thread, OriginInv, HoldsOurs
  <2>2. CASE UNCHANGED <<clip, refs, outbound>>
    BY <2>1, <2>2 DEF ObjectTypes
  <2>3. CASE refs' = AddRef(OleDropped(refs), main.obj)
    BY <2>1, <2>3, OleDroppedCount, AddRefCount DEF One
  <2> QED BY <2>1, <2>2, <2>3
<1>1. ClipTypes'
  <2>1. main.obj \in Nat BY <1>0 DEF Pointer
  <2> QED BY <2>1 DEF ClipTypes, Clip
<1>2. ObjectTypes'
  BY <1>0 DEF ObjectTypes
<1>3. FlagTypes'
  BY <1>0 DEF FlagTypes
<1>4. ThreadTypes'
  <2>1. sta' \in Thread(StaStep)
    BY <1>0, ThreadAt DEF StaStep, ThreadTypes
  <2>2. main' \in Thread(MainStep)
    BY <1>0, ThreadAt DEF MainStep, Serving, Teardown, ThreadTypes
  <2> QED BY <1>0, <2>1, <2>2, ThreadAt DEF ThreadTypes, ObjectTypes
<1>5. OriginInv'
  BY <1>0 DEF OriginInv, HoldsOurs, HoldsRead, With, At
<1>6. PhaseInv'
  BY <1>0 DEF PhaseInv, Serving, With, At
<1>7. RefsBalanced'
  <2>1. ASSUME NEW o \in 1..Len(refs)
        PROVE  refs'[o] = refs[o] + (Held(o)' - Held(o))
    <3>1. CASE main' = With("releaseFailed", main.obj) /\ UNCHANGED <<clip, refs, outbound>>
      BY <1>0, <2>1, <3>1 DEF Held, One, With
    <3>2. CASE /\ clip' = [by |-> "ole", kind |-> "virtual", id |-> main.obj]
               /\ refs' = AddRef(OleDropped(refs), main.obj)
               /\ outbound' = main.obj
               /\ main'.obj = outbound
      <4>1. refs'[o] = refs[o] - One(clip.by = "ole" /\ clip.id = o) + One(o = main.obj)
        BY <2>1, <1>0, <3>2, OleDroppedCount, AddRefCount DEF One
      <4>2. /\ Held(o)' = One(o = main.obj) + One(o = main.obj) + One(virtual = o)
                            + One(sta.pc = "update" /\ sta.obj = o) + One(outbound = o)
            /\ One(clip.by = "ole" /\ clip.id = o) \in {0, 1} /\ One(outbound = o) \in {0, 1}
            /\ One(virtual = o) \in {0, 1} /\ One(o = main.obj) \in {0, 1}
            /\ One(sta.pc = "update" /\ sta.obj = o) \in {0, 1}
            /\ One(main.obj = o) = One(o = main.obj) /\ refs[o] \in Int
        BY <1>0, <2>1, <3>2 DEF Held, One
      <4> QED BY <4>1, <4>2 DEF Held
    <3>3. main' = With("releasePrev", outbound) \/ (outbound = 0 /\ main' = At("serve"))
            => main'.obj = outbound
      BY DEF With, At
    <3> QED BY <3>1, <3>2, <3>3
  <2>2. main'.pc \in Serving => main.pc \in Serving
    BY DEF Serving, At, With
  <2> QED BY <1>0, <1>2, <2>1, <2>2, BalanceStep
<1> QED BY <1>1, <1>2, <1>3, <1>4, <1>5, <1>6, <1>7

\* SET_CLIPBOARD writes, or fails.
LEMMA WriteStep ==
  ASSUME IInv, RunWrite
  PROVE  IInv'
<1> USE DEF IInv, TypeOK, RunWrite, Dispatching, Take, clipVars, objVars, cacheVars, lifeVars
<1>0. /\ refs' \in Seq(Int) /\ Len(refs') = Len(refs)
      /\ \A o \in 1..Len(refs) :
           /\ refs[o] \in Int
           /\ \/ UNCHANGED <<clip, refs>>
              \/ /\ clip'.by # "ole"
                 /\ refs'[o] = IF clip.by = "ole" /\ clip.id = o THEN refs[o] - 1 ELSE refs[o]
  BY OleDroppedCount DEF ObjectTypes
<1>1. ClipTypes'
  BY <1>0 DEF ClipTypes, Clip
<1>2. ObjectTypes'
  BY <1>0 DEF ObjectTypes
<1>3. FlagTypes'
  BY <1>0 DEF FlagTypes
<1>4. ThreadTypes'
  <2>1. sta' \in Thread(StaStep)
    BY <1>0, ThreadAt DEF StaStep, ThreadTypes
  <2>2. main' \in Thread(MainStep)
    BY <1>0, ThreadAt DEF MainStep, Serving, Teardown, ThreadTypes
  <2> QED BY <1>0, <2>1, <2>2, ThreadAt DEF ThreadTypes, ObjectTypes
<1>5. OriginInv'
  BY <1>0 DEF OriginInv, HoldsOurs, HoldsRead, At
<1>6. PhaseInv'
  BY <1>0 DEF PhaseInv, Serving, At
<1>7. RefsBalanced'
  <2>1. ASSUME NEW o \in 1..Len(refs),
               origin[o] = "read" \/ (origin[o] = "ours" /\ main.pc \in Serving)
        PROVE  refs'[o] = refs[o] + (Held(o)' - Held(o))
    BY <1>0, <2>1 DEF Held, One, At, OriginInv, HoldsOurs, HoldsRead
  <2>2. main'.pc \in Serving => main.pc \in Serving
    BY DEF Serving, At, With
  <2> QED BY <1>0, <1>2, <2>1, <2>2, BalanceStep
<1> QED BY <1>1, <1>2, <1>3, <1>4, <1>5, <1>6, <1>7

\* The clipboard is cleared, or this fails.
LEMMA WipeStep ==
  ASSUME IInv, RunWipe
  PROVE  IInv'
<1> USE DEF IInv, TypeOK, RunWipe, Take, clipVars, objVars, cacheVars, lifeVars
<1>0. /\ refs' \in Seq(Int) /\ Len(refs') = Len(refs)
      /\ \A o \in 1..Len(refs) :
           /\ refs[o] \in Int
           /\ \/ UNCHANGED <<clip, refs>>
              \/ /\ clip'.by # "ole"
                 /\ refs'[o] = IF clip.by = "ole" /\ clip.id = o THEN refs[o] - 1 ELSE refs[o]
  BY OleDroppedCount DEF ObjectTypes, Nothing
<1>1. ClipTypes'
  BY <1>0 DEF ClipTypes, Clip, Nothing
<1>2. ObjectTypes'
  BY <1>0 DEF ObjectTypes, Nothing
<1>3. FlagTypes'
  BY <1>0 DEF FlagTypes
<1>4. ThreadTypes'
  <2>1. sta' \in Thread(StaStep)
    BY <1>0, ThreadAt DEF StaStep, ThreadTypes
  <2>2. main' \in Thread(MainStep)
    BY <1>0, ThreadAt DEF MainStep, Serving, Teardown, ThreadTypes
  <2> QED BY <1>0, <2>1, <2>2, ThreadAt DEF ThreadTypes, ObjectTypes
<1>5. OriginInv'
  BY <1>0 DEF OriginInv, HoldsOurs, HoldsRead, At, Nothing
<1>6. PhaseInv'
  BY <1>0 DEF PhaseInv, Serving, At
<1>7. RefsBalanced'
  <2>1. ASSUME NEW o \in 1..Len(refs),
               origin[o] = "read" \/ (origin[o] = "ours" /\ main.pc \in Serving)
        PROVE  refs'[o] = refs[o] + (Held(o)' - Held(o))
    BY <1>0, <2>1 DEF Held, One, At, OriginInv, HoldsOurs, HoldsRead
  <2>2. main'.pc \in Serving => main.pc \in Serving
    BY DEF Serving, At, With
  <2> QED BY <1>0, <1>2, <2>1, <2>2, BalanceStep
<1> QED BY <1>1, <1>2, <1>3, <1>4, <1>5, <1>6, <1>7

\* The item ends with the release of our object.
LEMMA ClearEndStep ==
  ASSUME IInv, RunClearEnd
  PROVE  IInv'
<1> USE DEF IInv, TypeOK, RunClearEnd, clipVars, objVars, cacheVars, lifeVars
<1>0. /\ refs' \in Seq(Int) /\ Len(refs') = Len(refs)
      /\ \A o \in 1..Len(refs) :
           refs[o] \in Int /\ refs'[o] = IF main.pc = "clearOut" /\ o = main.obj THEN refs[o] - 1 ELSE refs[o]
  <2>1. refs \in Seq(Int) /\ Len(refs) \in Nat /\ \A o \in 1..Len(refs) : refs[o] \in Int
    BY Counts
  <2>2. CASE main.pc = "clearOut"
    <3>1. main.obj \in 1..Len(refs) BY <2>2, Counts DEF HoldsOurs
    <3>2. refs' = Release(refs, main.obj) BY <2>2
    <3> QED BY <2>1, <2>2, <3>1, <3>2, ReleaseCount
  <2>3. CASE main.pc # "clearOut"
    <3>1. refs' = refs BY <2>3
    <3> QED BY <2>1, <2>3, <3>1
  <2> QED BY <2>2, <2>3
<1>1. ClipTypes'
  BY <1>0 DEF ClipTypes
<1>2. ObjectTypes'
  BY <1>0 DEF ObjectTypes
<1>3. FlagTypes'
  BY <1>0 DEF FlagTypes
<1>4. ThreadTypes'
  <2>1. sta' \in Thread(StaStep)
    BY <1>0, ThreadAt DEF StaStep, ThreadTypes
  <2>2. main' \in Thread(MainStep)
    BY <1>0, ThreadAt DEF MainStep, Serving, Teardown, ThreadTypes
  <2> QED BY <1>0, <2>1, <2>2, ThreadAt DEF ThreadTypes, ObjectTypes
<1>5. OriginInv'
  BY <1>0 DEF OriginInv, HoldsOurs, HoldsRead, At
<1>6. PhaseInv'
  BY <1>0 DEF PhaseInv, Serving, At
<1>7. RefsBalanced'
  <2>1. ASSUME NEW o \in 1..Len(refs),
               origin[o] = "read" \/ (origin[o] = "ours" /\ main.pc \in Serving)
        PROVE  refs'[o] = refs[o] + (Held(o)' - Held(o))
    BY <1>0, <2>1 DEF Held, One, At, OriginInv, HoldsOurs, HoldsRead, PhaseInv, Serving
  <2>2. main'.pc \in Serving => main.pc \in Serving
    BY DEF Serving, At, With
  <2> QED BY <1>0, <1>2, <2>1, <2>2, BalanceStep
<1> QED BY <1>1, <1>2, <1>3, <1>4, <1>5, <1>6, <1>7

\* ReleaseStaBoundResources takes the two pointers.
LEMMA TakeStep ==
  ASSUME IInv, TakeInbound \/ TakeOutbound
  PROVE  IInv'
<1> USE DEF IInv, TypeOK, TakeInbound, TakeOutbound, clipVars, objVars, cacheVars, lifeVars
<1>0. /\ virtual \in Pointer /\ outbound \in Pointer /\ virtual \in Nat /\ outbound \in Nat
      /\ UNCHANGED <<refs, origin>> /\ refs \in Seq(Int)
  BY BoundsAssumption DEF ObjectTypes, Pointer
<1>1. ClipTypes'
  BY <1>0 DEF ClipTypes, Clip, Nothing
<1>2. ObjectTypes'
  BY <1>0 DEF ObjectTypes
<1>3. FlagTypes'
  BY <1>0 DEF FlagTypes
<1>4. ThreadTypes'
  <2>1. sta' \in Thread(StaStep)
    BY <1>0, ThreadAt DEF StaStep, ThreadTypes
  <2>2. main' \in Thread(MainStep)
    BY <1>0, ThreadAt DEF MainStep, Serving, Teardown, ThreadTypes
  <2> QED BY <1>0, <2>1, <2>2, ThreadAt DEF ThreadTypes, ObjectTypes
<1>5. OriginInv'
  BY <1>0 DEF OriginInv, HoldsOurs, HoldsRead, At, With
<1>6. PhaseInv'
  BY <1>0 DEF PhaseInv, Serving, At, With
<1>7. RefsBalanced'
  <2>1. ASSUME NEW o \in 1..Len(refs),
               origin[o] = "read" \/ (origin[o] = "ours" /\ main.pc \in Serving)
        PROVE  refs'[o] = refs[o] + (Held(o)' - Held(o))
    BY <1>0, <2>1 DEF Held, One, At, With, OriginInv, HoldsOurs, HoldsRead, PhaseInv, Serving
  <2>2. main'.pc \in Serving => main.pc \in Serving
    BY DEF Serving, At, With
  <2> QED BY <1>0, <1>2, <2>1, <2>2, BalanceStep
<1> QED BY <1>1, <1>2, <1>3, <1>4, <1>5, <1>6, <1>7

\* The helper starts, or exits.
LEMMA StartStep ==
  ASSUME IInv, NEW ok \in BOOLEAN, Start(ok)
  PROVE  IInv'
<1> USE DEF IInv, TypeOK, Start, clipVars, objVars, cacheVars, lifeVars
<1>0. refs = <<>> /\ UNCHANGED <<refs, origin>>
  BY DEF PhaseInv
<1>1. ClipTypes'
  BY <1>0 DEF ClipTypes
<1>2. ObjectTypes'
  BY <1>0 DEF ObjectTypes
<1>3. FlagTypes'
  BY Zenon DEF FlagTypes
<1>4. ThreadTypes'
  <2>1. sta' \in Thread(StaStep)
    BY <1>0, ThreadAt DEF StaStep, ThreadTypes
  <2>2. main' \in Thread(MainStep)
    BY <1>0, ThreadAt DEF MainStep, Serving, Teardown, ThreadTypes
  <2> QED BY <1>0, <2>1, <2>2, ThreadAt DEF ThreadTypes, ObjectTypes
<1>5. OriginInv'
  BY <1>0 DEF OriginInv, HoldsOurs, HoldsRead, At
<1>6. PhaseInv'
  BY <1>0 DEF PhaseInv, Serving, At
<1>7. RefsBalanced'
  BY <1>0 DEF RefsBalanced
<1> QED BY <1>1, <1>2, <1>3, <1>4, <1>5, <1>6, <1>7

\* ~Dispatcher drops what is left.
LEMMA DestroyStep ==
  ASSUME IInv, DestroyDispatcher
  PROVE  IInv'
<1> USE DEF IInv, TypeOK, DestroyDispatcher, clipVars, objVars, cacheVars, lifeVars
<1>0. /\ refs' \in Seq(Int) /\ Len(refs') = Len(refs)
      /\ \A o \in 1..Len(refs) : origin[o] = "read" =>
           refs[o] \in Int /\ refs'[o] = IF o = virtual THEN refs[o] - 1 ELSE refs[o]
  <2> DEFINE r == IF virtual # 0 THEN Release(refs, virtual) ELSE refs
  <2>1. /\ r \in Seq(Int) /\ Len(r) = Len(refs)
        /\ \A o \in 1..Len(refs) :
             refs[o] \in Int /\ r[o] = IF o = virtual THEN refs[o] - 1 ELSE refs[o]
    BY ReleaseCount DEF ObjectTypes
  <2>2. refs' = IF outbound # 0 THEN Release(r, outbound) ELSE r
    OBVIOUS
  <2> HIDE DEF r
  <2>3. CASE outbound = 0
    BY <2>1, <2>2, <2>3
  <2>4. CASE outbound # 0
    <3>1. outbound \in 1..Len(r) /\ origin[outbound] = "ours"
      BY <2>1, <2>4 DEF ObjectTypes, OriginInv
    <3> QED BY <2>1, <2>2, <2>4, <3>1, ReleaseCount
  <2> QED BY <2>3, <2>4
<1>1. ClipTypes'
  BY <1>0 DEF ClipTypes
<1>2. ObjectTypes'
  BY <1>0 DEF ObjectTypes
<1>3. FlagTypes'
  BY <1>0 DEF FlagTypes
<1>4. ThreadTypes'
  <2>1. sta' \in Thread(StaStep)
    BY <1>0, ThreadAt DEF StaStep, ThreadTypes
  <2>2. main' \in Thread(MainStep)
    BY <1>0, ThreadAt DEF MainStep, Serving, Teardown, ThreadTypes
  <2> QED BY <1>0, <2>1, <2>2, ThreadAt DEF ThreadTypes, ObjectTypes
<1>5. OriginInv'
  BY <1>0 DEF OriginInv, HoldsOurs, HoldsRead, At
<1>6. PhaseInv'
  BY <1>0 DEF PhaseInv, Serving, At
<1>7. RefsBalanced'
  <2>1. ASSUME NEW o \in 1..Len(refs),
               origin[o] = "read" \/ (origin[o] = "ours" /\ main.pc \in Serving)
        PROVE  refs'[o] = refs[o] + (Held(o)' - Held(o))
    BY <1>0, <2>1 DEF Held, One, At, OriginInv, HoldsOurs, HoldsRead, Serving
  <2>2. main'.pc \in Serving => main.pc \in Serving
    BY DEF Serving, At, With
  <2> QED BY <1>0, <1>2, <2>1, <2>2, BalanceStep
<1> QED BY <1>1, <1>2, <1>3, <1>4, <1>5, <1>6, <1>7

\* ANNOUNCE_DELAYED of files creates an object.
LEMMA AnnounceStep ==
  ASSUME IInv, AnnounceFiles
  PROVE  IInv'
<1> USE DEF IInv, TypeOK, AnnounceFiles, Frame, clipVars, cacheVars, lifeVars
<1>0. /\ refs' = Append(refs, 1) /\ refs' \in Seq(Int) /\ Len(refs') = Len(refs) + 1
      /\ origin' \in Seq({"ours", "read", "empty"}) /\ Len(origin') = Len(refs')
      /\ \A o \in 1..Len(refs) : origin'[o] = origin[o]
      /\ origin'[Len(refs) + 1] = "ours" /\ Len(refs) + 1 \in Pointer
      /\ sta.obj \in Nat /\ main.obj \in Nat /\ Len(refs) \in Nat
  BY AppendEntry, BoundsAssumption DEF ObjectTypes, Pointer, ThreadTypes, Thread
<1>1. ClipTypes'
  BY <1>0, BoundsAssumption DEF ClipTypes
<1>2. ObjectTypes'
  BY <1>0, BoundsAssumption DEF ObjectTypes
<1>3. FlagTypes'
  BY <1>0 DEF FlagTypes
<1>4. ThreadTypes'
  <2>1. sta' \in Thread(StaStep)
    BY <1>0, ThreadAt DEF StaStep, ThreadTypes
  <2>2. main' \in Thread(MainStep)
    BY <1>0, ThreadAt DEF MainStep, Serving, Teardown, ThreadTypes
  <2> QED BY <1>0, <2>1, <2>2, ThreadAt DEF ThreadTypes, ObjectTypes
<1>5. OriginInv'
  <2>1. \A o \in {outbound, virtual, sta.obj} : o # 0 => origin'[o] = origin[o]
    BY <1>0 DEF ObjectTypes, ThreadTypes
  <2>2. clip.by = "ole" => origin'[clip.id] = origin[clip.id]
    BY <1>0 DEF ObjectTypes
  <2>3. main'.pc = "publish" /\ main'.obj # 0 /\ origin'[main'.obj] = "ours"
    BY <1>0 DEF With
  <2> QED BY <2>1, <2>2, <2>3 DEF OriginInv, HoldsOurs, HoldsRead
<1>6. PhaseInv'
  BY <1>0 DEF PhaseInv, Serving, With, ObjectTypes
<1>7. RefsBalanced'
  <2>1. \A o \in 1..Len(refs) : Held(o)' = Held(o)
    BY <1>0 DEF Held, One, With, OriginInv, HoldsOurs, HoldsRead
  <2>2. ASSUME NEW n \in Nat, n = Len(refs) + 1
        PROVE  Held(n)' = 1
    <3>1. ~(clip.by = "ole" /\ clip.id = n) /\ outbound # n /\ virtual # n /\ sta.obj # n
      BY <1>0, <2>2 DEF ObjectTypes, ThreadTypes
    <3> QED BY <2>2, <3>1 DEF Held, One, With
  <2>3. main'.pc \in Serving => main.pc \in Serving
    BY DEF Serving
  <2> QED BY <2>1, <2>2, <2>3, BalanceAppend
<1> QED BY <1>1, <1>2, <1>3, <1>4, <1>5, <1>6, <1>7

\* The invariant is inductive.
LEMMA InvStep == IInv /\ [Next]_vars => IInv'
<1> SUFFICES ASSUME IInv, [Next]_vars PROVE IInv'
  OBVIOUS
<1>1. CASE UNCHANGED vars
  <2>1. \A o \in 1..Len(refs) : Held(o)' = Held(o)
    BY <1>1 DEF vars, clipVars, cacheVars, Held
  <2>2. RefsBalanced'
    BY <1>1, <2>1, BalanceKept DEF IInv, vars, objVars
  <2>3. ClipTypes' /\ ObjectTypes' /\ FlagTypes' /\ ThreadTypes'
    BY <1>1 DEF IInv, TypeOK, ClipTypes, ObjectTypes, FlagTypes, ThreadTypes, vars, clipVars,
                objVars, cacheVars, lifeVars
  <2>4. OriginInv' /\ PhaseInv'
    BY <1>1 DEF IInv, OriginInv, PhaseInv, vars, clipVars, objVars, cacheVars
  <2> QED BY <2>2, <2>3, <2>4 DEF IInv, TypeOK
<1>2. CASE \E ok \in BOOLEAN : Start(ok)
  BY <1>2, StartStep
<1>3. CASE ParentNext
  BY <1>3, AnnounceStep, FrameStep, FileChunkRequestStep, ConnectionStep DEF ParentNext
<1>4. CASE MainNext
  BY <1>4, GetUpdateStep, FrameStep, ChunkStep, TeardownStep, TakeStep, DestroyStep DEF MainNext
<1>5. CASE ChangedNext
  BY <1>5, ChangedLookStep, ChangedDropStep, ChangedReadStep, ChangedUpdateStep, FrameStep
     DEF ChangedNext
<1>6. CASE RunItem
  BY <1>6, PublishStep, WriteStep, GetStep, ChunkStep, ReleaseStep, TeardownStep, WipeStep,
     ClearEndStep DEF RunItem
<1>7. CASE StaExit \/ WatchdogWakes
  BY <1>7, TeardownStep, ConnectionStep
<1>8. CASE \E kind \in {"none", "paths", "virtual", "empty"} : AppCopy(kind)
  BY <1>8, AppCopyStep
<1> QED BY <1>1, <1>2, <1>3, <1>4, <1>5, <1>6, <1>7, <1>8 DEF Next

\* It holds throughout.
LEMMA InvHolds == Spec => []IInv
BY InvInit, InvStep, PTL DEF Spec

\* No pointer of a cache or of a thread ever dangles beyond the objects there
\* are, for any number of objects, copies and frames.
THEOREM TypeCorrect == Spec => []TypeOK
BY InvHolds, PTL DEF IInv

\* Every object read from the clipboard, always, and every object of ours until
\* the teardown has exactly as many references as holders: the pin of
\* FILE_CHUNK_REQUEST, the swap on the STA and the drop in OnClipboardChanged
\* neither free an object in use nor leak one.
THEOREM ReferencesBalance == Spec => []RefsBalanced
BY InvHolds, PTL DEF IInv
-----------------------------------------------------------------------------
\* Nothing is told before a parent connects.
LEMMA ListInit == Init => ListInv
BY DEF Init, ListInv, At, Serving

\* Caching and sending keep together unless the two threads overtake each
\* other.
LEMMA ListStep == IInv /\ ListInv /\ [Next]_vars => ListInv'
<1> SUFFICES ASSUME IInv, ListInv, [Next]_vars PROVE ListInv'
  OBVIOUS
<1> USE DEF ListInv, At, With, Serving, clipVars, objVars, cacheVars, lifeVars
<1>1. CASE UNCHANGED vars
  BY <1>1 DEF vars
<1>2. CASE \E ok \in BOOLEAN : Start(ok)
  BY <1>2 DEF Start
<1>3. CASE ParentNext
  <2>1. CASE AnnounceFiles \/ SetClipboard \/ GetClipboard \/ FileChunkRequest
    BY <2>1 DEF AnnounceFiles, SetClipboard, GetClipboard, FileChunkRequest, Frame
  <2>2. CASE Connect \/ Disconnect \/ ParentDies \/ Shutdown
    BY <2>2 DEF Connect, Disconnect, ParentDies, Shutdown
  <2> QED BY <1>3, <2>1, <2>2 DEF ParentNext
<1>4. CASE MainNext
  <2>1. CASE GetUpdate
    BY <2>1 DEF GetUpdate, UpdateFiles
  <2>2. CASE GetReply
    BY <2>2 DEF GetReply, Tell
  <2>3. CASE Unpin \/ ServeEnds \/ JoinWatchdog
    BY <2>3 DEF Unpin, ServeEnds, JoinWatchdog
  <2>4. CASE TakeInbound \/ TakeOutbound \/ StaStop \/ StaJoined \/ DestroyDispatcher
    BY <2>4 DEF TakeInbound, TakeOutbound, StaStop, StaJoined, DestroyDispatcher
  <2> QED BY <1>4, <2>1, <2>2, <2>3, <2>4 DEF MainNext
<1>5. CASE ChangedNext
  <2>1. CASE ChangedBegin \/ ChangedCheck \/ ChangedDrop
    BY <2>1 DEF ChangedBegin, ChangedCheck, ChangedDrop, Dispatching
  <2>2. CASE ChangedRead
    BY <2>2 DEF ChangedRead
  <2>3. CASE ChangedUpdate
    BY <2>3 DEF ChangedUpdate, UpdateFiles
  <2>4. CASE ChangedSend
    BY <2>4 DEF ChangedSend, Tell
  <2> QED BY <1>5, <2>1, <2>2, <2>3, <2>4 DEF ChangedNext
<1>6. CASE RunItem
  <2>1. CASE RunPublish \/ RunWrite
    BY <2>1 DEF RunPublish, RunWrite, Dispatching
  <2>2. CASE RunGet
    BY <2>2 DEF RunGet, Dispatching
  <2>3. CASE RunChunk \/ RunRelease
    BY <2>3 DEF RunChunk, RunRelease, Dispatching
  <2>4. CASE RunClear \/ RunWipe
    BY <2>4 DEF RunClear, RunWipe, Dispatching
  <2>5. CASE RunClearEnd
    BY <2>5 DEF RunClearEnd, IInv, PhaseInv
  <2> QED BY <1>6, <2>1, <2>2, <2>3, <2>4, <2>5 DEF RunItem
<1>7. CASE StaExit \/ WatchdogWakes
  BY <1>7 DEF StaExit, WatchdogWakes, Dispatching
<1>8. CASE \E kind \in {"none", "paths", "virtual", "empty"} : AppCopy(kind)
  BY <1>8 DEF AppCopy, Take
<1> QED BY <1>1, <1>2, <1>3, <1>4, <1>5, <1>6, <1>7, <1>8 DEF Next

\* The file ids of the list the parent was sent last resolve to the files of
\* that list, as long as GET_CLIPBOARD and a notification did not overtake each
\* other between caching and sending.
THEOREM FileIdsMatch == Spec => []FilesMatch
<1>1. ListInv => FilesMatch
  BY DEF ListInv, FilesMatch, Serving
<1> QED BY <1>1, InvHolds, ListInit, ListStep, PTL DEF Spec
=============================================================================
