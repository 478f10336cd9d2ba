---------------------- MODULE WinDelayedRenderProofs ----------------------
(***************************************************************************)
(* Proofs about WinDelayedRender, for any set of contents, any nesting     *)
(* depth and any mix of the parent's frames.                               *)
(***************************************************************************)
EXTENDS WinDelayedRender, TLAPS

PCs == {"none", "start", "send", "wait", "pump", "woken", "set", "ask", "check"}

\* The records the STA's activations are built from.
LEMMA FrameRecords ==
  /\ Free \in FrameRec /\ Free.kind = "free"
  /\ \A f \in Format : RenderRec(f) \in FrameRec /\ RenderRec(f).kind = "render"
  /\ \A k \in {"read", "all"}, S \in SUBSET Format :
       LET r == [Free EXCEPT !.kind = k, !.pc = "ask", !.todo = S]
       IN r \in FrameRec /\ r.kind = k
BY DEF Free, FrameRec, RenderRec, OptHash, Format

\* A step of the innermost activation that keeps its kind keeps the stack.
LEMMA UpdateStack ==
  ASSUME StackOK, depth > 0, depth' = depth,
         NEW r \in FrameRec, r.kind = Top.kind, frame' = [frame EXCEPT ![depth] = r]
  PROVE  StackOK' /\ \A d \in Levels : frame'[d].kind = frame[d].kind
<1>1. depth \in Levels BY ConstantsAssumption DEF StackOK, Levels
<1>2. frame' \in [Levels -> FrameRec] BY <1>1 DEF StackOK
<1>3. ASSUME NEW d \in Levels PROVE frame'[d].kind = frame[d].kind
  BY <1>1 DEF StackOK, Top
<1> QED BY <1>2, <1>3 DEF StackOK

\* So does a jump of the innermost activation.
LEMMA GotoStack ==
  ASSUME StackOK, depth > 0, depth' = depth, NEW pc \in PCs, Goto(pc)
  PROVE  StackOK' /\ \A d \in Levels : frame'[d].kind = frame[d].kind
<1>1. depth \in Levels BY ConstantsAssumption DEF StackOK, Levels
<1>2. frame' \in [Levels -> FrameRec] BY <1>1 DEF StackOK, Goto, FrameRec, PCs
<1>3. ASSUME NEW d \in Levels PROVE frame'[d].kind = frame[d].kind
  BY <1>1 DEF StackOK, Goto, FrameRec
<1> QED BY <1>2, <1>3 DEF StackOK

\* A message is dispatched from the innermost wait.
LEMMA EnterPumpStack ==
  ASSUME StackOK
  PROVE  /\ EnterPump(frame) \in [Levels -> FrameRec]
         /\ \A d \in Levels : EnterPump(frame)[d].kind = frame[d].kind
<1>1. CASE depth = 0 BY <1>1 DEF EnterPump, StackOK
<1>2. CASE depth # 0
  <2>1. depth \in Levels BY <1>2, ConstantsAssumption DEF StackOK, Levels
  <2> QED BY <1>2, <2>1 DEF EnterPump, StackOK, FrameRec
<1> QED BY <1>1, <1>2

\* An activation is entered.
LEMMA PushStack ==
  ASSUME StackOK, NEW rec \in FrameRec, rec.kind # "free", Push(rec)
  PROVE  StackOK'
<1> DEFINE fr == EnterPump(frame)
<1>1. /\ fr \in [Levels -> FrameRec]
      /\ \A d \in Levels : fr[d].kind = "free" <=> d > depth
  BY EnterPumpStack DEF StackOK
<1>2. /\ depth \in 0..MaxDepth /\ depth < MaxDepth /\ depth' = depth + 1
      /\ frame' = [fr EXCEPT ![depth + 1] = rec]
  BY DEF StackOK, Push
<1> HIDE DEF fr
<1>3. depth' \in 0..MaxDepth /\ depth + 1 \in Levels
  BY <1>2, ConstantsAssumption DEF Levels
<1>4. frame' \in [Levels -> FrameRec]
  BY <1>1, <1>2
<1>5. ASSUME NEW d \in Levels PROVE frame'[d].kind = "free" <=> d > depth'
  <2>1. frame'[d] = IF d = depth + 1 THEN rec ELSE fr[d]
    BY <1>1, <1>2
  <2> QED BY <2>1, <1>1, <1>2, <1>3, ConstantsAssumption DEF Levels
<1> QED BY <1>3, <1>4, <1>5 DEF StackOK

\* The innermost activation returns.
LEMMA PopStack ==
  ASSUME StackOK, depth > 0, asker \in 0..MaxDepth, Pop
  PROVE  /\ StackOK' /\ asker' \in 0..MaxDepth
         /\ \A d \in Levels : frame'[d] = IF d = depth THEN Free ELSE frame[d]
<1>1. depth \in Levels /\ depth' \in 0..MaxDepth /\ depth' = depth - 1
  BY ConstantsAssumption DEF StackOK, Levels, Pop
<1>2. frame' \in [Levels -> FrameRec]
  BY FrameRecords DEF StackOK, Pop
<1>3. ASSUME NEW d \in Levels PROVE frame'[d].kind = "free" <=> d > depth'
  <2>1. frame'[d] = IF d = depth THEN Free ELSE frame[d]
    BY DEF StackOK, Pop
  <2>2. frame[d].kind = "free" <=> d > depth
    BY DEF StackOK
  <2>3. Free.kind = "free"
    BY FrameRecords
  <2> QED BY <2>1, <2>2, <2>3, <1>1, ConstantsAssumption DEF Levels
<1>4. asker' \in 0..MaxDepth
  BY ConstantsAssumption DEF Pop
<1>5. \A d \in Levels : frame'[d] = IF d = depth THEN Free ELSE frame[d]
  BY DEF StackOK, Pop
<1> QED BY <1>1, <1>2, <1>3, <1>4, <1>5 DEF StackOK

-----------------------------------------------------------------------------
\* The type invariant holds initially and every step keeps it.
LEMMA TypeInit == Init => TypeOK
<1> SUFFICES ASSUME Init PROVE TypeOK OBVIOUS
<1>1. Free \in FrameRec /\ Free.kind = "free"
  BY FrameRecords
<1>2. StackOK
  BY <1>1, ConstantsAssumption DEF Init, StackOK, Levels
<1>3. asker \in 0..MaxDepth
  BY ConstantsAssumption DEF Init
<1> QED BY <1>1, <1>2, <1>3 DEF Init, TypeOK, RunSyncOK, OptHash

\* What the steps of the pipe thread and of the work items do to the stack:
\* every activation keeps its kind.
LEMMA SameKindsType ==
  ASSUME TypeOK, depth' = depth, frame' \in [Levels -> FrameRec],
         \A d \in Levels : frame'[d].kind = frame[d].kind
  PROVE  StackOK'
BY DEF TypeOK, StackOK

\* Every step keeps the type invariant; the snapshot of a waiting render is a
\* real hash because of FramesCurrent.
LEMMA TypeStep == TypeOK /\ FramesCurrent /\ [Next]_vars => TypeOK'
<1> SUFFICES ASSUME TypeOK, FramesCurrent, [Next]_vars PROVE TypeOK' OBVIOUS
<1> USE DEF TypeOK, RunSyncOK, OptHash
<1>1. ASSUME NEW h \in Hash, HandleAnnounceDelayed(h) PROVE TypeOK'
  <2>1. StackOK' BY <1>1 DEF HandleAnnounceDelayed, StackOK
  <2> QED BY <1>1, <2>1 DEF HandleAnnounceDelayed, StoreAnnouncement, osVars
<1>2. ASSUME NEW h \in Hash, DropFilesAnnouncement(h) PROVE TypeOK'
  <2>1. StackOK' BY <1>2 DEF DropFilesAnnouncement, StackOK
  <2> QED BY <1>2, <2>1 DEF DropFilesAnnouncement, StoreAnnouncement, osVars
<1>3. ASSUME NEW h \in Hash, NEW bytes \in BOOLEAN, HandleProvideData(h, bytes)
      PROVE TypeOK'
  <2>1. ASSUME NEW d \in Levels
        PROVE  frame'[d] \in FrameRec /\ frame'[d].kind = frame[d].kind
    <3>1. frame[d] \in FrameRec
      BY DEF StackOK
    <3>2. frame'[d] \in {frame[d], [frame[d] EXCEPT !.told = TRUE]}
      BY <1>3 DEF HandleProvideData
    <3> QED BY <3>1, <3>2 DEF FrameRec
  <2>2. frame' = [d \in Levels |-> frame'[d]] /\ depth' = depth
    BY <1>3 DEF HandleProvideData, StackOK
  <2>3. StackOK'
    BY <2>1, <2>2, SameKindsType
  <2>4. /\ pending_response' \in OptHash /\ render_event' \in BOOLEAN /\ answered' \in BOOLEAN
        /\ requests' \subseteq Hash
    BY <1>3 DEF HandleProvideData
  <2>5. UNCHANGED <<pending_hash, cached_response, cached_valid, pipe, queued, depth, owner,
                    open, slotState, slotData, asker, fresh, announced>>
    BY <1>3 DEF HandleProvideData, osVars
  <2>6. RunSyncOK' BY <2>1, <2>5
  <2> QED BY <2>3, <2>4, <2>5, <2>6
<1>4. ASSUME NEW kind \in {"SET", "GET"}, HandleRunSync(kind) PROVE TypeOK'
  <2>1. StackOK' BY <1>4 DEF HandleRunSync, StackOK
  <2> QED BY <1>4, <2>1 DEF HandleRunSync, renderVars, osVars
<1>5. ASSUME WorkDone, depth' = depth, queued
      PROVE  StackOK' /\ RunSyncOK'
  <2>1. /\ frame' \in [Levels -> FrameRec]
        /\ \A d \in Levels : frame'[d].kind = frame[d].kind
    BY <1>5, EnterPumpStack DEF WorkDone
  <2> QED BY <1>5, <2>1, SameKindsType DEF WorkDone
<1>6. CASE AnnounceFormats
  <2>1. StackOK' /\ RunSyncOK' BY <1>5, <1>6 DEF AnnounceFormats
  <2>2. /\ owner' \in {"foreign", "hwnd", "ole"} /\ fresh' \subseteq Hash
        /\ slotState' \in [Format -> {"absent", "delayed", "full"}]
        /\ slotData' \in [Format -> OptHash]
    BY <1>6 DEF AnnounceFormats
  <2> QED BY <1>6, <2>1, <2>2 DEF AnnounceFormats, WorkDone, renderVars
<1>7. CASE AnnounceFiles
  <2>1. StackOK' /\ RunSyncOK' BY <1>5, <1>7 DEF AnnounceFiles
  <2>2. /\ owner' \in {"foreign", "hwnd", "ole"}
        /\ slotState' \in [Format -> {"absent", "delayed", "full"}]
        /\ slotData' \in [Format -> OptHash]
    BY <1>7 DEF AnnounceFiles
  <2> QED BY <1>7, <2>1, <2>2 DEF AnnounceFiles, WorkDone, renderVars, historyVars
<1>8. CASE WriteClipboard
  <2>1. StackOK' /\ RunSyncOK' BY <1>5, <1>8 DEF WriteClipboard
  <2>2. /\ owner' \in {"foreign", "hwnd", "ole"} /\ fresh' \subseteq Hash
        /\ slotState' \in [Format -> {"absent", "delayed", "full"}]
        /\ slotData' \in [Format -> OptHash]
    BY <1>8 DEF WriteClipboard
  <2> QED BY <1>8, <2>1, <2>2 DEF WriteClipboard, WorkDone, renderVars
<1>9. CASE ReadBegin
  <2>1. StackOK'
    BY <1>9, PushStack, FrameRecords DEF ReadBegin
  <2>2. depth = 0
    BY <1>9, ConstantsAssumption
       DEF ReadBegin, Pumping, ClipboardScope, Held, Active, Top, StackOK
  <2>3. depth' = 1
    BY <1>9, <2>2 DEF ReadBegin, Push
  <2>4. \A d \in Levels : frame'[d].kind = "read" => d = 1
    BY <2>1, <2>3, ConstantsAssumption DEF StackOK, Levels
  <2> QED BY <1>9, <2>1, <2>4 DEF ReadBegin, renderVars, historyVars
<1>10. CASE ReadRefused
  BY <1>5, <1>10 DEF ReadRefused, WorkDone, renderVars, osVars, historyVars
<1>11. ASSUME depth > 0, Pop, UNCHANGED <<pipe, queued, pending_hash>>
       PROVE  StackOK' /\ RunSyncOK' /\ asker' \in 0..MaxDepth
  <2>1. \A d \in Levels : frame'[d].kind = "read" => frame[d].kind = "read"
    BY <1>11, PopStack, FrameRecords
  <2> QED BY <1>11, <2>1, PopStack
<1>12. ASSUME depth > 0, Top.kind = "read", ReadEnd, UNCHANGED <<queued, pending_hash>>
       PROVE  StackOK' /\ RunSyncOK' /\ asker' \in 0..MaxDepth
  <2>1. /\ StackOK' /\ asker' \in 0..MaxDepth
        /\ \A d \in Levels : frame'[d] = IF d = depth THEN Free ELSE frame[d]
    BY <1>12, PopStack DEF ReadEnd
  <2>2. depth \in Levels
    BY <1>12, ConstantsAssumption DEF StackOK, Levels
  <2>3. depth = 1 /\ ~queued
    BY <1>12, <2>2 DEF Top
  <2>4. \A d \in Levels : frame'[d].kind # "read"
    BY <2>1, <2>3, FrameRecords
  <2> QED BY <1>12, <2>1, <2>3, <2>4 DEF ReadEnd
<1>13. CASE ReadAsk
  <2> DEFINE f == NextToRead(Top.todo)
  <2>1. depth > 0 /\ Top.kind = "read" /\ UNCHANGED <<renderVars, queued, requests, historyVars>>
    BY <1>13 DEF ReadAsk, TopIs
  <2>2. CASE Top.todo # {} /\ slotState[f] = "delayed"
    <3> DEFINE g == [frame EXCEPT ![depth].pc = "check", ![depth].fmt = f,
                                  ![depth].todo = Top.todo \ {f}]
    <3>1. /\ depth < MaxDepth /\ depth' = depth + 1
          /\ frame' = [g EXCEPT ![depth + 1] = RenderRec(f)]
          /\ UNCHANGED <<pipe, osVars>>
      BY <1>13, <2>2 DEF ReadAsk
    <3>2. depth \in Levels /\ depth + 1 \in Levels /\ f \in Format
      BY <2>1, <3>1, ConstantsAssumption DEF StackOK, Levels, NextToRead, Format
    <3>3. g \in [Levels -> FrameRec] /\ \A d \in Levels : g[d].kind = frame[d].kind
      <4> DEFINE r == [Top EXCEPT !.pc = "check", !.fmt = f, !.todo = Top.todo \ {f}]
      <4>1. Top \in FrameRec
        BY <3>2 DEF StackOK, Top
      <4>2. r \in FrameRec /\ r.kind = Top.kind
        BY <3>2, <4>1 DEF FrameRec
      <4>3. g = [frame EXCEPT ![depth] = r]
        BY <3>2 DEF StackOK, Top
      <4> HIDE DEF r, g
      <4> QED BY <3>2, <4>2, <4>3 DEF StackOK, Top
    <3> HIDE DEF g
    <3>4. RenderRec(f) \in FrameRec /\ RenderRec(f).kind = "render"
      BY <3>2, FrameRecords
    <3>5. \A d \in Levels : frame'[d] = IF d = depth + 1 THEN RenderRec(f) ELSE g[d]
      BY <3>1, <3>3
    <3>6. frame' \in [Levels -> FrameRec]
      BY <3>1, <3>3, <3>4
    <3>7. \A d \in Levels : frame'[d].kind = IF d = depth + 1 THEN "render" ELSE frame[d].kind
      BY <3>3, <3>4, <3>5
    <3>8. StackOK'
      <4>1. depth' \in 0..MaxDepth
        BY <3>1, ConstantsAssumption DEF StackOK
      <4>2. ASSUME NEW d \in Levels PROVE frame'[d].kind = "free" <=> d > depth'
        <5>1. frame[d].kind = "free" <=> d > depth
          BY DEF StackOK
        <5>2. depth' = depth + 1 /\ depth \in Nat /\ d \in Nat
          BY <3>1, ConstantsAssumption DEF StackOK, Levels
        <5>3. frame'[d].kind = IF d = depth + 1 THEN "render" ELSE frame[d].kind
          BY <3>7
        <5> HIDE DEF f
        <5> QED BY <5>1, <5>2, <5>3
      <4> QED BY <3>6, <4>1, <4>2 DEF StackOK
    <3> QED BY <2>1, <3>1, <3>7, <3>8 DEF renderVars, osVars, historyVars
  <2>3. CASE ~(Top.todo # {} /\ slotState[f] = "delayed")
    <3>1. ReadEnd
      BY <1>13, <2>3 DEF ReadAsk
    <3>2. StackOK' /\ RunSyncOK' /\ asker' \in 0..MaxDepth
      BY <1>12, <2>1, <3>1 DEF renderVars
    <3> QED BY <2>1, <3>1, <3>2 DEF ReadEnd, renderVars, historyVars
  <2> QED BY <2>2, <2>3
<1>14. CASE ReadCheck
  <2>1. depth > 0 /\ Top.kind = "read" /\ UNCHANGED <<renderVars, queued, requests, historyVars>>
    BY <1>14 DEF ReadCheck, TopIs
  <2>2. CASE ReadEnd
    <3>1. StackOK' /\ RunSyncOK' /\ asker' \in 0..MaxDepth
      BY <1>12, <2>1, <2>2 DEF renderVars
    <3> QED BY <2>1, <2>2, <3>1 DEF ReadEnd, renderVars, historyVars
  <2>3. CASE Goto("ask") /\ UNCHANGED <<pipe, depth, osVars>>
    <3>1. StackOK' /\ \A d \in Levels : frame'[d].kind = frame[d].kind
      BY <2>1, <2>3, GotoStack DEF PCs
    <3> QED BY <2>1, <2>3, <3>1 DEF renderVars, osVars, historyVars
  <2> QED BY <1>14, <2>2, <2>3 DEF ReadCheck
<1>15. ASSUME depth > 0, NEW r \in FrameRec, r.kind = Top.kind,
              frame' = [frame EXCEPT ![depth] = r],
              UNCHANGED <<depth, pipe, queued, pending_hash>>
       PROVE  StackOK' /\ RunSyncOK'
  BY <1>15, UpdateStack
<1>16. depth > 0 => depth \in Levels /\ Top \in FrameRec
  BY ConstantsAssumption DEF StackOK, Levels, Top
<1>17. CASE RenderStart
  <2>1. /\ depth > 0
        /\ UNCHANGED <<pipe, queued, owner, open, slotState, slotData, requests, historyVars>>
    BY <1>17 DEF RenderStart, TopIs
  <2>2. CASE Pop /\ UNCHANGED renderVars
    BY <1>11, <2>1, <2>2 DEF renderVars, historyVars
  <2>3. CASE /\ HaveData /\ Adopt
             /\ frame' = [frame EXCEPT ![depth].pc = "set", ![depth].hash = pending_hash,
                                       ![depth].data = DataAtHand]
             /\ UNCHANGED <<depth, asker>>
    <3> DEFINE r == [Top EXCEPT !.pc = "set", !.hash = pending_hash, !.data = DataAtHand]
    <3>1. r \in FrameRec /\ r.kind = Top.kind
      BY <1>16, <2>1 DEF FrameRec, DataAtHand
    <3>2. frame' = [frame EXCEPT ![depth] = r]
      BY <1>16, <2>1, <2>3 DEF StackOK, Top
    <3> HIDE DEF r
    <3>3. StackOK' /\ RunSyncOK'
      BY <1>15, <2>1, <2>3, <3>1, <3>2 DEF Adopt
    <3>4. cached_response' \in OptHash /\ cached_valid' \in BOOLEAN /\ pending_response' \in OptHash
      BY <2>3 DEF Adopt, DataAtHand
    <3> QED BY <2>1, <2>3, <3>3, <3>4 DEF Adopt, historyVars
  <2>4. CASE /\ frame' = [frame EXCEPT ![depth].pc = "send", ![depth].hash = pending_hash]
             /\ UNCHANGED <<renderVars, depth, asker>>
    <3> DEFINE r == [Top EXCEPT !.pc = "send", !.hash = pending_hash]
    <3>1. r \in FrameRec /\ r.kind = Top.kind
      BY <1>16, <2>1 DEF FrameRec
    <3>2. frame' = [frame EXCEPT ![depth] = r]
      BY <1>16, <2>1, <2>4 DEF StackOK, Top
    <3> HIDE DEF r
    <3>3. StackOK' /\ RunSyncOK'
      BY <1>15, <2>1, <2>4, <3>1, <3>2 DEF renderVars
    <3>4. UNCHANGED <<renderVars, asker>>
      BY <2>4
    <3> QED BY <2>1, <3>3, <3>4 DEF renderVars, historyVars
  <2> QED BY <1>17, <2>2, <2>3, <2>4 DEF RenderStart
<1>18. ASSUME depth > 0, NEW pc \in PCs, Goto(pc), UNCHANGED <<depth, pipe, queued, pending_hash>>
       PROVE  StackOK' /\ RunSyncOK'
  BY <1>18, GotoStack
<1>19. CASE SendDataRequest
  <2>1. /\ depth > 0 /\ Top.hash \in OptHash
        /\ UNCHANGED <<renderVars, pipe, queued, owner, open, slotState, slotData, historyVars>>
    BY <1>16, <1>19 DEF SendDataRequest, TopIs, FrameRec
  <2>2. CASE Pop /\ UNCHANGED requests
    BY <1>11, <2>1, <2>2 DEF renderVars, historyVars
  <2>3. CASE requests' = requests \cup {Top.hash} /\ Goto("wait") /\ UNCHANGED <<depth, asker>>
    <3>1. StackOK' /\ RunSyncOK'
      BY <1>18, <2>1, <2>3 DEF PCs, renderVars
    <3>2. Top.hash \in Hash
      BY <1>16, <1>19, <2>1, ConstantsAssumption
         DEF SendDataRequest, TopIs, FramesCurrent, Active, Levels, Top
    <3> QED BY <2>1, <2>3, <3>1, <3>2 DEF renderVars, historyVars
  <2> QED BY <1>19, <2>2, <2>3 DEF SendDataRequest
<1>20. CASE WakeByEvent
  <2>1. StackOK' /\ RunSyncOK'
    BY <1>18, <1>20 DEF WakeByEvent, TopIs, PCs, renderVars
  <2> QED BY <1>20, <2>1 DEF WakeByEvent, renderVars, osVars, historyVars
<1>21. CASE RenderTimeout
  BY <1>11, <1>21 DEF RenderTimeout, TopIs, renderVars, historyVars
<1>22. CASE AfterWake
  <2> DEFINE bytes == IF pending_response # NoHash THEN pending_response ELSE cached_response
  <2>1. /\ depth > 0
        /\ UNCHANGED <<pipe, queued, owner, open, slotState, slotData, requests, historyVars>>
    BY <1>22 DEF AfterWake, TopIs
  <2>2. CASE Pop /\ UNCHANGED renderVars
    BY <1>11, <2>1, <2>2 DEF renderVars, historyVars
  <2>3. CASE /\ frame' = [frame EXCEPT ![depth].pc = "set", ![depth].data = bytes]
             /\ cached_response' = bytes /\ cached_valid' = TRUE /\ pending_response' = NoHash
             /\ UNCHANGED <<depth, asker, pending_hash, render_event>>
    <3> DEFINE r == [Top EXCEPT !.pc = "set", !.data = bytes]
    <3>1. r \in FrameRec /\ r.kind = Top.kind
      BY <1>16, <2>1 DEF FrameRec
    <3>2. frame' = [frame EXCEPT ![depth] = r]
      BY <1>16, <2>1, <2>3 DEF StackOK, Top
    <3> HIDE DEF r
    <3>3. StackOK' /\ RunSyncOK'
      BY <1>15, <2>1, <2>3, <3>1, <3>2
    <3> QED BY <2>1, <2>3, <3>3 DEF historyVars
  <2> QED BY <1>22, <2>2, <2>3 DEF AfterWake
<1>23. CASE PumpEnd
  <2>1. /\ depth > 0
        /\ UNCHANGED <<renderVars, pipe, queued, owner, open, slotState, slotData, requests,
                       historyVars>>
    BY <1>23 DEF PumpEnd, TopIs
  <2>2. CASE Pop
    BY <1>11, <2>1, <2>2 DEF renderVars, historyVars
  <2>3. CASE /\ frame' = [frame EXCEPT ![depth].pc = "set", ![depth].data = cached_response]
             /\ UNCHANGED <<depth, asker>>
    <3> DEFINE r == [Top EXCEPT !.pc = "set", !.data = cached_response]
    <3>1. r \in FrameRec /\ r.kind = Top.kind
      BY <1>16, <2>1 DEF FrameRec
    <3>2. frame' = [frame EXCEPT ![depth] = r]
      BY <1>16, <2>1, <2>3 DEF StackOK, Top
    <3> HIDE DEF r
    <3>3. StackOK' /\ RunSyncOK'
      BY <1>15, <2>1, <2>3, <3>1, <3>2 DEF renderVars
    <3>4. UNCHANGED asker
      BY <2>3
    <3> QED BY <2>1, <3>3, <3>4 DEF renderVars, historyVars
  <2>4. CASE Goto("wait") /\ UNCHANGED <<depth, asker>>
    <3>1. StackOK' /\ RunSyncOK'
      BY <1>18, <2>1, <2>4 DEF PCs, renderVars
    <3> QED BY <2>1, <2>4, <3>1 DEF renderVars, historyVars
  <2> QED BY <1>23, <2>2, <2>3, <2>4 DEF PumpEnd
<1>24. ASSUME NEW f \in Format, NEW b \in OptHash, SetClipboardData(f, b)
       PROVE  /\ slotState' \in [Format -> {"absent", "delayed", "full"}]
              /\ slotData' \in [Format -> OptHash]
  BY <1>24 DEF SetClipboardData
<1>25. CASE RenderToSlot
  <2>1. depth > 0 /\ Pop /\ UNCHANGED <<renderVars, pipe, queued, owner, open, requests, historyVars>>
    BY <1>25 DEF RenderToSlot, TopIs
  <2>2. StackOK' /\ RunSyncOK' /\ asker' \in 0..MaxDepth
    BY <1>11, <2>1 DEF renderVars
  <2>3. Top.fmt \in Format /\ Top.data \in OptHash
    BY <1>16, <2>1 DEF FrameRec
  <2>4. /\ slotState' \in [Format -> {"absent", "delayed", "full"}]
        /\ slotData' \in [Format -> OptHash]
    BY <1>24, <1>25, <2>3 DEF RenderToSlot
  <2> QED BY <2>1, <2>2, <2>4 DEF renderVars, historyVars
<1>26. CASE RenderAllBegin
  <2>1. StackOK'
    BY <1>26, PushStack, FrameRecords DEF RenderAllBegin
  <2>2. \A d \in Levels : frame'[d].kind = "read" => frame[d].kind = "read"
    <3> DEFINE fr == EnterPump(frame)
               r  == [Free EXCEPT !.kind = "all", !.pc = "ask",
                                  !.todo = {f \in Format : slotState[f] # "absent"}]
    <3>1. r.kind = "all"
      BY FrameRecords
    <3>2. /\ fr \in [Levels -> FrameRec]
          /\ \A d \in Levels : fr[d].kind = frame[d].kind
      BY EnterPumpStack
    <3>3. frame' = [fr EXCEPT ![depth + 1] = r]
      BY <1>26 DEF RenderAllBegin, Push
    <3> HIDE DEF fr, r
    <3> QED BY <3>1, <3>2, <3>3
  <2> QED BY <1>26, <2>1, <2>2 DEF RenderAllBegin, renderVars, historyVars
<1>27. CASE RenderAllStep
  <2>1. depth > 0 /\ UNCHANGED <<pipe, queued, requests, historyVars>>
    BY <1>27 DEF RenderAllStep, TopIs
  <2>2. CASE Top.todo = {}
    <3>1. Pop /\ open' = "no" /\ UNCHANGED <<renderVars, owner, slotState, slotData>>
      BY <1>27, <2>2 DEF RenderAllStep
    <3> QED BY <1>11, <2>1, <3>1 DEF renderVars, historyVars
  <2>3. CASE Top.todo # {}
    <3> DEFINE f == NextToRead(Top.todo)
               r == [Top EXCEPT !.todo = Top.todo \ {f}]
    <3>1. f \in Format /\ DataAtHand \in OptHash
      BY DEF NextToRead, Format, DataAtHand
    <3>2. /\ UNCHANGED <<depth, owner, open, asker, pending_hash, render_event>>
          /\ cached_response' \in OptHash /\ cached_valid' \in BOOLEAN
          /\ pending_response' \in OptHash
          /\ slotState' \in [Format -> {"absent", "delayed", "full"}]
          /\ slotData' \in [Format -> OptHash]
      BY <1>24, <1>27, <2>3, <3>1 DEF RenderAllStep, Adopt, renderVars
    <3>3. r \in FrameRec /\ r.kind = Top.kind
      BY <1>16, <2>1, <3>1 DEF FrameRec
    <3>4. frame' = [frame EXCEPT ![depth] = r]
      BY <1>16, <1>27, <2>1, <2>3 DEF RenderAllStep, StackOK, Top
    <3> HIDE DEF f, r
    <3>5. StackOK' /\ RunSyncOK'
      BY <1>15, <2>1, <3>2, <3>3, <3>4
    <3> QED BY <2>1, <3>2, <3>5 DEF historyVars
  <2> QED BY <2>2, <2>3
<1>28. CASE AppOpen \/ AppClose \/ ForeignCopy
  <2>1. StackOK'
    BY <1>28 DEF AppOpen, AppClose, ForeignCopy, StackOK
  <2> QED BY <1>28, <2>1, ConstantsAssumption
          DEF AppOpen, AppClose, ForeignCopy, renderVars, historyVars
<1>29. ASSUME NEW f \in Format, AppPaste(f) PROVE TypeOK'
  <2>1. StackOK'
    BY <1>29, PushStack, FrameRecords DEF AppPaste
  <2>2. \A d \in Levels : frame'[d].kind = "read" => frame[d].kind = "read"
    <3> DEFINE fr == EnterPump(frame)
    <3>1. RenderRec(f).kind = "render"
      BY FrameRecords
    <3>2. /\ fr \in [Levels -> FrameRec]
          /\ \A d \in Levels : fr[d].kind = frame[d].kind
      BY EnterPumpStack
    <3>3. frame' = [fr EXCEPT ![depth + 1] = RenderRec(f)]
      BY <1>29 DEF AppPaste, Push
    <3> HIDE DEF fr
    <3> QED BY <3>1, <3>2, <3>3
  <2>3. asker' \in 0..MaxDepth
    BY <1>29, ConstantsAssumption DEF AppPaste, Push, StackOK
  <2> QED BY <1>29, <2>1, <2>2, <2>3 DEF AppPaste, renderVars, historyVars
<1>30. CASE UNCHANGED vars
  BY <1>30 DEF vars, renderVars, osVars, historyVars, StackOK
<1> HIDE DEF TypeOK, RunSyncOK, OptHash
<1> QED
  BY <1>1, <1>2, <1>3, <1>4, <1>6, <1>7, <1>8, <1>9, <1>10, <1>13, <1>14, <1>17, <1>19,
     <1>20, <1>21, <1>22, <1>23, <1>25, <1>26, <1>27, <1>28, <1>29, <1>30
  DEF Next, PipeNext, StaNext, AppNext
-----------------------------------------------------------------------------
(* How the steps of the stack keep the activations on their announcements. *)

\* What FramesCurrent says of one activation.
Current(fr) ==
  fr.kind = "render" /\ fr.pc # "start" =>
    /\ fr.hash \in fresh
    /\ ContentType[fr.hash] = FormatType[fr.fmt]
    /\ fr.pc = "set" => fr.data = fr.hash

\* The innermost activation makes a step.
LEMMA UpdateCurrent ==
  ASSUME TypeOK, FramesCurrent, depth > 0, NEW r \in FrameRec, r.kind = Top.kind, Current(r),
         frame' = [frame EXCEPT ![depth] = r], UNCHANGED <<depth, fresh>>
  PROVE  FramesCurrent' /\ (Held' <=> Held)
<1>1. depth \in Levels /\ Active \subseteq Levels /\ Active' = Active
  BY ConstantsAssumption DEF TypeOK, StackOK, Levels, Active
<1>2. \A d \in Active : frame'[d] = IF d = depth THEN r ELSE frame[d]
  BY <1>1 DEF TypeOK, StackOK
<1>3. Held' <=> Held
  BY <1>1, <1>2 DEF Held, Top
<1>4. ASSUME NEW d \in Active' PROVE Current(frame[d])' 
  <2>1. CASE d = depth
    BY <1>1, <1>2, <2>1 DEF Current
  <2>2. CASE d # depth
    BY <1>1, <1>2, <2>2 DEF Current, FramesCurrent
  <2> QED BY <2>1, <2>2
<1> QED BY <1>3, <1>4 DEF FramesCurrent, Current

\* The innermost activation returns.
LEMMA PopCurrent ==
  ASSUME TypeOK, FramesCurrent, depth > 0, Pop, UNCHANGED fresh
  PROVE  FramesCurrent' /\ (Held' => Held)
<1>1. /\ Active' \subseteq Active /\ Active \subseteq Levels
      /\ \A d \in Active' : d # depth
  BY ConstantsAssumption DEF TypeOK, StackOK, Levels, Active, Pop
<1>2. \A d \in Active' : frame'[d] = frame[d]
  BY <1>1 DEF TypeOK, StackOK, Pop
<1> QED BY <1>1, <1>2 DEF FramesCurrent, Held

\* A message is dispatched from the innermost wait.
LEMMA EnterPumpCurrent ==
  ASSUME TypeOK, FramesCurrent, Pumping, NEW d \in Levels
  PROVE  /\ EnterPump(frame)[d].kind = frame[d].kind
         /\ d \in Active => Current(EnterPump(frame)[d])
<1>1. CASE depth = 0
  BY <1>1, ConstantsAssumption DEF EnterPump, Active, Levels
<1>2. CASE depth # 0 /\ d # depth
  BY <1>2 DEF EnterPump, TypeOK, StackOK, FramesCurrent, Current
<1>3. CASE depth # 0 /\ d = depth
  <2>1. EnterPump(frame)[d] = [Top EXCEPT !.pc = "pump"]
    BY <1>3 DEF EnterPump, Top, TypeOK, StackOK
  <2>2. Top \in FrameRec /\ Top.kind = "render" /\ Top.pc # "start"
    BY <1>3 DEF Top, Pumping, TypeOK, StackOK
  <2>3. d \in Active
    BY <1>3, ConstantsAssumption DEF Active, Levels
  <2>4. Top.hash \in fresh /\ ContentType[Top.hash] = FormatType[Top.fmt]
    BY <1>3, <2>2, <2>3 DEF FramesCurrent, Top
  <2> QED BY <1>3, <2>1, <2>2, <2>4 DEF Current, FrameRec, Top
<1> QED BY <1>1, <1>2, <1>3

\* An activation is entered.
LEMMA PushCurrent ==
  ASSUME TypeOK, FramesCurrent, Pumping, UNCHANGED fresh,
         NEW rec \in FrameRec, rec.kind = "render" => rec.pc = "start", Push(rec)
  PROVE  FramesCurrent'
<1> DEFINE fr == EnterPump(frame)
<1>1. /\ depth \in 0..MaxDepth /\ depth < MaxDepth /\ depth' = depth + 1
      /\ frame' = [fr EXCEPT ![depth + 1] = rec] /\ fr \in [Levels -> FrameRec]
  BY EnterPumpStack DEF TypeOK, StackOK, Push
<1>2. \A d \in Active : Current(fr[d])
  BY <1>1, EnterPumpCurrent, ConstantsAssumption DEF Active, Levels
<1> HIDE DEF fr
<1>3. ASSUME NEW d \in Active' PROVE d = depth + 1 \/ (d \in Active /\ d # depth + 1)
  BY <1>1 DEF Active
<1>4. ASSUME NEW d \in Active' PROVE frame'[d] = IF d = depth + 1 THEN rec ELSE fr[d]
  BY <1>1, ConstantsAssumption DEF Active, Levels
<1> QED BY <1>2, <1>3, <1>4 DEF FramesCurrent, Current
-----------------------------------------------------------------------------
\* Nothing is pending, cached, rendered or advertised initially.
LEMMA ServeInit == Init => ServeInv
<1> SUFFICES ASSUME Init PROVE ServeInv OBVIOUS
<1>1. Active = {}
  BY DEF Init, Active
<1> QED BY <1>1 DEF Init, ServeInv, ResponseCurrent, FramesCurrent, PendingFresh, SlotsFresh, Held

\* Every step keeps the responses, the activations and the slots on
\* announcements no older than what the OS advertises.
LEMMA ServeStep == TypeOK /\ ServeInv /\ [Next]_vars => ServeInv'
<1> SUFFICES ASSUME TypeOK, ServeInv, [Next]_vars PROVE ServeInv' OBVIOUS
<1>0. ResponseCurrent /\ FramesCurrent /\ PendingFresh /\ SlotsFresh
  BY DEF ServeInv
<1>1. ASSUME NEW h \in Hash, HandleAnnounceDelayed(h) \/ DropFilesAnnouncement(h)
      PROVE  ServeInv'
  <2>1. /\ pending_hash' = h /\ pending_response' = NoHash /\ cached_valid' = FALSE
        /\ fresh' = fresh \cup {h} /\ UNCHANGED <<depth, frame, slotState, slotData>>
    BY <1>1 DEF HandleAnnounceDelayed, DropFilesAnnouncement, StoreAnnouncement, osVars
  <2>2. ResponseCurrent' BY <2>1 DEF ResponseCurrent
  <2>3. FramesCurrent' BY <1>0, <2>1 DEF FramesCurrent, Active
  <2>4. PendingFresh' BY <2>1 DEF PendingFresh
  <2>5. SlotsFresh' BY <1>0, <2>1 DEF SlotsFresh
  <2> QED BY <2>2, <2>3, <2>4, <2>5 DEF ServeInv
<1>2. ASSUME NEW h \in Hash, NEW bytes \in BOOLEAN, HandleProvideData(h, bytes)
      PROVE ServeInv'
  <2>1. UNCHANGED <<pending_hash, cached_response, cached_valid, depth, slotState, slotData, fresh>>
    BY <1>2 DEF HandleProvideData, osVars
  <2>2. ResponseCurrent'
    BY <1>0, <1>2, <2>1 DEF HandleProvideData, ResponseCurrent
  <2>3. \A d \in Active : frame'[d] \in {frame[d], [frame[d] EXCEPT !.told = TRUE]}
    BY <1>2, ConstantsAssumption DEF HandleProvideData, TypeOK, StackOK, Active, Levels
  <2>4. \A d \in Active : frame[d] \in FrameRec
    BY ConstantsAssumption DEF TypeOK, StackOK, Active, Levels
  <2>5. \A d \in Active : /\ frame'[d].kind = frame[d].kind /\ frame'[d].pc = frame[d].pc
                           /\ frame'[d].hash = frame[d].hash /\ frame'[d].fmt = frame[d].fmt
                           /\ frame'[d].data = frame[d].data
    BY <2>3, <2>4 DEF FrameRec
  <2>6. FramesCurrent' BY <1>0, <2>1, <2>5 DEF FramesCurrent, Active
  <2>7. PendingFresh' BY <1>0, <2>1, <2>5 DEF PendingFresh, Held, Active
  <2>8. SlotsFresh' BY <1>0, <2>1 DEF SlotsFresh
  <2> QED BY <2>2, <2>6, <2>7, <2>8 DEF ServeInv
<1>3. ASSUME UNCHANGED <<renderVars, depth, frame, slotState, slotData, fresh>>
      PROVE  ServeInv'
  BY <1>3 DEF renderVars, ServeInv, ResponseCurrent, FramesCurrent, PendingFresh, SlotsFresh,
              Held, Active
<1>4. ASSUME NEW kind \in {"SET", "GET"}, HandleRunSync(kind) PROVE ServeInv'
  BY <1>3, <1>4 DEF HandleRunSync, osVars
<1>5. ASSUME WorkDone, Pumping, UNCHANGED depth
      PROVE  /\ UNCHANGED fresh => FramesCurrent'
             /\ Held' <=> Held
  <2>1. Active' = Active /\ Active \subseteq Levels
    BY <1>5, ConstantsAssumption DEF Active, Levels, TypeOK, StackOK
  <2>2. frame' = EnterPump(frame)
    BY <1>5 DEF WorkDone
  <2>3. \A d \in Active : frame'[d].kind = frame[d].kind /\ Current(frame'[d])
    BY <1>0, <1>5, <2>1, <2>2, EnterPumpCurrent
  <2> QED BY <2>1, <2>3 DEF FramesCurrent, Held, Current
\* A work item that finds the clipboard refused.
<1>6. ASSUME WorkDone, Pumping, UNCHANGED <<renderVars, depth, slotState, slotData, fresh>>
      PROVE  ServeInv'
  BY <1>0, <1>5, <1>6 DEF ServeInv, renderVars, ResponseCurrent, PendingFresh, SlotsFresh
\* A work item that rewrites the clipboard: no render is active.
<1>7. ASSUME WorkDone, Pumping, ~Held, UNCHANGED <<renderVars, depth>>,
             \A f \in Format : slotData'[f] = NoHash,
             (\E f \in Format : slotState'[f] = "delayed") => pending_hash \in fresh'
      PROVE  ServeInv'
  <2>1. ~Held'
    BY <1>5, <1>7
  <2>2. FramesCurrent'
    BY <2>1 DEF FramesCurrent, Held
  <2> QED BY <1>0, <1>7, <2>1, <2>2
          DEF ServeInv, renderVars, ResponseCurrent, PendingFresh, SlotsFresh
<1>8. CASE AnnounceFormats
  <2>1. WorkDone /\ Pumping /\ UNCHANGED <<renderVars, depth>>
    BY <1>8 DEF AnnounceFormats
  <2>2. CASE UNCHANGED <<owner, slotState, slotData, fresh>>
    BY <1>6, <2>1, <2>2
  <2>3. CASE ~UNCHANGED <<owner, slotState, slotData, fresh>>
    <3>1. ~Held /\ slotData' = [f \in Format |-> NoHash] /\ fresh' = {pending_hash}
      BY <1>8, <2>3 DEF AnnounceFormats, ClipboardScope
    <3> QED BY <1>7, <2>1, <3>1
  <2> QED BY <2>2, <2>3
<1>9. CASE WriteClipboard
  <2>1. WorkDone /\ Pumping /\ UNCHANGED <<renderVars, depth>>
    BY <1>9 DEF WriteClipboard
  <2>2. CASE UNCHANGED <<owner, slotState, slotData, fresh>>
    BY <1>6, <2>1, <2>2
  <2>3. CASE ~UNCHANGED <<owner, slotState, slotData, fresh>>
    <3>1. /\ ~Held /\ slotData' = [f \in Format |-> NoHash]
          /\ \A f \in Format : slotState'[f] # "delayed"
      BY <1>9, <2>3 DEF WriteClipboard, ClipboardScope
    <3> QED BY <1>7, <2>1, <3>1
  <2> QED BY <2>2, <2>3
<1>10. CASE AnnounceFiles
  <2>1. WorkDone /\ Pumping /\ UNCHANGED <<renderVars, depth, fresh>>
    BY <1>10 DEF AnnounceFiles, historyVars
  <2>2. \/ UNCHANGED <<slotState, slotData>>
        \/ \A f \in Format : slotState'[f] = "absent"
    BY <1>10 DEF AnnounceFiles
  <2>3. FramesCurrent' /\ (Held' <=> Held)
    BY <1>5, <2>1
  <2>4. PendingFresh' /\ SlotsFresh'
    BY <1>0, <2>1, <2>2, <2>3 DEF PendingFresh, SlotsFresh, renderVars
  <2> QED BY <1>0, <2>1, <2>3, <2>4 DEF ServeInv, ResponseCurrent, renderVars
<1>11. CASE ReadRefused
  BY <1>6, <1>11 DEF ReadRefused, osVars, historyVars
\* Entering an activation that no stale slot can have asked for.
<1>12. ASSUME NEW rec \in FrameRec, Push(rec), Pumping,
              rec.kind = "render" => rec.pc = "start",
              rec.kind \in {"render", "all"} => pending_hash \in fresh,
              UNCHANGED <<renderVars, slotState, slotData, fresh>>
       PROVE  ServeInv'
  <2>1. FramesCurrent'
    BY <1>0, <1>12, PushCurrent
  <2>2. Held' => Held \/ rec.kind \in {"render", "all"}
    <3> DEFINE fr == EnterPump(frame)
    <3>1. /\ depth \in 0..MaxDepth /\ depth < MaxDepth /\ depth' = depth + 1
          /\ frame' = [fr EXCEPT ![depth + 1] = rec] /\ fr \in [Levels -> FrameRec]
          /\ \A d \in Levels : fr[d].kind = frame[d].kind
      BY <1>12, EnterPumpStack DEF TypeOK, StackOK, Push
    <3> HIDE DEF fr
    <3>2. ASSUME NEW d \in Active'
          PROVE  \/ d = depth + 1 /\ frame'[d] = rec
                 \/ d \in Active /\ frame'[d].kind = frame[d].kind
      <4>1. d \in Levels /\ (d = depth + 1 \/ d \in Active)
        BY <3>1, ConstantsAssumption DEF Active, Levels
      <4> QED BY <3>1, <4>1
    <3> QED BY <3>2 DEF Held
  <2>3. PendingFresh'
    BY <1>0, <1>12, <2>2 DEF PendingFresh, renderVars
  <2> QED BY <1>0, <1>12, <2>1, <2>3 DEF ServeInv, renderVars, ResponseCurrent, SlotsFresh
<1>13. CASE ReadBegin
  <2> DEFINE S == {f \in Format : slotState[f] # "absent"}
             r == [Free EXCEPT !.kind = "read", !.pc = "ask", !.todo = S]
  <2>1. r \in FrameRec /\ r.kind = "read"
    BY FrameRecords
  <2>2. Push(r) /\ Pumping /\ UNCHANGED <<renderVars, slotState, slotData, fresh>>
    BY <1>13 DEF ReadBegin, historyVars
  <2> HIDE DEF r
  <2> QED BY <1>12, <2>1, <2>2
<1>14. CASE RenderAllBegin
  <2> DEFINE S == {f \in Format : slotState[f] # "absent"}
             r == [Free EXCEPT !.kind = "all", !.pc = "ask", !.todo = S]
  <2>1. r \in FrameRec /\ r.kind = "all"
    BY FrameRecords
  <2>2. Push(r) /\ Pumping /\ UNCHANGED <<renderVars, slotState, slotData, fresh>>
    BY <1>14 DEF RenderAllBegin, historyVars
  <2>3. pending_hash \in fresh
    BY <1>0, <1>14 DEF RenderAllBegin, PendingFresh
  <2> HIDE DEF r
  <2> QED BY <1>12, <2>1, <2>2, <2>3
<1>15. ASSUME NEW f \in Format, AppPaste(f) PROVE ServeInv'
  <2>1. RenderRec(f) \in FrameRec /\ RenderRec(f).kind = "render" /\ RenderRec(f).pc = "start"
    BY FrameRecords DEF RenderRec, Free
  <2>2. Push(RenderRec(f)) /\ Pumping /\ UNCHANGED <<renderVars, slotState, slotData, fresh>>
    BY <1>15 DEF AppPaste, historyVars
  <2>3. pending_hash \in fresh
    BY <1>0, <1>15 DEF AppPaste, PendingFresh
  <2> QED BY <1>12, <2>1, <2>2, <2>3
\* The innermost activation returns, or steps, and the slots stay.
<1>16. ASSUME depth > 0, Pop, UNCHANGED <<pending_hash, slotState, slotData, fresh>>,
              ResponseCurrent'
       PROVE  ServeInv'
  <2>1. FramesCurrent' /\ (Held' => Held)
    BY <1>0, <1>16, PopCurrent
  <2> QED BY <1>0, <1>16, <2>1 DEF ServeInv, PendingFresh, SlotsFresh
<1>17. ASSUME depth > 0, NEW r \in FrameRec, r.kind = Top.kind, Current(r),
              frame' = [frame EXCEPT ![depth] = r],
              UNCHANGED <<depth, pending_hash, slotState, slotData, fresh>>, ResponseCurrent'
       PROVE  ServeInv'
  <2>1. FramesCurrent' /\ (Held' <=> Held)
    BY <1>0, <1>17, UpdateCurrent
  <2> QED BY <1>0, <1>17, <2>1 DEF ServeInv, PendingFresh, SlotsFresh
<1>18. ASSUME UNCHANGED renderVars PROVE ResponseCurrent'
  BY <1>0, <1>18 DEF renderVars, ResponseCurrent
<1>19. depth > 0 => depth \in Levels /\ depth \in Active /\ Top \in FrameRec /\ Current(Top)
  BY <1>0, ConstantsAssumption DEF TypeOK, StackOK, Levels, Active, Top, FramesCurrent, Current
<1>20. ASSUME depth > 0, NEW pc \in PCs \ {"set"}, Goto(pc), Top.pc # "start",
              UNCHANGED <<renderVars, depth, slotState, slotData, fresh>>
       PROVE  ServeInv'
  <2> DEFINE r == [Top EXCEPT !.pc = pc]
  <2>1. r \in FrameRec /\ r.kind = Top.kind /\ Current(r)
    BY <1>19, <1>20 DEF FrameRec, Current, PCs
  <2>2. frame' = [frame EXCEPT ![depth] = r]
    BY <1>19, <1>20 DEF Goto, Top, TypeOK, StackOK
  <2> HIDE DEF r
  <2> QED BY <1>17, <1>18, <1>20, <2>1, <2>2 DEF renderVars
<1>21. CASE ReadCheck
  <2>1. CASE ReadEnd
    BY <1>16, <1>18, <1>21, <2>1 DEF ReadCheck, ReadEnd, TopIs, renderVars, historyVars
  <2>2. CASE Goto("ask") /\ UNCHANGED <<depth, osVars>>
    BY <1>20, <1>21, <2>2 DEF ReadCheck, TopIs, PCs, osVars, historyVars
  <2> QED BY <1>21, <2>1, <2>2 DEF ReadCheck
<1>22. CASE ReadAsk
  <2> DEFINE f == NextToRead(Top.todo)
  <2>1. depth > 0 /\ Top.kind = "read" /\ UNCHANGED <<renderVars, historyVars>>
    BY <1>22 DEF ReadAsk, TopIs
  <2>2. CASE ~(Top.todo # {} /\ slotState[f] = "delayed")
    BY <1>16, <1>18, <1>22, <2>1, <2>2 DEF ReadAsk, ReadEnd, renderVars, historyVars
  <2>3. CASE Top.todo # {} /\ slotState[f] = "delayed"
    <3> DEFINE r == [Top EXCEPT !.pc = "check", !.fmt = f, !.todo = Top.todo \ {f}]
    <3>1. /\ depth < MaxDepth /\ depth' = depth + 1 /\ UNCHANGED osVars
          /\ frame' = [frame EXCEPT ![depth] = r, ![depth + 1] = RenderRec(f)]
      BY <1>19, <1>22, <2>1, <2>3 DEF ReadAsk, Top, TypeOK, StackOK
    <3>2. r.kind = "read" /\ f \in Format
      BY <1>19, <2>1 DEF FrameRec, NextToRead, Format
    <3>3. RenderRec(f).kind = "render" /\ RenderRec(f).pc = "start"
      BY DEF RenderRec, Free
    <3> HIDE DEF r
    <3>4. ASSUME NEW d \in Active'
          PROVE  \/ frame'[d] = RenderRec(f)
                 \/ frame'[d] = r
                 \/ d \in Active /\ frame'[d] = frame[d]
      BY <1>19, <2>1, <3>1, ConstantsAssumption DEF Active, Levels, TypeOK, StackOK
    <3>5. FramesCurrent'
      BY <1>0, <2>1, <3>2, <3>3, <3>4 DEF FramesCurrent, historyVars
    <3>6. pending_hash \in fresh
      BY <1>0, <2>3, <3>2 DEF PendingFresh
    <3> QED BY <1>0, <1>18, <2>1, <3>1, <3>5, <3>6
            DEF ServeInv, PendingFresh, SlotsFresh, renderVars, osVars, historyVars
  <2> QED BY <2>2, <2>3
<1>23. (Held /\ pending_hash \in fresh) \/ ~ \E d \in Active : frame[d].kind \in {"render", "all"}
  BY <1>0 DEF PendingFresh, Held
<1>24. HaveData => DataAtHand = pending_hash /\ pending_hash # NoHash
  BY <1>0 DEF HaveData, DataAtHand, ResponseCurrent
<1>25. ASSUME HaveData, Adopt PROVE ResponseCurrent'
  BY <1>0, <1>24, <1>25 DEF Adopt, ResponseCurrent
<1>26. CASE RenderStart
  <2>1. /\ depth > 0 /\ Top.kind = "render" /\ UNCHANGED <<slotState, slotData, fresh>>
    BY <1>26 DEF RenderStart, TopIs, historyVars
  <2>2. pending_hash \in fresh
    BY <1>19, <1>23, <2>1 DEF Top
  <2>3. CASE Pop /\ UNCHANGED renderVars
    BY <1>16, <1>18, <2>1, <2>3 DEF renderVars
  <2>4. CASE /\ Wanted(Top.fmt) /\ HaveData /\ Adopt
             /\ frame' = [frame EXCEPT ![depth].pc = "set", ![depth].hash = pending_hash,
                                       ![depth].data = DataAtHand]
             /\ UNCHANGED <<depth, asker>>
    <3> DEFINE r == [Top EXCEPT !.pc = "set", !.hash = pending_hash, !.data = DataAtHand]
    <3>1. r \in FrameRec /\ r.kind = Top.kind
      BY <1>19, <2>1 DEF FrameRec, DataAtHand, TypeOK
    <3>2. Current(r)
      BY <1>19, <1>24, <2>1, <2>2, <2>4 DEF FrameRec, Current, Wanted
    <3>3. frame' = [frame EXCEPT ![depth] = r]
      BY <1>19, <2>1, <2>4 DEF TypeOK, StackOK, Top
    <3> HIDE DEF r
    <3> QED BY <1>17, <1>25, <2>1, <2>4, <3>1, <3>2, <3>3 DEF Adopt
  <2>5. CASE /\ Wanted(Top.fmt)
             /\ frame' = [frame EXCEPT ![depth].pc = "send", ![depth].hash = pending_hash]
             /\ UNCHANGED <<renderVars, depth, asker>>
    <3> DEFINE r == [Top EXCEPT !.pc = "send", !.hash = pending_hash]
    <3>1. r \in FrameRec /\ r.kind = Top.kind
      BY <1>19, <2>1 DEF FrameRec, TypeOK
    <3>2. Current(r)
      BY <1>19, <2>1, <2>2, <2>5 DEF FrameRec, Current, Wanted
    <3>3. frame' = [frame EXCEPT ![depth] = r]
      BY <1>19, <2>1, <2>5 DEF TypeOK, StackOK, Top
    <3> HIDE DEF r
    <3> QED BY <1>17, <1>18, <2>1, <2>5, <3>1, <3>2, <3>3 DEF renderVars
  <2> QED BY <1>26, <2>3, <2>4, <2>5 DEF RenderStart
<1>27. CASE SendDataRequest
  <2>1. /\ depth > 0 /\ Top.pc = "send"
        /\ UNCHANGED <<renderVars, slotState, slotData, fresh>>
    BY <1>27 DEF SendDataRequest, TopIs, historyVars
  <2>2. CASE Pop
    BY <1>16, <1>18, <2>1, <2>2 DEF renderVars
  <2>3. CASE Goto("wait") /\ UNCHANGED depth
    BY <1>20, <2>1, <2>3 DEF PCs
  <2> QED BY <1>27, <2>2, <2>3 DEF SendDataRequest
<1>28. CASE WakeByEvent
  BY <1>20, <1>28 DEF WakeByEvent, TopIs, PCs, osVars, historyVars
<1>29. CASE RenderTimeout
  BY <1>16, <1>18, <1>29 DEF RenderTimeout, TopIs, renderVars, historyVars
\* Bytes of the announcement the activation started with become its data.
<1>30. ASSUME depth > 0, Top.kind = "render", Top.pc # "start", NEW b \in OptHash,
              b = Top.hash, frame' = [frame EXCEPT ![depth].pc = "set", ![depth].data = b],
              UNCHANGED <<depth, pending_hash, slotState, slotData, fresh>>, ResponseCurrent'
       PROVE  ServeInv'
  <2> DEFINE r == [Top EXCEPT !.pc = "set", !.data = b]
  <2>1. r \in FrameRec /\ r.kind = Top.kind /\ Current(r)
    BY <1>19, <1>30 DEF FrameRec, Current
  <2>2. frame' = [frame EXCEPT ![depth] = r]
    BY <1>19, <1>30 DEF Top, TypeOK, StackOK
  <2> HIDE DEF r
  <2> QED BY <1>17, <1>30, <2>1, <2>2
<1>31. CASE AfterWake
  <2> DEFINE bytes == IF pending_response # NoHash THEN pending_response ELSE cached_response
  <2>1. /\ depth > 0 /\ Top.kind = "render" /\ Top.pc = "woken"
        /\ UNCHANGED <<slotState, slotData, fresh>>
    BY <1>31 DEF AfterWake, TopIs, historyVars
  <2>2. CASE Pop /\ UNCHANGED renderVars
    BY <1>16, <1>18, <2>1, <2>2 DEF renderVars
  <2>3. CASE /\ pending_hash = Top.hash /\ HaveData
             /\ frame' = [frame EXCEPT ![depth].pc = "set", ![depth].data = bytes]
             /\ cached_response' = bytes /\ cached_valid' = TRUE /\ pending_response' = NoHash
             /\ UNCHANGED <<depth, asker, pending_hash, render_event>>
    <3>1. bytes = pending_hash /\ pending_hash # NoHash /\ bytes \in OptHash
      BY <1>0, <2>3 DEF HaveData, ResponseCurrent, TypeOK
    <3>2. ResponseCurrent'
      BY <2>3, <3>1 DEF ResponseCurrent
    <3> HIDE DEF bytes
    <3> QED BY <1>30, <2>1, <2>3, <3>1, <3>2
  <2> QED BY <1>31, <2>2, <2>3 DEF AfterWake
<1>32. CASE PumpEnd
  <2>1. /\ depth > 0 /\ Top.kind = "render" /\ Top.pc = "pump"
        /\ UNCHANGED <<renderVars, slotState, slotData, fresh>>
    BY <1>32 DEF PumpEnd, TopIs, historyVars
  <2>2. CASE Pop
    BY <1>16, <1>18, <2>1, <2>2 DEF renderVars
  <2>3. CASE /\ pending_hash = Top.hash /\ cached_valid
             /\ frame' = [frame EXCEPT ![depth].pc = "set", ![depth].data = cached_response]
             /\ UNCHANGED <<depth, asker>>
    <3>1. cached_response = pending_hash /\ cached_response \in OptHash
      BY <1>0, <2>3 DEF ResponseCurrent, TypeOK
    <3> QED BY <1>18, <1>30, <2>1, <2>3, <3>1 DEF renderVars
  <2>4. CASE Goto("wait") /\ UNCHANGED <<depth, asker>>
    BY <1>20, <2>1, <2>4 DEF PCs
  <2> QED BY <1>32, <2>2, <2>3, <2>4 DEF PumpEnd
<1>33. ASSUME NEW f \in Format, NEW b \in fresh, ContentType[b] = FormatType[f],
              SetClipboardData(f, b), UNCHANGED <<pending_hash, fresh>>, Held' => Held
       PROVE  PendingFresh' /\ SlotsFresh'
  <2>1. /\ slotState' = [slotState EXCEPT ![f] = "full"] /\ slotData' = [slotData EXCEPT ![f] = b]
        /\ slotState \in [Format -> {"absent", "delayed", "full"}]
        /\ slotData \in [Format -> OptHash]
    BY <1>33 DEF SetClipboardData, TypeOK
  <2>2. ASSUME NEW g \in Format
        PROVE  slotState'[g] = (IF g = f THEN "full" ELSE slotState[g])
    BY <2>1
  <2>3. ASSUME NEW g \in Format
        PROVE  slotData'[g] = (IF g = f THEN b ELSE slotData[g])
    BY <2>1
  <2>4. SlotsFresh'
    BY <1>0, <1>33, <2>2, <2>3 DEF SlotsFresh
  <2>5. (\E g \in Format : slotState'[g] = "delayed")
        => \E g \in Format : slotState[g] = "delayed"
    BY <2>2
  <2> QED BY <1>0, <1>33, <2>4, <2>5 DEF PendingFresh
<1>34. CASE RenderToSlot
  <2>1. /\ depth > 0 /\ Top.kind = "render" /\ Top.pc = "set" /\ Pop
        /\ UNCHANGED <<renderVars, fresh>>
    BY <1>34 DEF RenderToSlot, TopIs, historyVars
  <2>2. CASE UNCHANGED <<slotState, slotData>>
    BY <1>16, <1>18, <2>1, <2>2 DEF renderVars
  <2>3. CASE SetClipboardData(Top.fmt, Top.data)
    <3>1. /\ Top.data \in fresh /\ ContentType[Top.data] = FormatType[Top.fmt]
          /\ Top.fmt \in Format
      BY <1>19, <2>1 DEF Current, FrameRec
    <3>2. FramesCurrent' /\ (Held' => Held)
      BY <1>0, <2>1, PopCurrent
    <3>3. PendingFresh' /\ SlotsFresh'
      BY <1>33, <2>1, <2>3, <3>1, <3>2 DEF renderVars
    <3> QED BY <1>18, <2>1, <3>2, <3>3 DEF ServeInv
  <2> QED BY <1>34, <2>2, <2>3 DEF RenderToSlot
<1>35. CASE RenderAllStep
  <2>1. depth > 0 /\ Top.kind = "all" /\ Top.pc = "ask" /\ UNCHANGED fresh
    BY <1>35 DEF RenderAllStep, TopIs, historyVars
  <2>2. pending_hash \in fresh
    BY <1>19, <1>23, <2>1 DEF Top
  <2>3. CASE Top.todo = {}
    BY <1>16, <1>18, <1>35, <2>1, <2>3 DEF RenderAllStep, renderVars
  <2>4. CASE Top.todo # {}
    <3> DEFINE f == NextToRead(Top.todo)
               r == [Top EXCEPT !.todo = Top.todo \ {f}]
    <3>1. f \in Format
      BY DEF NextToRead, Format
    <3>2. /\ frame' = [frame EXCEPT ![depth] = r] /\ UNCHANGED depth
      BY <1>19, <1>35, <2>1, <2>4 DEF RenderAllStep, Top, TypeOK, StackOK
    <3>3. r \in FrameRec /\ r.kind = Top.kind /\ Current(r)
      BY <1>19, <2>1, <3>1 DEF FrameRec, Current
    <3> HIDE DEF r
    <3>4. FramesCurrent' /\ (Held' <=> Held)
      BY <1>0, <2>1, <3>2, <3>3, UpdateCurrent
    <3>5. CASE UNCHANGED <<slotState, slotData>> /\ ResponseCurrent' /\ UNCHANGED pending_hash
      BY <1>0, <2>1, <3>4, <3>5 DEF ServeInv, PendingFresh, SlotsFresh
    <3>6. CASE Wanted(f) /\ HaveData /\ Adopt /\ SetClipboardData(f, DataAtHand)
      <4>1. PendingFresh' /\ SlotsFresh'
        BY <1>24, <1>33, <2>1, <2>2, <3>1, <3>4, <3>6 DEF Adopt, Wanted
      <4> QED BY <1>25, <3>4, <3>6, <4>1 DEF ServeInv
    <3>7. \/ UNCHANGED renderVars /\ UNCHANGED <<slotState, slotData>>
          \/ HaveData /\ Adopt /\ UNCHANGED <<slotState, slotData>>
          \/ Wanted(f) /\ HaveData /\ Adopt /\ SetClipboardData(f, DataAtHand)
      BY <1>35, <2>4 DEF RenderAllStep
    <3> QED BY <1>18, <1>25, <3>5, <3>6, <3>7 DEF renderVars, Adopt
  <2> QED BY <2>3, <2>4
<1>36. CASE AppOpen \/ AppClose
  BY <1>3, <1>36 DEF AppOpen, AppClose, historyVars
<1>37. CASE ForeignCopy
  <2>1. /\ \A f \in Format : slotState'[f] = "absent"
        /\ UNCHANGED <<renderVars, depth, frame, fresh>>
    BY <1>37 DEF ForeignCopy, historyVars
  <2>2. FramesCurrent' /\ (Held' <=> Held)
    BY <1>0, <2>1 DEF FramesCurrent, Held, Active
  <2> QED BY <1>0, <1>18, <2>1, <2>2 DEF ServeInv, PendingFresh, SlotsFresh, renderVars
<1>38. CASE UNCHANGED vars
  BY <1>3, <1>38 DEF vars, osVars, historyVars
<1> QED
  BY <1>1, <1>2, <1>4, <1>8, <1>9, <1>10, <1>11, <1>13, <1>14, <1>15, <1>21, <1>22, <1>26,
     <1>27, <1>28, <1>29, <1>31, <1>32, <1>34, <1>35, <1>36, <1>37, <1>38
  DEF Next, PipeNext, StaNext, AppNext
-----------------------------------------------------------------------------
\* The whole inductive invariant.
LEMMA InvHolds == Spec => [](TypeOK /\ ServeInv)
<1>1. Init => TypeOK /\ ServeInv
  BY TypeInit, ServeInit
<1>2. (TypeOK /\ ServeInv) /\ [Next]_vars => (TypeOK /\ ServeInv)'
  BY TypeStep, ServeStep DEF ServeInv
<1> QED BY <1>1, <1>2, PTL DEF Spec

\* The type invariant, with the discipline of the STA's call stack and of the
\* RunSync handshake, for any contents, nesting depth and mix of frames.
THEOREM TypeCorrect == Spec => []TypeOK
BY InvHolds, PTL

\* What a paste gets is never older than what the OS advertises, and has the
\* type of its slot: the content-hash checks of dispatch.cpp are sufficient,
\* however renders nest and however announcements, answers and applications
\* interleave.
THEOREM PasteIsFresh == Spec => []PasteFresh
<1>1. ServeInv => PasteFresh
  BY DEF ServeInv, SlotsFresh, PasteFresh
<1> QED BY <1>1, InvHolds, PTL

\* The answer of the parent to the pending announcement is neither lost nor
\* left unsignalled, whichever of the nested renders consumes it.
LEMMA KeptStep == NoLostAnswer /\ [Next]_vars => NoLostAnswer'
<1> SUFFICES ASSUME NoLostAnswer, [Next]_vars
             PROVE  NoLostAnswer'
  OBVIOUS
<1> USE DEF NoLostAnswer, HaveData
<1>1. ASSUME NEW h \in Hash, HandleAnnounceDelayed(h) \/ DropFilesAnnouncement(h)
      PROVE  NoLostAnswer'
  BY <1>1 DEF HandleAnnounceDelayed, DropFilesAnnouncement, StoreAnnouncement
<1>2. ASSUME NEW h \in Hash, NEW bytes \in BOOLEAN, HandleProvideData(h, bytes)
      PROVE  NoLostAnswer'
  BY <1>2, ConstantsAssumption DEF HandleProvideData
<1>3. ASSUME UNCHANGED <<renderVars, answered>>
      PROVE  NoLostAnswer'
  BY <1>3 DEF renderVars
<1>4. ASSUME Adopt, HaveData, UNCHANGED answered
      PROVE  NoLostAnswer'
  BY <1>4 DEF Adopt
<1>5. CASE RenderStart \/ RenderAllStep
  BY <1>3, <1>4, <1>5 DEF RenderStart, RenderAllStep, historyVars
<1>6. CASE AfterWake
  <2>1. CASE UNCHANGED renderVars
    BY <1>3, <1>6, <2>1 DEF AfterWake, historyVars
  <2>2. CASE cached_valid' = TRUE /\ pending_response' = NoHash
    BY <2>2
  <2> QED BY <1>6, <2>1, <2>2 DEF AfterWake
<1>7. CASE \/ AnnounceFormats \/ AnnounceFiles \/ WriteClipboard \/ ReadBegin \/ ReadRefused
  BY <1>3, <1>7
     DEF AnnounceFormats, AnnounceFiles, WriteClipboard, ReadBegin, ReadRefused, historyVars
<1>8. CASE ReadAsk \/ ReadCheck \/ SendDataRequest \/ WakeByEvent \/ RenderTimeout
  BY <1>3, <1>8
     DEF ReadAsk, ReadCheck, SendDataRequest, WakeByEvent, RenderTimeout, historyVars
<1>9. CASE PumpEnd \/ RenderToSlot \/ RenderAllBegin
  BY <1>3, <1>9 DEF PumpEnd, RenderToSlot, RenderAllBegin, historyVars
<1>10. CASE \/ AppOpen \/ AppClose \/ ForeignCopy \/ \E f \in Format : AppPaste(f)
            \/ \E kind \in {"SET", "GET"} : HandleRunSync(kind)
  BY <1>3, <1>10 DEF AppOpen, AppClose, ForeignCopy, AppPaste, HandleRunSync, historyVars
<1>11. CASE UNCHANGED vars
  BY <1>3, <1>11 DEF vars, historyVars
<1> HIDE DEF NoLostAnswer, HaveData
<1> QED
  BY <1>1, <1>2, <1>5, <1>6, <1>7, <1>8, <1>9, <1>10, <1>11 DEF Next, PipeNext, StaNext, AppNext

\* Once answered, the pending announcement's bytes stay at hand, and a stored
\* response has its wake-up pending ("ResetEvent happens only here, not inside
\* OnRenderFormat").
THEOREM NoAnswerIsLost == Spec => []NoLostAnswer
<1>1. Init => NoLostAnswer
  BY DEF Init, NoLostAnswer
<1> QED BY <1>1, KeptStep, PTL DEF Spec

\* A parent that never answers with an empty data field: the event is set only
\* together with bytes, and the announcement that discards the bytes resets it.
SignalMeansBytes == render_event => HaveData

\* HandleProvideData is the only place that sets the event, and no render drops
\* the bytes without having cached them.
LEMMA SignalStep ==
  ASSUME "EMPTY" \notin Parent
  PROVE  SignalMeansBytes /\ [Next]_vars => SignalMeansBytes'
<1> SUFFICES ASSUME SignalMeansBytes, [Next]_vars
             PROVE  SignalMeansBytes'
  OBVIOUS
<1> USE DEF SignalMeansBytes, HaveData
<1>1. ASSUME NEW h \in Hash, HandleAnnounceDelayed(h) \/ DropFilesAnnouncement(h)
      PROVE  SignalMeansBytes'
  BY <1>1 DEF HandleAnnounceDelayed, DropFilesAnnouncement, StoreAnnouncement
<1>2. ASSUME NEW h \in Hash, NEW bytes \in BOOLEAN, HandleProvideData(h, bytes)
      PROVE  SignalMeansBytes'
  <2>1. bytes
    BY <1>2 DEF HandleProvideData
  <2>2. h # NoHash
    BY ConstantsAssumption
  <2> QED BY <1>2, <2>1, <2>2 DEF HandleProvideData
<1>3. ASSUME UNCHANGED renderVars
      PROVE  SignalMeansBytes'
  BY <1>3 DEF renderVars
<1>4. ASSUME Adopt, HaveData
      PROVE  SignalMeansBytes'
  BY <1>4 DEF Adopt
<1>5. CASE RenderStart \/ RenderAllStep
  BY <1>3, <1>4, <1>5 DEF RenderStart, RenderAllStep
<1>6. CASE AfterWake
  <2>1. CASE cached_valid' = TRUE
    BY <2>1
  <2> QED BY <1>3, <1>6, <2>1 DEF AfterWake
<1>7. CASE \/ AnnounceFormats \/ AnnounceFiles \/ WriteClipboard \/ ReadBegin \/ ReadRefused
  BY <1>3, <1>7 DEF AnnounceFormats, AnnounceFiles, WriteClipboard, ReadBegin, ReadRefused
<1>8. CASE ReadAsk \/ ReadCheck \/ SendDataRequest \/ WakeByEvent \/ RenderTimeout
  BY <1>3, <1>8 DEF ReadAsk, ReadCheck, SendDataRequest, WakeByEvent, RenderTimeout
<1>9. CASE PumpEnd \/ RenderToSlot \/ RenderAllBegin
  BY <1>3, <1>9 DEF PumpEnd, RenderToSlot, RenderAllBegin
<1>10. CASE \/ AppOpen \/ AppClose \/ ForeignCopy \/ \E f \in Format : AppPaste(f)
            \/ \E kind \in {"SET", "GET"} : HandleRunSync(kind)
  BY <1>3, <1>10 DEF AppOpen, AppClose, ForeignCopy, AppPaste, HandleRunSync
<1>11. CASE UNCHANGED vars
  BY <1>3, <1>11 DEF vars
<1> HIDE DEF SignalMeansBytes, HaveData
<1> QED
  BY <1>1, <1>2, <1>5, <1>6, <1>7, <1>8, <1>9, <1>10, <1>11 DEF Next, PipeNext, StaNext, AppNext

\* With a parent whose PROVIDE_DATA always carries bytes, a wake-up of a waiting
\* render is never left over from an earlier announcement or an earlier wait:
\* whatever was re-announced, dropped or timed out before, there are bytes.
THEOREM WakeIsAnAnswer ==
  ASSUME "EMPTY" \notin Parent
  PROVE  Spec => []WakeMeansAnswer
<1>1. Init => SignalMeansBytes
  BY DEF Init, SignalMeansBytes
<1>2. SignalMeansBytes => WakeMeansAnswer
  BY DEF SignalMeansBytes, WakeMeansAnswer
<1> QED BY <1>1, <1>2, SignalStep, PTL DEF Spec
=============================================================================
