-------------------------- MODULE RenderThreadProof --------------------------
(***************************************************************************)
(* Machine-checked proofs about the render thread, for any number of        *)
(* callers, engines, retries and calls.                                     *)
(***************************************************************************)
EXTENDS RenderThread, TLAPS

\* The invariant holds when Initialize has created the flags, events and thread.
LEMMA InitInv == Init => IInv
<1> SUFFICES ASSUME Init PROVE IInv
  OBVIOUS
<1> USE ConstantsAssumption DEF Init
<1>1. TypeOK
  <2>1. /\ stale \in [Engines -> BOOLEAN]
        /\ keepRunning \in BOOLEAN /\ requested \in BOOLEAN /\ waiting \in BOOLEAN
        /\ event \in BOOLEAN /\ enabled \in BOOLEAN /\ completed \in BOOLEAN
        /\ destructing \in BOOLEAN /\ attached \in BOOLEAN /\ forever \in BOOLEAN
        /\ quiet \in BOOLEAN /\ promised \in BOOLEAN
    BY Zenon
  <2> QED
    BY <2>1 DEF TypeOK, Engines
<1> QED
  BY <1>1 DEF IInv, CreditInv, QuietInv, RetryInv, One, Owing, Committed

\* A step of a caller: only its own NotifyPaint, a flag or the event changes.
LEMMA CallerInv ==
  ASSUME IInv, NEW c \in Callers,
         \/ Invalidate(c) \/ Notify(c)
         \/ \E painted \in SUBSET Engines, moved, again \in BOOLEAN :
              TriggerCircling(c, painted, moved, again)
  PROVE  IInv'
<1> USE DEF IInv, One, Owing, Committed, flags, owner, frame, control, history
<1>1. CASE Invalidate(c)
  BY <1>1 DEF Invalidate, TypeOK, CreditInv, QuietInv, RetryInv
<1>2. CASE NotifyLoad(c)
  BY <1>2 DEF NotifyLoad, TypeOK, CreditInv, QuietInv, RetryInv
<1>3. CASE NotifySignal(c)
  BY <1>3 DEF NotifySignal, TypeOK, CreditInv, QuietInv, RetryInv
<1>4. CASE NotifyRequest(c)
  BY <1>4 DEF NotifyRequest, TypeOK, CreditInv, QuietInv, RetryInv
<1>5. ASSUME NEW painted \in SUBSET Engines, NEW moved \in BOOLEAN, NEW again \in BOOLEAN,
             TriggerCircling(c, painted, moved, again)
      PROVE  IInv'
  <2>1. stale' \in [Engines -> BOOLEAN]
    BY <1>5, Zenon DEF TriggerCircling
  <2> QED
    BY <1>5, <2>1 DEF TriggerCircling, TypeOK, CreditInv, QuietInv, RetryInv
<1> QED
  BY <1>1, <1>2, <1>3, <1>4, <1>5 DEF Notify

\* The loop up to the frame: a signal or a request becomes an owed frame.
LEMMA LoopInv ==
  ASSUME IInv,
         \/ LoopTest \/ WaitEnabled \/ Exchange \/ SetWaiting \/ ExchangeAgain \/ Wake
         \/ ClearWaiting \/ DiscardSignals \/ ResetCompleted
  PROVE  IInv'
<1> USE DEF IInv, One, Owing, Committed, Goto, flags, owner, frame, control, history, TypeOK,
            CreditInv, QuietInv, RetryInv
<1>1. CASE LoopTest
  BY <1>1 DEF LoopTest
<1>2. CASE WaitEnabled
  BY <1>2 DEF WaitEnabled
<1>3. CASE Exchange
  <2>1. requested' \in BOOLEAN /\ ~requested'
    BY <1>3, Zenon DEF Exchange
  <2> QED
    BY <1>3, <2>1 DEF Exchange
<1>4. CASE SetWaiting
  BY <1>4 DEF SetWaiting
<1>5. CASE ExchangeAgain
  <2>1. requested' \in BOOLEAN /\ ~requested'
    BY <1>5, Zenon DEF ExchangeAgain
  <2> QED
    BY <1>5, <2>1 DEF ExchangeAgain
<1>6. CASE Wake
  <2>1. event' \in BOOLEAN /\ ~event'
    BY <1>6, Zenon DEF Wake
  <2> QED
    BY <1>6, <2>1 DEF Wake
<1>7. CASE ClearWaiting
  <2>1. waiting' \in BOOLEAN
    BY <1>7, Zenon DEF ClearWaiting
  <2> QED
    BY <1>7, <2>1 DEF ClearWaiting
<1>8. CASE DiscardSignals
  <2>1. event' \in BOOLEAN /\ ~event'
    BY <1>8, Zenon DEF DiscardSignals
  <2> QED
    BY <1>8, <2>1 DEF DiscardSignals
<1>9. CASE ResetCompleted
  <2>1. completed' \in BOOLEAN
    BY <1>9, Zenon DEF ResetCompleted
  <2> QED
    BY <1>9, <2>1 DEF ResetCompleted
<1> QED
  BY <1>1, <1>2, <1>3, <1>4, <1>5, <1>6, <1>7, <1>8, <1>9

\* Beginning a frame pays what is owed.
LEMMA PaintFrameInv == ASSUME IInv, PaintFrame PROVE IInv'
<1>1. promised' \in BOOLEAN
  BY Zenon DEF PaintFrame
<1> QED
  BY <1>1, ConstantsAssumption DEF IInv, One, Owing, Committed, Goto, flags, owner, control, TypeOK,
    CreditInv, QuietInv, RetryInv, PaintFrame, Engines

\* The engines: each gets its tries, and a frame may ask for the next one.
LEMMA EngineInv ==
  ASSUME IInv,
         \/ Attempt \/ GiveUp \/ SetCompleted
         \/ \E moved, again \in BOOLEAN :
              PaintEngine(moved, again) \/ PaintEngineFails(moved, again) \/ PaintEnginePends(moved, again)
  PROVE  IInv'
<1> USE ConstantsAssumption DEF IInv, One, Owing, Committed, Goto, flags, owner, frame, control,
            history, TypeOK, CreditInv, QuietInv, RetryInv, Engines
<1>1. CASE Attempt
  BY <1>1 DEF Attempt
<1>2. ASSUME NEW moved \in BOOLEAN, NEW again \in BOOLEAN, PaintEngine(moved, again) PROVE IInv'
  BY <1>2 DEF PaintEngine, EndPaint, Scroll, NextEngine
<1>3. ASSUME NEW moved \in BOOLEAN, NEW again \in BOOLEAN, PaintEngineFails(moved, again) PROVE IInv'
  BY <1>3 DEF PaintEngineFails, EndPaint, Scroll, NextEngine
<1>4. ASSUME NEW moved \in BOOLEAN, NEW again \in BOOLEAN, PaintEnginePends(moved, again) PROVE IInv'
  BY <1>4 DEF PaintEnginePends, EndPaint, Scroll
<1>5. CASE GiveUp
  BY <1>5 DEF GiveUp
<1>6. CASE SetCompleted
  BY <1>6 DEF SetCompleted
<1> QED
  BY <1>1, <1>2, <1>3, <1>4, <1>5, <1>6

\* Main's operations.
LEMMA MainInv ==
  ASSUME IInv,
         \/ EnablePainting \/ (\E infinite \in BOOLEAN : Disable(infinite)) \/ WaitTimesOut
         \/ Destruct \/ Finish
  PROVE  IInv'
<1> USE ConstantsAssumption DEF IInv, One, Owing, Committed, flags, owner, frame, control,
            history, TypeOK, CreditInv, QuietInv, RetryInv, Engines
<1>1. CASE EnablePainting
  <2>1. enabled' \in BOOLEAN /\ quiet' \in BOOLEAN /\ ~quiet'
    BY <1>1, Zenon DEF EnablePainting
  <2> QED
    BY <1>1, <2>1 DEF EnablePainting
<1>2. ASSUME NEW infinite \in BOOLEAN, Disable(infinite) PROVE IInv'
  <2>1. enabled' \in BOOLEAN /\ ~enabled'
    BY <1>2, Zenon DEF Disable
  <2> QED
    BY <1>2, <2>1 DEF Disable
<1>3. CASE WaitTimesOut
  BY <1>3 DEF WaitTimesOut
<1>4. CASE Destruct
  BY <1>4 DEF Destruct
<1>5. CASE WaitCompleted
  BY <1>5 DEF WaitCompleted
<1>6. ASSUME NEW painted \in BOOLEAN, NEW moved \in BOOLEAN, NEW again \in BOOLEAN,
             FinalPaint(painted, moved, again)
      PROVE  IInv'
  BY <1>6 DEF FinalPaint, Scroll
<1>7. CASE Reset
  <2>1. attached' \in BOOLEAN
    BY <1>7, Zenon DEF Reset
  <2> QED
    BY <1>7, <2>1 DEF Reset
<1>8. CASE Stop
  <2>1. keepRunning' \in BOOLEAN
    BY <1>8, Zenon DEF Stop
  <2> QED
    BY <1>8, <2>1 DEF Stop
<1>9. CASE StopEnable
  <2>1. enabled' \in BOOLEAN /\ quiet' \in BOOLEAN /\ ~quiet'
    BY <1>9, Zenon DEF StopEnable
  <2> QED
    BY <1>9, <2>1 DEF StopEnable
<1>10. CASE StopSignal
  BY <1>10 DEF StopSignal
<1>11. CASE Join
  BY <1>11 DEF Join
<1> QED
  BY <1>1, <1>2, <1>3, <1>4, <1>5, <1>6, <1>7, <1>8, <1>9, <1>10, <1>11 DEF Finish

\* Every step of the render thread, its callers and its owner keeps the invariant.
LEMMA NextInv == IInv /\ [Next]_vars => IInv'
<1> SUFFICES ASSUME IInv, [Next]_vars PROVE IInv'
  OBVIOUS
<1>1. CASE UNCHANGED vars
  BY <1>1 DEF vars, flags, owner, frame, control, history, IInv, TypeOK, CreditInv, QuietInv,
    RetryInv, One, Owing, Committed
<1>2. CASE Next
  BY <1>2, CallerInv, LoopInv, PaintFrameInv, EngineInv, MainInv DEF Next, Thread
<1> QED
  BY <1>1, <1>2

\* The inductive invariant holds in every reachable state.
THEOREM Invariance == Spec => []IInv
<1>1. Init => IInv
  BY InitInv
<1>2. IInv /\ [Next]_vars => IInv'
  BY NextInv
<1> QED
  BY <1>1, <1>2, PTL DEF Spec

\* Type correctness; in particular the retries of an engine never go below zero.
THEOREM TypeCorrect == Spec => []TypeOK
<1>1. IInv => TypeOK
  BY DEF IInv
<1> QED
  BY <1>1, Invariance, PTL

\* No frame is begun without a call of NotifyPaint, or the destructor's signal,
\* of its own: the two flags and the event never multiply a request.
THEOREM FramesHaveRequests == Spec => []NoFrameWithoutRequest
<1>1. IInv => NoFrameWithoutRequest
  BY DEF IInv, TypeOK, CreditInv, One, NoFrameWithoutRequest
<1> QED
  BY <1>1, Invariance, PTL

\* Once WaitForPaintCompletionAndDisable has returned, at most one frame begins
\* before painting is enabled again.
THEOREM OneLateFrame == Spec => []AtMostOneLateFrame
<1>1. IInv => AtMostOneLateFrame
  BY DEF IInv, QuietInv, AtMostOneLateFrame
<1> QED
  BY <1>1, Invariance, PTL
=============================================================================
