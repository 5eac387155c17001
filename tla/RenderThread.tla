---------------------------- MODULE RenderThread ----------------------------
(***************************************************************************)
(* The render thread (src/src/renderer/base/thread.cpp) and the renderer    *)
(* that owns it (renderer.cpp): how a request to repaint reaches the thread *)
(* that paints, how painting is disabled, and how both are torn down.       *)
(*                                                                          *)
(* One action is one access to shared state: an atomic flag, a Win32 event, *)
(* or one pass of an engine under the console lock.                         *)
(***************************************************************************)
EXTENDS Integers, FiniteSets

CONSTANTS
  Callers,    \* the threads that invalidate and call NotifyPaint
  Main,       \* the one of them that enables, disables and destroys
  NEngines,   \* the number of render engines
  MaxTries,   \* maxRetriesForRenderEngine
  Outcomes,   \* what painting an engine may return: a subset of Results
  MaxCalls,   \* bound: calls of NotifyPaint
  MaxToggles  \* bound: calls that enable or disable painting

Results == {"ok", "failed", "pending"}
Engines == 1 .. NEngines

ASSUME ConstantsAssumption ==
  /\ Main \in Callers
  /\ NEngines \in Nat \ {0}
  /\ MaxTries \in Nat \ {0}
  /\ Outcomes \subseteq Results
  /\ MaxCalls \in Nat
  /\ MaxToggles \in Nat

VARIABLES
  keepRunning, requested, waiting,  \* _fKeepRunning, _fNextFrameRequested, _fWaiting
  event,        \* _hEvent (auto reset)
  enabled,      \* _hPaintEnabledEvent (manual reset)
  completed,    \* _hPaintCompletedEvent (manual reset)
  destructing,  \* Renderer::_destructing
  attached,     \* Renderer::_pThread is not null
  tpc,          \* where the render thread is
  engine,       \* the engine PaintFrame is at
  tries,        \* PaintFrame's retries left for that engine
  npc,          \* where each caller is in NotifyPaint
  mpc,          \* where Main is in its own operations
  forever,      \* the timeout of Main's wait is INFINITE: it comes from TriggerTeardown
  final,        \* the engine TriggerTeardown is at
  toggles,      \* how often Main has enabled or disabled painting
  stale,        \* per engine: something was invalidated after its last paint
  calls,        \* history: signals and requests raised
  paints,       \* history: frames begun
  quiet,        \* history: the wait for paint completion returned, painting is still disabled
  late,         \* history: frames begun while quiet
  promised      \* history: NotifyPaint set the event, no frame has begun since

flags == <<keepRunning, requested, waiting, event, enabled, completed>>
owner == <<destructing, attached>>
frame == <<engine, tries>>
control == <<mpc, forever, final, toggles>>
history == <<calls, paints, quiet, late, promised>>
vars == <<flags, owner, tpc, frame, npc, control, stale, history>>

Init ==
  /\ keepRunning = TRUE
  /\ requested = FALSE
  /\ waiting = FALSE
  /\ event = FALSE
  /\ enabled = FALSE
  /\ completed = TRUE
  /\ destructing = FALSE
  /\ attached = TRUE
  /\ tpc = "top"
  /\ engine = 1
  /\ tries = MaxTries
  /\ npc = [c \in Callers |-> "idle"]
  /\ mpc = "free"
  /\ forever = FALSE
  /\ final = 1
  /\ toggles = 0
  /\ stale = [e \in Engines |-> FALSE]
  /\ calls = 0
  /\ paints = 0
  /\ quiet = FALSE
  /\ late = 0
  /\ promised = FALSE
-----------------------------------------------------------------------------
(***************************************************************************)
(* Renderer::Trigger... and RenderThread::NotifyPaint, on any thread        *)
(***************************************************************************)

\* Bound: one more call of NotifyPaint, those on their way counted.
MayCall == calls + Cardinality({c \in Callers : npc[c] # "idle"}) < MaxCalls

\* _CheckViewportAndScroll: a viewport that moved invalidates every engine.
Scroll(moved) == [e \in Engines |-> stale[e] \/ moved]

\* Something changed: every engine is invalidated, then NotifyPaint is called.
\* A caller other than Main is done before the renderer is destroyed.
Invalidate(c) ==
  /\ npc[c] = "idle"
  /\ ~destructing
  /\ c = Main => mpc = "free"
  /\ MayCall
  /\ stale' = [e \in Engines |-> TRUE]
  /\ npc' = [npc EXCEPT ![c] = "load"]
  /\ UNCHANGED <<flags, owner, tpc, frame, control, history>>

\* What one pass of _PaintFrameForEngine leaves follows from its Outcomes: it
\* paints if it succeeds, and a viewport that moved or another request without
\* anything painted comes from a pass that fails.
MayLeave(painted, moved, again) ==
  /\ painted => "ok" \in Outcomes
  /\ ~painted /\ (moved \/ again) => Outcomes \cap {"failed", "pending"} # {}

\* TriggerCircling: the engines that ask for it are painted on the caller's
\* thread, with success or without; EndPaint may call NotifyPaint.
TriggerCircling(c, painted, moved, again) ==
  /\ npc[c] = "idle"
  /\ ~destructing
  /\ c = Main => mpc = "free"
  /\ MayLeave(painted # {}, moved, again)
  /\ again => MayCall
  /\ stale' = [e \in Engines |-> Scroll(moved)[e] /\ e \notin painted]
  /\ npc' = IF again THEN [npc EXCEPT ![c] = "load"] ELSE npc
  /\ UNCHANGED <<flags, owner, tpc, frame, control, history>>

\* _fWaiting.load()
NotifyLoad(c) ==
  /\ npc[c] = "load"
  /\ npc' = [npc EXCEPT ![c] = IF waiting THEN "signal" ELSE "request"]
  /\ UNCHANGED <<flags, owner, tpc, frame, control, stale, history>>

\* SetEvent(_hEvent)
NotifySignal(c) ==
  /\ npc[c] = "signal"
  /\ event' = TRUE
  /\ npc' = [npc EXCEPT ![c] = "idle"]
  /\ calls' = calls + 1
  /\ promised' = TRUE
  /\ UNCHANGED <<keepRunning, requested, waiting, enabled, completed, owner, tpc, frame, control,
                 stale, paints, quiet, late>>

\* _fNextFrameRequested.store(true)
NotifyRequest(c) ==
  /\ npc[c] = "request"
  /\ requested' = TRUE
  /\ npc' = [npc EXCEPT ![c] = "idle"]
  /\ calls' = calls + 1
  /\ UNCHANGED <<keepRunning, waiting, event, enabled, completed, owner, tpc, frame, control,
                 stale, paints, quiet, late, promised>>
-----------------------------------------------------------------------------
(***************************************************************************)
(* RenderThread::_ThreadProc                                                *)
(***************************************************************************)

Goto(from, to) == tpc = from /\ tpc' = to

\* while (_fKeepRunning)
LoopTest ==
  /\ Goto("top", IF keepRunning THEN "enabled" ELSE "exited")
  /\ UNCHANGED <<flags, owner, frame, npc, control, stale, history>>

\* Mutation: the loop does not wait for painting to be enabled.
WaitEnabledSkipped ==
  /\ Goto("enabled", "exchange")
  /\ UNCHANGED <<flags, owner, frame, npc, control, stale, history>>

\* WaitForSingleObject(_hPaintEnabledEvent, INFINITE)
WaitEnabled ==
  /\ Goto("enabled", "exchange")
  /\ enabled
  /\ UNCHANGED <<flags, owner, frame, npc, control, stale, history>>

\* Mutation: a load where the exchange is.
ExchangeWithoutClearing ==
  /\ Goto("exchange", IF requested THEN "resetCompleted" ELSE "setWaiting")
  /\ UNCHANGED <<flags, owner, frame, npc, control, stale, history>>

\* The first exchange: a request raised while painting skips the wait.
Exchange ==
  /\ Goto("exchange", IF requested THEN "resetCompleted" ELSE "setWaiting")
  /\ requested' = FALSE
  /\ UNCHANGED <<keepRunning, waiting, event, enabled, completed, owner, frame, npc, control,
                 stale, history>>

SetWaiting ==
  /\ Goto("setWaiting", "exchangeAgain")
  /\ waiting' = TRUE
  /\ UNCHANGED <<keepRunning, requested, event, enabled, completed, owner, frame, npc, control,
                 stale, history>>

\* The second exchange: "check again now".
ExchangeAgain ==
  /\ Goto("exchangeAgain", IF requested THEN "clearWaiting" ELSE "asleep")
  /\ requested' = FALSE
  /\ UNCHANGED <<keepRunning, waiting, event, enabled, completed, owner, frame, npc, control,
                 stale, history>>

\* WaitForSingleObject(_hEvent, INFINITE) on an auto-reset event
Wake ==
  /\ Goto("asleep", "clearWaiting")
  /\ event
  /\ event' = FALSE
  /\ UNCHANGED <<keepRunning, requested, waiting, enabled, completed, owner, frame, npc, control,
                 stale, history>>

ClearWaiting ==
  /\ Goto("clearWaiting", "resetEvent")
  /\ waiting' = FALSE
  /\ UNCHANGED <<keepRunning, requested, event, enabled, completed, owner, frame, npc, control,
                 stale, history>>

\* ResetEvent(_hEvent): do not render again if nothing changed
DiscardSignals ==
  /\ Goto("resetEvent", "resetCompleted")
  /\ event' = FALSE
  /\ UNCHANGED <<keepRunning, requested, waiting, enabled, completed, owner, frame, npc, control,
                 stale, history>>

\* ResetEvent(_hPaintCompletedEvent), then WaitUntilCanRender
ResetCompleted ==
  /\ Goto("resetCompleted", "paintFrame")
  /\ completed' = FALSE
  /\ UNCHANGED <<keepRunning, requested, waiting, event, enabled, owner, frame, npc, control,
                 stale, history>>

\* Renderer::PaintFrame is entered.
PaintFrame ==
  /\ Goto("paintFrame", IF destructing THEN "setCompleted" ELSE "attempt")
  /\ engine' = 1
  /\ tries' = MaxTries
  /\ paints' = paints + 1
  /\ late' = IF quiet THEN late + 1 ELSE late
  /\ promised' = FALSE
  /\ UNCHANGED <<flags, owner, npc, control, stale, calls, quiet>>

\* The test of _destructing before every attempt.
Attempt ==
  /\ Goto("attempt", IF destructing THEN "setCompleted" ELSE "paint")
  /\ UNCHANGED <<flags, owner, frame, npc, control, stale, history>>

NextEngine ==
  /\ tpc' = IF engine < NEngines THEN "attempt" ELSE "setCompleted"
  /\ engine' = IF engine < NEngines THEN engine + 1 ELSE engine
  /\ tries' = MaxTries

\* EndPaint, which also runs when painting fails halfway: an engine that requires
\* continuous redraw has it raise the next request.  The thread is not waiting,
\* so NotifyPaint takes its other branch.
EndPaint(again) ==
  /\ tpc = "paint"
  /\ again => attached /\ MayCall
  /\ requested' = (requested \/ again)
  /\ calls' = IF again THEN calls + 1 ELSE calls
  /\ UNCHANGED <<keepRunning, waiting, event, enabled, completed, owner, npc, control,
                 paints, quiet, late, promised>>

\* _PaintFrameForEngine painted what was invalid.
PaintEngine(moved, again) ==
  /\ "ok" \in Outcomes
  /\ EndPaint(again)
  /\ stale' = [Scroll(moved) EXCEPT ![engine] = FALSE]
  /\ NextEngine

\* Any error but E_PENDING is logged; the next engine has its turn.
PaintEngineFails(moved, again) ==
  /\ "failed" \in Outcomes
  /\ EndPaint(again)
  /\ NextEngine
  /\ stale' = Scroll(moved)

\* Mutation: the retries are counted and never run out.
PaintEnginePendsForever(moved, again) ==
  /\ "pending" \in Outcomes
  /\ EndPaint(again)
  /\ tries' = tries - 1
  /\ tpc' = "attempt"
  /\ stale' = Scroll(moved)
  /\ UNCHANGED engine

\* E_PENDING: sleep and try again, until no try is left.
PaintEnginePends(moved, again) ==
  /\ "pending" \in Outcomes
  /\ EndPaint(again)
  /\ tries' = tries - 1
  /\ tpc' = IF tries - 1 = 0 THEN "giveUp" ELSE "attempt"
  /\ stale' = Scroll(moved)
  /\ UNCHANGED engine

\* Mutation: giving up skips the end of the loop body.
GiveUpEarly ==
  /\ Goto("giveUp", IF attached THEN "top" ELSE "crashed")
  /\ enabled' = (enabled /\ ~attached)
  /\ UNCHANGED <<keepRunning, requested, waiting, event, completed, owner, frame, npc, control,
                 stale, history>>

\* _pThread->DisablePainting() and the error callback; _pThread may be null.
GiveUp ==
  /\ Goto("giveUp", IF attached THEN "setCompleted" ELSE "crashed")
  /\ enabled' = (enabled /\ ~attached)
  /\ UNCHANGED <<keepRunning, requested, waiting, event, completed, owner, frame, npc, control,
                 stale, history>>

\* Mutation: signals are discarded after the frame instead of before it.
SetCompletedAndDiscard ==
  /\ Goto("setCompleted", "top")
  /\ completed' = TRUE
  /\ event' = FALSE
  /\ UNCHANGED <<keepRunning, requested, waiting, enabled, owner, frame, npc, control,
                 stale, history>>

\* SetEvent(_hPaintCompletedEvent), then the frame limiter sleeps
SetCompleted ==
  /\ Goto("setCompleted", "top")
  /\ completed' = TRUE
  /\ UNCHANGED <<keepRunning, requested, waiting, event, enabled, owner, frame, npc, control,
                 stale, history>>
-----------------------------------------------------------------------------
(***************************************************************************)
(* Main: enabling, disabling, teardown, destruction                         *)
(***************************************************************************)

\* EnablePainting, also by way of ResetErrorStateAndResume
EnablePainting ==
  /\ mpc = "free" /\ npc[Main] = "idle"
  /\ toggles < MaxToggles
  /\ toggles' = toggles + 1
  /\ enabled' = TRUE
  /\ quiet' = FALSE
  /\ late' = 0
  /\ UNCHANGED <<keepRunning, requested, waiting, event, completed, owner, tpc, frame, npc, mpc,
                 forever, final, stale, calls, paints, promised>>

\* WaitForPaintCompletionAndDisable: ResetEvent(_hPaintEnabledEvent).  Called
\* with INFINITE by TriggerTeardown, with a timeout when the focus is lost.
Disable(infinite) ==
  /\ mpc = "free" /\ npc[Main] = "idle"
  /\ infinite \/ toggles < MaxToggles
  /\ toggles' = IF infinite THEN toggles ELSE toggles + 1
  /\ enabled' = FALSE
  /\ mpc' = "waitCompleted"
  /\ forever' = infinite
  /\ UNCHANGED <<keepRunning, requested, waiting, event, completed, owner, tpc, frame, npc, final,
                 stale, history>>

\* ... WaitForSingleObject(_hPaintCompletedEvent, dwTimeoutMs)
WaitCompleted ==
  /\ mpc = "waitCompleted"
  /\ completed
  /\ mpc' = IF forever THEN "finalPaint" ELSE "free"
  /\ quiet' = TRUE
  /\ UNCHANGED <<flags, owner, tpc, frame, npc, forever, final, toggles, stale, calls, paints,
                 late, promised>>

WaitTimesOut ==
  /\ mpc = "waitCompleted"
  /\ ~forever
  /\ mpc' = "free"
  /\ UNCHANGED <<flags, owner, tpc, frame, npc, forever, final, toggles, stale, history>>

\* TriggerTeardown: an engine that asks for it is painted once more, on this
\* thread, with success or without, and may raise a request that nobody serves.
FinalPaint(painted, moved, again) ==
  /\ mpc = "finalPaint" /\ npc[Main] = "idle"
  /\ MayLeave(painted, moved, again)
  /\ again => MayCall
  /\ stale' = [Scroll(moved) EXCEPT ![final] = @ /\ ~painted]
  /\ npc' = IF again THEN [npc EXCEPT ![Main] = "load"] ELSE npc
  /\ final' = IF final < NEngines THEN final + 1 ELSE final
  /\ mpc' = IF final < NEngines THEN "finalPaint" ELSE "tornDown"
  /\ UNCHANGED <<flags, owner, tpc, frame, forever, toggles, history>>

\* ~Renderer: _destructing = true.  Its owners call TriggerTeardown first
\* (~ControlCore, HwndTerminal::Teardown) and every other caller is done.
Destruct ==
  /\ mpc = "tornDown"
  /\ \A c \in Callers : npc[c] = "idle"
  /\ destructing' = TRUE
  /\ mpc' = "reset"
  /\ UNCHANGED <<flags, attached, tpc, frame, npc, forever, final, toggles, stale, history>>

\* _pThread.reset() nulls the pointer, then runs ~RenderThread
Reset ==
  /\ mpc = "reset"
  /\ attached' = FALSE
  /\ mpc' = "stop"
  /\ UNCHANGED <<flags, destructing, tpc, frame, npc, forever, final, toggles, stale, history>>

\* ~RenderThread: _fKeepRunning = false
Stop ==
  /\ mpc = "stop"
  /\ keepRunning' = FALSE
  /\ mpc' = "enable"
  /\ UNCHANGED <<requested, waiting, event, enabled, completed, owner, tpc, frame, npc, forever,
                 final, toggles, stale, history>>

\* ~RenderThread: EnablePainting()
StopEnable ==
  /\ mpc = "enable"
  /\ enabled' = TRUE
  /\ quiet' = FALSE
  /\ late' = 0
  /\ mpc' = "signal"
  /\ UNCHANGED <<keepRunning, requested, waiting, event, completed, owner, tpc, frame, npc,
                 forever, final, toggles, stale, calls, paints, promised>>

\* Mutation: the destructor only waits.
StopWithoutSignal ==
  /\ mpc = "signal"
  /\ mpc' = "join"
  /\ UNCHANGED <<flags, owner, tpc, frame, npc, forever, final, toggles, stale, history>>

\* ~RenderThread: SignalObjectAndWait(_hEvent, _hThread, ...) signals
StopSignal ==
  /\ mpc = "signal"
  /\ event' = TRUE
  /\ calls' = calls + 1
  /\ mpc' = "join"
  /\ UNCHANGED <<keepRunning, requested, waiting, enabled, completed, owner, tpc, frame, npc,
                 forever, final, toggles, stale, paints, quiet, late, promised>>

\* ... and waits for the thread to end
Join ==
  /\ mpc = "join"
  /\ tpc = "exited"
  /\ mpc' = "destroyed"
  /\ UNCHANGED <<flags, owner, tpc, frame, npc, forever, final, toggles, stale, history>>
-----------------------------------------------------------------------------
Notify(c) == NotifyLoad(c) \/ NotifySignal(c) \/ NotifyRequest(c)

Thread ==
  \/ LoopTest \/ WaitEnabled \/ Exchange \/ SetWaiting \/ ExchangeAgain \/ Wake
  \/ ClearWaiting \/ DiscardSignals \/ ResetCompleted \/ PaintFrame \/ Attempt
  \/ \E moved, again \in BOOLEAN :
       PaintEngine(moved, again) \/ PaintEngineFails(moved, again) \/ PaintEnginePends(moved, again)
  \/ GiveUp \/ SetCompleted

\* What Main does without anybody asking for it.
Finish ==
  \/ WaitCompleted
  \/ \E painted, moved, again \in BOOLEAN : FinalPaint(painted, moved, again)
  \/ Reset \/ Stop \/ StopEnable \/ StopSignal \/ Join

Next ==
  \/ \E c \in Callers :
       \/ Invalidate(c) \/ Notify(c)
       \/ \E painted \in SUBSET Engines, moved, again \in BOOLEAN :
            TriggerCircling(c, painted, moved, again)
  \/ Thread
  \/ EnablePainting
  \/ \E infinite \in BOOLEAN : Disable(infinite)
  \/ WaitTimesOut
  \/ Destruct
  \/ Finish

Spec == Init /\ [][Next]_vars
\* FAIRNESS: threads that are not blocked keep running.  Nothing is assumed
\* about when anybody invalidates, enables, disables or destroys.
FairSpec == Spec /\ WF_vars(Thread) /\ WF_vars(Finish) /\ \A c \in Callers : WF_vars(Notify(c))
-----------------------------------------------------------------------------
(***************************************************************************)
(* Properties                                                               *)
(***************************************************************************)

\* Flags, events and program counters keep their types; PaintFrame never runs
\* past the engines it has nor below zero retries (renderer.cpp:70-104).
TypeOK ==
  /\ keepRunning \in BOOLEAN /\ requested \in BOOLEAN /\ waiting \in BOOLEAN
  /\ event \in BOOLEAN /\ enabled \in BOOLEAN /\ completed \in BOOLEAN
  /\ destructing \in BOOLEAN /\ attached \in BOOLEAN
  /\ tpc \in {"top", "enabled", "exchange", "setWaiting", "exchangeAgain", "asleep",
              "clearWaiting", "resetEvent", "resetCompleted", "paintFrame", "attempt", "paint",
              "giveUp", "setCompleted", "exited", "crashed"}
  /\ engine \in Engines
  /\ tries \in 0 .. MaxTries
  /\ npc \in [Callers -> {"idle", "load", "signal", "request"}]
  /\ mpc \in {"free", "waitCompleted", "finalPaint", "tornDown", "reset", "stop", "enable",
              "signal", "join", "destroyed"}
  /\ forever \in BOOLEAN
  /\ final \in Engines
  /\ toggles \in Nat
  /\ stale \in [Engines -> BOOLEAN]
  /\ calls \in Nat /\ paints \in Nat /\ late \in Nat
  /\ quiet \in BOOLEAN /\ promised \in BOOLEAN

\* "We should reset the event to not render again if nothing changed": however
\* the calls of NotifyPaint interleave with the two exchanges and the event, a
\* frame is begun at most once per call (thread.cpp:181-200).
NoFrameWithoutRequest == paints <= calls

\* Disabling painting lets at most one more frame begin: the thread passes the
\* enabled event once per frame (thread.cpp:164, 295).
AtMostOneLateFrame == late <= 1

\* A NotifyPaint that finds the thread waiting gets its frame, although the
\* thread discards signals after waking up (thread.cpp:200, 222-225).
SignalIsPainted ==
  promised ~> (~promised \/ ~enabled \/ tpc \in {"exited", "crashed"})

\* WaitForPaintCompletionAndDisable(INFINITE) returns, whatever the engines
\* report and whoever calls NotifyPaint meanwhile (thread.cpp:203-208, 295-296).
TeardownReturns == mpc = "waitCompleted" ~> (mpc # "waitCompleted" \/ tpc = "crashed")

\* ~RenderThread always ends: neither a sleeping nor a disabled thread is left
\* behind (thread.cpp:24-31).
DestructorReturns == destructing ~> (mpc = "destroyed" \/ tpc = "crashed")

\* What the comments at the two exchanges promise: a NotifyPaint that finds the
\* thread not waiting stores a request (thread.cpp:228), and the thread takes it
\* at one of its two checks (thread.cpp:166-175) while painting stays enabled.
RequestIsPainted == requested ~> (~requested \/ ~enabled \/ destructing)
-----------------------------------------------------------------------------
(***************************************************************************)
(* The inductive invariant behind the safety properties                     *)
(***************************************************************************)

One(b) == IF b THEN 1 ELSE 0

\* The thread is past the wait for painting to be enabled, before the frame.
Committed == tpc \in {"exchange", "setWaiting", "exchangeAgain", "asleep", "clearWaiting",
                      "resetEvent", "resetCompleted", "paintFrame"}

\* The thread has taken a signal or a request and owes a frame for it.
Owing == tpc \in {"clearWaiting", "resetEvent", "resetCompleted", "paintFrame"}

\* Every frame begun or owed, and every pending signal and request, is paid for
\* by a call of its own.
CreditInv == paints + One(Owing) + One(event) + One(requested) <= calls

\* Painting stays disabled while quiet, and the one frame that was already on
\* its way is the last.
QuietInv ==
  /\ quiet \/ mpc = "waitCompleted" => ~enabled
  /\ late <= 1
  /\ late = 1 => quiet /\ ~Committed

\* An engine is only tried while it has tries left.
RetryInv == tpc \in {"attempt", "paint"} => tries > 0

IInv == TypeOK /\ CreditInv /\ QuietInv /\ RetryInv
=============================================================================
