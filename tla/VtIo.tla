-------------------------------- MODULE VtIo --------------------------------
(***************************************************************************)
(* How a console host that serves a pseudoconsole starts and ends           *)
(* (src/src/host/VtIo.cpp, PtySignalInputThread.cpp, VtInputThread.cpp,     *)
(* ConsoleIoThread in srvinit.cpp, ProcessCtrlEvents in input.cpp,          *)
(* RundownAndExit in ServiceLocator.cpp).                                   *)
(*                                                                          *)
(* Four threads meet a terminal that closes its ends of the pipes in any    *)
(* order.  All of them run the same code once they find out, so that code   *)
(* is written once, for a thread t; pc[t] says where t is in it, back[t]    *)
(* where it returns to.  One action lasts until the thread has to take a    *)
(* lock, wait, or let go of the console lock.                               *)
(***************************************************************************)
EXTENDS Integers, FiniteSets

CONSTANTS
  Clients,  \* client processes; each one connects at most once
  Inherit   \* a subset of BOOLEAN: may the terminal ask to inherit the cursor

ASSUME ConstantsAssumption == IsFiniteSet(Clients) /\ Inherit \in (SUBSET BOOLEAN) \ {{}}

Threads == {"render", "input", "signal", "io"}
None == "none"

\* What the terminal holds: the far ends of three pipes, and the reference that
\* keeps the console alive while it has no client.
Ends == {"in", "out", "sig", "ref"}

VARIABLES
  open,          \* the ends the terminal has not closed
  stage,         \* of the start: "none", the "renderer" exists, it has the "engine", "running"
  looking,       \* _lookingForCursorPosition, until StartIfNeeded is done
  exitRequested, \* VtInputThread::_exitRequested, set by a read that failed on an open pipe
  inputThread,   \* _pVtInputThread is not null
  engine,        \* _pVtRenderEngine is not null
  pipeBroken,    \* VtEngine::_pipeBroken
  shutdownLock,  \* the thread that holds _shutdownLock, or None
  lock,          \* the console lock: its owner and how often it has entered
  ctrlClose,     \* CtrlFlags has CONSOLE_CTRL_CLOSE_FLAG
  client,        \* per client: "new", "attached" or "gone"
  enabled,       \* _hPaintEnabledEvent
  completed,     \* _hPaintCompletedEvent
  unpainted,     \* the engine has something invalid
  pc, back,      \* per thread: where it is, where it returns to
  records,       \* per thread: the clients ProcessCtrlEvents still has to tell
  terminated,    \* TerminateProcess was called
  early,         \* history: unpainted text from before the first final paint
  finals         \* history: a thread began its final paint, or had no renderer to paint with

startup == <<stage, looking, exitRequested>>
vtio == <<inputThread, engine, shutdownLock>>
events == <<enabled, completed>>
ctrl == <<ctrlClose, records>>
text == <<unpainted, early, finals>>
vars == <<open, startup, vtio, pipeBroken, lock, ctrl, client, events, text, pc, back, terminated>>

Free == [owner |-> None, count |-> 0]
Attached == {c \in Clients : client[c] = "attached"}

\* The signal thread runs from the start (CreateAndStartSignalThread); the rest
\* is made when the first client connects.
Init ==
  /\ open = Ends
  /\ stage = "none"
  /\ looking \in Inherit
  /\ exitRequested = FALSE
  /\ inputThread = FALSE /\ engine = FALSE
  /\ pipeBroken = FALSE
  /\ shutdownLock = None
  /\ lock = Free
  /\ ctrlClose = FALSE
  /\ client = [c \in Clients |-> "new"]
  /\ enabled = FALSE /\ completed = TRUE
  /\ unpainted = FALSE
  /\ pc = [t \in Threads |-> IF t = "render" THEN "top" ELSE "read"]
  /\ back = [t \in Threads |-> "read"]
  /\ records = [t \in Threads |-> {}]
  /\ terminated = FALSE
  /\ early = FALSE /\ finals = FALSE
-----------------------------------------------------------------------------
(***************************************************************************)
(* The console lock and the control events                                  *)
(***************************************************************************)

Goto(t, label) == pc' = [pc EXCEPT ![t] = label]

\* t goes on to label, and from there returns to next.
Call(t, label, next) == Goto(t, label) /\ back' = [back EXCEPT ![t] = next]

\* t goes on to label for good; where it came from no longer matters.
Jump(t, label) == Call(t, label, "read")

\* EnterCriticalSection: who finds the lock free counts from one, whatever the
\* count was left at.
LockConsole(t) ==
  \/ lock.owner = None /\ lock' = [owner |-> t, count |-> 1]
  \/ lock.owner = t /\ lock' = [lock EXCEPT !.count = @ + 1]

\* LeaveCriticalSection counts down, whoever calls it, and lets go at zero: called
\* without the lock, it takes an entry from the thread that holds it, or leaves a
\* free lock's count below zero.
Leave(l) == IF l.count = 1 THEN Free ELSE [l EXCEPT !.count = @ - 1]

\* HandleCtrlEvent(CTRL_CLOSE_EVENT)
HandleCtrlEvent ==
  /\ ctrlClose' = TRUE
  /\ UNCHANGED records

\* Mutation: the early return keeps the lock.
ProcessCtrlEventsKeepLock(t, next) ==
  /\ IF ctrlClose /\ Attached # {}
       THEN /\ ctrlClose' = FALSE
            /\ lock' = Leave(lock)
            /\ records' = [records EXCEPT ![t] = Attached]
            /\ Call(t, "endTask", next)
       ELSE /\ Jump(t, next)
            /\ UNCHANGED <<ctrlClose, lock, records>>

\* ProcessCtrlEvents: lets go of the console lock in every case, and takes the
\* event and the list of clients to send it to along.
ProcessCtrlEvents(t, next) ==
  /\ lock' = Leave(lock)
  /\ IF ctrlClose /\ Attached # {}
       THEN /\ ctrlClose' = FALSE
            /\ records' = [records EXCEPT ![t] = Attached]
            /\ Call(t, "endTask", next)
       ELSE /\ Jump(t, next)
            /\ UNCHANGED <<ctrlClose, records>>

\* ... its loop of EndTask; the first client that vetoes ends it.
EndTask(t, c, ok) ==
  /\ pc[t] = "endTask"
  /\ c \in records[t]
  /\ records' = [records EXCEPT ![t] = IF ok THEN @ \ {c} ELSE {}]
  /\ IF records'[t] = {} THEN Jump(t, back[t]) ELSE UNCHANGED <<pc, back>>
  /\ UNCHANGED <<open, startup, vtio, pipeBroken, lock, ctrlClose, client, events, text, terminated>>

\* UnlockConsole (handle.cpp): the outermost one processes control events.
UnlockConsole(t) ==
  /\ pc[t] = "unlock"
  /\ IF lock.count = 1
       THEN ProcessCtrlEvents(t, back[t])
       ELSE /\ lock' = Leave(lock)
            /\ Jump(t, back[t])
            /\ UNCHANGED ctrl
  /\ UNCHANGED <<open, startup, vtio, pipeBroken, client, events, text, terminated>>
-----------------------------------------------------------------------------
(***************************************************************************)
(* Shutdown, on whatever thread noticed                                     *)
(***************************************************************************)

\* VtIo::CloseInput, on the input thread.  Its std::mutex is not recursive.
CloseInput(t) ==
  /\ pc[t] = "closeInput"
  /\ shutdownLock = None
  /\ inputThread' = FALSE
  /\ shutdownLock' = IF engine THEN None ELSE t
  /\ Goto(t, IF engine THEN "exited" ELSE "closeState")
  /\ UNCHANGED <<open, startup, engine, pipeBroken, lock, ctrl, client, events, text, back,
                 terminated>>

\* Where _Flush returns to: in StartIfNeeded, or at the caller's UnlockConsole.
AfterFlush(t) == IF back[t] \in {"askCursor", "cursor"} THEN back[t] ELSE "unlock"

\* Mutation: losing the output is enough to shut down.
CloseOutputAlone(t) ==
  /\ pc[t] = "closeOutput"
  /\ shutdownLock = None
  /\ engine' = FALSE
  /\ shutdownLock' = t
  /\ Goto(t, "closeState")
  /\ UNCHANGED <<open, startup, inputThread, pipeBroken, lock, ctrl, client, events, text, back,
                 terminated>>

\* VtIo::CloseOutput, called by _Flush.  If input is still there it returns.
CloseOutput(t) ==
  /\ pc[t] = "closeOutput"
  /\ shutdownLock = None
  /\ engine' = FALSE
  /\ shutdownLock' = IF inputThread THEN None ELSE t
  /\ Goto(t, IF inputThread THEN AfterFlush(t) ELSE "closeState")
  /\ UNCHANGED <<open, startup, inputThread, pipeBroken, lock, ctrl, client, events, text, back,
                 terminated>>

\* Mutation: a broken pipe is not remembered.
FlushForgets(t) ==
  /\ pc[t] = "flush"
  /\ Goto(t, IF "out" \in open THEN AfterFlush(t) ELSE "closeOutput")
  /\ UNCHANGED <<open, startup, vtio, pipeBroken, lock, ctrl, client, events, text, back, terminated>>

\* VtEngine::_Flush.  The flush that ends a paint has emitted what was invalid.
Flush(t) ==
  /\ pc[t] = "flush"
  /\ IF pipeBroken \/ "out" \in open
       THEN /\ Goto(t, AfterFlush(t))
            /\ UNCHANGED pipeBroken
       ELSE /\ Goto(t, "closeOutput")
            /\ pipeBroken' = TRUE
  /\ LET painted == back[t] \in {"painted", "terminate"} IN
       /\ unpainted' = (unpainted /\ ~painted)
       /\ early' = (early /\ ~painted)
  /\ UNCHANGED <<open, startup, vtio, lock, ctrl, client, events, finals, back, terminated>>

\* _PaintFrameForEngine, once it has the console lock: StartPaint finds nothing to do
\* when the pipe is broken or nothing is invalid; EndPaint ends with a flush.
StartPaint == IF pipeBroken \/ ~unpainted THEN "unlock" ELSE "flush"

\* CloseConsoleProcessState: without clients it goes straight to RundownAndExit.
CloseConsoleProcessState(t) ==
  /\ pc[t] = "closeState"
  /\ IF Attached = {}
       THEN Jump(t, "rundown") /\ UNCHANGED ctrl
       ELSE Jump(t, "jiggle") /\ HandleCtrlEvent
  /\ UNCHANGED <<open, startup, vtio, pipeBroken, lock, client, events, text, terminated>>

\* ... "Jiggle the handle": LockConsole, then UnlockConsole.
Jiggle(t) ==
  /\ pc[t] = "jiggle"
  /\ LockConsole(t)
  /\ Call(t, "unlock", "events")
  /\ UNCHANGED <<open, startup, vtio, pipeBroken, ctrl, client, events, text, terminated>>

\* The second ProcessCtrlEvents, of _ShutdownIfNeeded and _Shutdown.
ForceCtrlEvents(t) ==
  /\ pc[t] = "events"
  /\ ProcessCtrlEvents(t, "rundown")
  /\ UNCHANGED <<open, startup, vtio, pipeBroken, client, events, text, terminated>>

\* RundownAndExit: TriggerTeardown disables painting, if there is a renderer ...
Rundown(t) ==
  /\ pc[t] = "rundown"
  /\ Goto(t, IF stage = "none" THEN "terminate" ELSE "waitPaint")
  /\ enabled' = FALSE
  /\ finals' = (finals \/ stage = "none")
  /\ UNCHANGED <<open, startup, vtio, pipeBroken, lock, ctrl, client, completed, unpainted, early,
                 back, terminated>>

\* ... waits for the frame being painted ...
WaitPaint(t) ==
  /\ pc[t] = "waitPaint"
  /\ completed
  /\ Goto(t, "finalPaint")
  /\ UNCHANGED <<open, startup, vtio, pipeBroken, lock, ctrl, client, events, text, back,
                 terminated>>

\* Mutation: the teardown does not paint what is left.
NoFinalPaint(t) ==
  /\ pc[t] = "finalPaint"
  /\ Jump(t, "terminate")
  /\ finals' = TRUE
  /\ UNCHANGED <<open, startup, vtio, pipeBroken, lock, ctrl, client, events, unpainted, early,
                 terminated>>

\* ... and paints once more on this thread, if the renderer has its engine yet.
FinalPaint(t) ==
  /\ pc[t] = "finalPaint"
  /\ IF stage = "renderer"
       THEN Jump(t, "terminate") /\ UNCHANGED lock
       ELSE LockConsole(t) /\ Call(t, StartPaint, "terminate")
  /\ finals' = TRUE
  /\ UNCHANGED <<open, startup, vtio, pipeBroken, ctrl, client, events, unpainted, early,
                 terminated>>

Terminate(t) ==
  /\ pc[t] = "terminate"
  /\ terminated' = TRUE
  /\ UNCHANGED <<open, startup, vtio, pipeBroken, lock, ctrl, client, events, text, pc, back>>
-----------------------------------------------------------------------------
(***************************************************************************)
(* The four threads                                                         *)
(***************************************************************************)

\* PtySignalInputThread::_GetData finds the pipe broken: _Shutdown.  A signal that is
\* cut short ends here too; nobody else looks at this pipe.
SignalBroken ==
  /\ pc["signal"] = "read"
  /\ "sig" \notin open
  /\ Goto("signal", "closeState")
  /\ UNCHANGED <<open, startup, vtio, pipeBroken, lock, ctrl, client, events, text, back,
                 terminated>>

\* A resize changes what has to be painted once _consoleConnected is set.
SignalResize ==
  /\ pc["signal"] = "read"
  /\ "sig" \in open
  /\ LockConsole("signal")
  /\ unpainted' = (unpainted \/ stage = "running")
  /\ Call("signal", "unlock", "read")
  /\ UNCHANGED <<open, startup, vtio, pipeBroken, ctrl, client, events, early, finals, terminated>>

\* VtInputThread::_HandleRunInput; the loop ends when it fails.  StartIfNeeded
\* starts the thread last.
InputRead(ok) ==
  /\ pc["input"] = "read"
  /\ stage = "running"
  /\ "in" \in open /\ ~exitRequested
  /\ LockConsole("input")
  /\ Call("input", "unlock", "read")
  /\ exitRequested' = ~ok
  /\ UNCHANGED <<open, stage, looking, vtio, pipeBroken, ctrl, client, events, text, terminated>>

\* ReadFile fails although the terminal is there, here or in StartIfNeeded's loop.
InputReadFails ==
  /\ \/ pc["input"] = "read" /\ stage = "running"
     \/ pc["io"] = "cursor"
  /\ "in" \in open
  /\ exitRequested' = TRUE
  /\ UNCHANGED <<open, stage, looking, vtio, pipeBroken, lock, ctrl, client, events, text, pc, back,
                 terminated>>

\* The loop ends, for a broken pipe or for what failed before.
InputBroken ==
  /\ pc["input"] = "read"
  /\ stage = "running"
  /\ "in" \notin open \/ exitRequested
  /\ Goto("input", "closeInput")
  /\ UNCHANGED <<open, startup, vtio, pipeBroken, lock, ctrl, client, events, text, back,
                 terminated>>

\* RenderThread::_ThreadProc, past the wait for painting to be enabled
RenderEnabled ==
  /\ pc["render"] = "top"
  /\ enabled
  /\ Goto("render", "asleep")
  /\ UNCHANGED <<open, startup, vtio, pipeBroken, lock, ctrl, client, events, text, back,
                 terminated>>

\* ... it is woken up to paint what is invalid
RenderWake ==
  /\ pc["render"] = "asleep"
  /\ unpainted
  /\ completed' = FALSE
  /\ Goto("render", "lockPaint")
  /\ UNCHANGED <<open, startup, vtio, pipeBroken, lock, ctrl, client, enabled, text, back,
                 terminated>>

RenderPaint ==
  /\ pc["render"] = "lockPaint"
  /\ LockConsole("render")
  /\ Call("render", StartPaint, "painted")
  /\ UNCHANGED <<open, startup, vtio, pipeBroken, ctrl, client, events, text, terminated>>

RenderPainted ==
  /\ pc["render"] = "painted"
  /\ completed' = TRUE
  /\ Goto("render", "top")
  /\ UNCHANGED <<open, startup, vtio, pipeBroken, lock, ctrl, client, enabled, text, back,
                 terminated>>

\* ConsoleIoThread takes its next message: under the console lock, it goes on to
\* label and from its UnlockConsole back to the next message.
Message(label) ==
  /\ pc["io"] = "read"
  /\ LockConsole("io")
  /\ Call("io", label, "read")

\* ConsoleHandleConnectionRequest.  For the first client ConsoleAllocateConsole makes
\* the renderer and lets it paint; if that client has a window, it lets go of the
\* console lock ...
Connect(c, window) ==
  /\ client[c] = "new"
  /\ "ref" \in open \/ Attached # {}
  /\ pc["io"] = "read"
  /\ LockConsole("io")
  /\ client' = [client EXCEPT ![c] = "attached"]
  /\ IF stage = "none"
       THEN /\ stage' = "renderer"
            /\ enabled' = TRUE
            /\ IF window THEN Call("io", "unlock", "relock") ELSE Call("io", "startIfNeeded", "read")
       ELSE /\ Call("io", "unlock", "read")
            /\ UNCHANGED <<stage, enabled>>
  /\ UNCHANGED <<open, looking, exitRequested, vtio, pipeBroken, ctrl, completed, text, terminated>>

\* ... until the window's thread has come up.
Relock ==
  /\ pc["io"] = "relock"
  /\ LockConsole("io")
  /\ Goto("io", "startIfNeeded")
  /\ UNCHANGED <<open, startup, vtio, pipeBroken, ctrl, client, events, text, back, terminated>>

\* CreateIoHandlers and StartIfNeeded: the renderer gets its engine, which asks for
\* win32-input-mode if the terminal wants it.
StartIfNeeded(win32) ==
  /\ pc["io"] = "startIfNeeded"
  /\ inputThread' = TRUE /\ engine' = TRUE
  /\ stage' = "engine"
  /\ Call("io", IF win32 THEN "flush" ELSE "askCursor", "askCursor")
  /\ UNCHANGED <<open, looking, exitRequested, shutdownLock, pipeBroken, lock, ctrl, client, events,
                 text, terminated>>

\* Start the input thread, ConnectConsole.  From here on nothing depends on looking.
StartThreads ==
  /\ Call("io", "unlock", "read")
  /\ stage' = "running"
  /\ looking' = FALSE

\* ... asks for the cursor position, if there still are both pipes to get it by ...
AskCursor ==
  /\ pc["io"] = "askCursor"
  /\ IF looking /\ engine /\ inputThread
       THEN Call("io", "flush", "cursor") /\ UNCHANGED <<stage, looking>>
       ELSE StartThreads
  /\ UNCHANGED <<open, exitRequested, vtio, pipeBroken, lock, ctrl, client, events, text,
                 terminated>>

\* ... and reads input itself until the answer arrives.  A broken pipe is read
\* again and again: DoReadInput(false) returns at once.
CursorFound ==
  /\ pc["io"] = "cursor"
  /\ "in" \in open
  /\ StartThreads
  /\ UNCHANGED <<open, exitRequested, vtio, pipeBroken, lock, ctrl, client, events, text, terminated>>

\* RemoveConsole
Disconnect(c) ==
  /\ client[c] = "attached"
  /\ Message("unlock")
  /\ client' = [client EXCEPT ![c] = "gone"]
  /\ UNCHANGED <<open, startup, vtio, pipeBroken, ctrl, events, text, terminated>>

\* A client writes; what the console does not understand is passed through to
\* the terminal and flushed at once (WriteTerminalW).
Write(through) ==
  /\ Attached # {}
  /\ Message(IF through THEN "flush" ELSE "unlock")
  /\ unpainted' = (unpainted \/ ~through)
  /\ early' = (early \/ (~through /\ ~finals))
  /\ UNCHANGED <<open, startup, vtio, pipeBroken, ctrl, client, events, finals, terminated>>

\* ReadIo fails with ERROR_PIPE_NOT_CONNECTED: nobody is left.
Disconnected ==
  /\ pc["io"] = "read"
  /\ "ref" \notin open /\ Attached = {}
  /\ Goto("io", "rundown")
  /\ UNCHANGED <<open, startup, vtio, pipeBroken, lock, ctrl, client, events, text, back,
                 terminated>>

\* The terminal closes an end, or dies, which closes them all one by one.  Closing
\* an input pipe that is read no more makes no difference, and is left out.
TerminalCloses(e) ==
  /\ e \in open
  /\ e = "in" => ~exitRequested \/ stage # "running"
  /\ open' = open \ {e}
  /\ UNCHANGED <<startup, vtio, pipeBroken, lock, ctrl, client, events, text, pc, back, terminated>>
-----------------------------------------------------------------------------
\* What a thread does once it has found something out.
Step(t) ==
  \/ CloseInput(t) \/ CloseOutput(t) \/ Flush(t)
  \/ CloseConsoleProcessState(t) \/ ForceCtrlEvents(t) \/ UnlockConsole(t)
  \/ \E c \in Clients, ok \in BOOLEAN : EndTask(t, c, ok)
  \/ Rundown(t) \/ WaitPaint(t) \/ Terminate(t)
  \/ t = "signal" /\ SignalBroken
  \/ t = "input" /\ InputBroken
  \/ t = "render" /\ RenderPainted
  \/ t = "io" /\ (Disconnected \/ AskCursor \/ \E win32 \in BOOLEAN : StartIfNeeded(win32))

\* ... and where it has to get the console lock first.
LockingStep(t) == Jiggle(t) \/ FinalPaint(t) \/ (t = "render" /\ RenderPaint)

\* What happens from outside.
Environment ==
  \/ SignalResize
  \/ InputReadFails \/ \E ok \in BOOLEAN : InputRead(ok)
  \/ RenderEnabled \/ RenderWake
  \/ \E c \in Clients : Disconnect(c) \/ \E window \in BOOLEAN : Connect(c, window)
  \/ Relock \/ CursorFound
  \/ \E through \in BOOLEAN : Write(through)
  \/ \E e \in Ends : TerminalCloses(e)

Next == ~terminated /\ (Environment \/ \E t \in Threads : Step(t) \/ LockingStep(t))

Spec == Init /\ [][Next]_vars

\* A thread that can go on does, and one that waits for the console lock gets it
\* if it is let go of again and again.  Nothing is assumed of the terminal, of
\* the clients, of reads that fail, of the window's thread, or of the render
\* thread noticing a request.
Fairness ==
  \A t \in Threads : WF_vars(~terminated /\ Step(t)) /\ SF_vars(~terminated /\ LockingStep(t))

FairSpec == Spec /\ Fairness
-----------------------------------------------------------------------------
ThreadTypes ==
  /\ pc \in [Threads -> {"read", "top", "asleep", "lockPaint", "flush", "painted", "relock",
                         "startIfNeeded", "askCursor", "cursor", "unlock", "endTask", "closeInput",
                         "closeOutput", "closeState", "jiggle", "events", "rundown", "waitPaint", "finalPaint", "terminate", "exited"}]
  /\ back \in [Threads -> {"read", "painted", "relock", "askCursor", "cursor", "events", "rundown",
                           "terminate"}]
  /\ records \in [Threads -> SUBSET Clients]

LockTypes ==
  /\ lock \in [owner : Threads \cup {None}, count : Int]
  /\ lock.owner # None <=> lock.count > 0
  /\ lock.count <= 2
  /\ shutdownLock \in Threads \cup {None}

StateTypes ==
  /\ open \subseteq Ends
  /\ stage \in {"none", "renderer", "engine", "running"}
  /\ looking \in BOOLEAN /\ exitRequested \in BOOLEAN
  /\ inputThread \in BOOLEAN /\ engine \in BOOLEAN /\ pipeBroken \in BOOLEAN
  /\ ctrlClose \in BOOLEAN
  /\ enabled \in BOOLEAN /\ completed \in BOOLEAN
  /\ unpainted \in BOOLEAN /\ early \in BOOLEAN /\ finals \in BOOLEAN
  /\ terminated \in BOOLEAN

ClientTypes == client \in [Clients -> {"new", "attached", "gone"}]

\* Every variable has its type.  The console lock is owned as long as its count is
\* positive, and no thread is in it more than twice: the shutdown that begins under
\* the lock enters it again to jiggle the handle and to paint, never a third time
\* (output.cpp:515-524, VtIo.cpp:386, renderer.cpp:334).
TypeOK == ThreadTypes /\ LockTypes /\ StateTypes /\ ClientTypes

\* Text a client wrote before a teardown painted for the last time reaches the
\* terminal, whichever thread ends the process and whatever frame is being
\* painted meanwhile, unless the terminal closed the pipe
\* (ServiceLocator.cpp:40-45, renderer.cpp:322-339).
TextBeforeExit == terminated => pipeBroken \/ ~early

\* No thread asks for _shutdownLock while it holds it, although the teardown
\* that runs under that lock paints, and painting may close the output
\* (VtIo.cpp:343, 351, 389; the mutex is not recursive).
NoRelock == \A t \in Threads : pc[t] \in {"closeInput", "closeOutput"} => shutdownLock # t

\* The render thread waits for the frame it is itself painting only when the
\* terminal does not read any more and the input thread has ended, because its
\* pipe is closed or because reading or handling input failed: while the terminal
\* reads, or input is served, it never enters the teardown
\* (VtIo.cpp:371, VtInputThread.cpp:119-157, renderer.cpp:325).
RenderWaitsForItself ==
  pc["render"] = "waitPaint" => "out" \notin open /\ ("in" \notin open \/ exitRequested)

\* ClosePseudoConsole keeps reading the output: then closing the signal pipe
\* ends the process (winconpty.cpp _ClosePseudoConsoleMembers waits for it),
\* whatever the clients, the other threads and the other pipes do.  Only the wait
\* for the cursor position (VtIo.cpp:243) is excepted, as its comment says.
GracefulCloseExits ==
  "sig" \notin open ~> terminated \/ "out" \notin open \/ pc["io"] = "cursor"

\* "Make sure we terminate": a host whose terminal is gone ends
\* (VtIo.cpp:388, PtySignalInputThread.cpp:214).
OrphanExits == open = {} ~> terminated \/ pc["io"] = "cursor"
=============================================================================
