-------------------------- MODULE ConptyConnection --------------------------
(***************************************************************************)
(* A terminal's connection to a pseudoconsole                               *)
(* (src/src/cascadia/TerminalConnection/ConptyConnection.cpp,               *)
(* ConnectionStateHolder.h; ClosePseudoConsole in winconpty.cpp).           *)
(*                                                                          *)
(* Five threads share the object: the UI thread in Start, a background      *)
(* thread in Close, a thread pool callback in _ClientTerminated, the output *)
(* thread, and the background thread that destroys the object after its     *)
(* last reference is gone.  The console host and the client are processes   *)
(* of their own; the host promises what module VtIo shows of it: it ends    *)
(* when the signal pipe closes, once its text has been read.                *)
(***************************************************************************)
EXTENDS Integers

CONSTANTS
  Capacity,  \* chunks of text the output pipe holds
  MaxText,   \* bound: chunks of text the client writes
  Handoffs   \* a subset of BOOLEAN: may the connection be handed a running host

ASSUME ConstantsAssumption ==
  /\ Capacity \in Nat \ {0}
  /\ MaxText \in Nat
  /\ Handoffs \in (SUBSET BOOLEAN) \ {{}}

\* enum ConnectionState
NotConnected == 0
Connecting == 1
Connected == 2
Closing == 3
Closed == 4
Failed == 5

Threads == {"start", "close", "exit", "output", "destroy"}

VARIABLES
  state,    \* _connectionState
  pc,       \* where each thread is
  back,     \* where each thread goes from ClosePseudoConsole
  pty,      \* _hPC is not null (it stays so while it is being closed)
  outPipe,  \* _outPipe is not null
  hOut,     \* _hOutputThread is not null
  process,  \* _piClient.hProcess is not null
  armed,    \* _clientExitWait waits for the client
  core,     \* the terminal control holds a reference
  strong,   \* the output thread holds a reference
  signal,   \* the signal pipe is open
  host,     \* the console host: "none", "up" or "gone"
  client,   \* the client: "none", "up" or "gone"
  text,     \* chunks the client has written so far
  pending,  \* of those, what the host has not sent yet
  pipe,     \* chunks in the output pipe
  crashed,  \* history: the host died by itself
  gaveUp,   \* history: the output thread gave up on a pipe that was not broken
  late      \* history: destroyed before the output thread had taken its reference

object == <<pty, outPipe, hOut, process, armed, core, strong>>
world == <<signal, host, client, text, pending, pipe, crashed>>
history == <<gaveUp, late>>
vars == <<state, pc, back, object, world, history>>

\* A connection is made for a client to launch, or handed over with host and client.
Init ==
  /\ state = NotConnected
  /\ pc = [t \in Threads |-> "idle"]
  /\ back = [t \in Threads |-> "idle"]
  /\ \E handoff \in Handoffs :
       /\ pty = handoff /\ outPipe = handoff /\ process = handoff /\ signal = handoff
       /\ host = IF handoff THEN "up" ELSE "none"
       /\ client = host
  /\ hOut = FALSE /\ armed = FALSE
  /\ core = TRUE /\ strong = FALSE
  /\ text = 0 /\ pending = 0 /\ pipe = 0
  /\ crashed = FALSE /\ gaveUp = FALSE /\ late = FALSE
-----------------------------------------------------------------------------
Goto(t, label) == pc' = [pc EXCEPT ![t] = label]
Call(t, label, next) == Goto(t, label) /\ back' = [back EXCEPT ![t] = next]

\* _transitionToState moves up the states, or stays where it is
MayMove(s) == state <= s

TransitionToState(s) == state' = IF MayMove(s) THEN s ELSE state

\* WaitForSingleObject(hConPtyProcess)
HostIsGone == host \in {"none", "gone"}

\* ClosePseudoConsole: break the signal pipe, if there is a pseudoconsole ...
BreakSignal(t) ==
  /\ pc[t] = "closePty"
  /\ signal' = (signal /\ ~pty)
  /\ Goto(t, "waitHost")
  /\ UNCHANGED <<state, back, object, host, client, text, pending, pipe, crashed, history>>

\* ... wait for the host to finish, and forget it.
WaitHost(t) ==
  /\ pc[t] = "waitHost"
  /\ pty => HostIsGone
  /\ pty' = FALSE
  /\ Goto(t, back[t])
  /\ UNCHANGED <<state, back, outPipe, hOut, process, armed, core, strong, world, history>>
-----------------------------------------------------------------------------
(***************************************************************************)
(* Start, on the UI thread                                                  *)
(***************************************************************************)

StartBegin ==
  /\ pc["start"] = "idle"
  /\ pc["close"] = "idle"
  /\ TransitionToState(Connecting)
  /\ Goto("start", IF outPipe THEN "thread" ELSE "create")
  /\ UNCHANGED <<back, object, world, history>>

\* _CreatePseudoConsoleAndPipes and _LaunchAttachedClient
Create ==
  /\ pc["start"] = "create"
  /\ pty' = TRUE /\ outPipe' = TRUE /\ process' = TRUE
  /\ signal' = TRUE /\ host' = "up" /\ client' = "up"
  /\ Goto("start", "thread")
  /\ UNCHANGED <<state, back, hOut, armed, core, strong, text, pending, pipe, crashed, history>>

\* ... one of them fails, the launch perhaps when the client already runs (its name
\* is asked for after CreateProcessW): the exit point of Start, which leaves the pipes open
CreateFails(made, launched) ==
  /\ pc["start"] = "create"
  /\ launched => made
  /\ pty' = made /\ outPipe' = made /\ process' = launched
  /\ signal' = made /\ host' = IF made THEN "up" ELSE "none"
  /\ client' = IF launched THEN "up" ELSE "none"
  /\ TransitionToState(Failed)
  /\ Call("start", "closePty", "done")
  /\ UNCHANGED <<hOut, armed, core, strong, text, pending, pipe, crashed, history>>

StartOutputThread ==
  /\ pc["start"] = "thread"
  /\ hOut' = TRUE
  /\ pc' = [pc EXCEPT !["start"] = "arm", !["output"] = "begin"]
  /\ UNCHANGED <<state, back, pty, outPipe, process, armed, core, strong, world, history>>

\* CreateThread fails: the same exit point
ThreadFails ==
  /\ pc["start"] = "thread"
  /\ TransitionToState(Failed)
  /\ Call("start", "closePty", "done")
  /\ UNCHANGED <<object, world, history>>

\* SetThreadpoolWait
Arm ==
  /\ pc["start"] = "arm"
  /\ armed' = TRUE
  /\ Goto("start", "connect")
  /\ UNCHANGED <<state, back, pty, outPipe, hOut, process, core, strong, world, history>>

Connect ==
  /\ pc["start"] = "connect"
  /\ TransitionToState(Connected)
  /\ Goto("start", "done")
  /\ UNCHANGED <<back, object, world, history>>
-----------------------------------------------------------------------------
(***************************************************************************)
(* _ClientTerminated, on a thread of the thread pool                        *)
(***************************************************************************)

\* The client ends while the wait is armed: the callback runs, once.
ExitCallback ==
  /\ pc["exit"] = "idle"
  /\ armed /\ client = "gone"
  /\ armed' = FALSE
  /\ Goto("exit", "check")
  /\ UNCHANGED <<state, back, pty, outPipe, hOut, process, core, strong, world, history>>

\* "This termination was expected."
ExitCheck ==
  /\ pc["exit"] = "check"
  /\ Goto("exit", IF state >= Closing THEN "done" ELSE "transition")
  /\ UNCHANGED <<state, back, object, world, history>>

\* Closed for the exit code 0, Failed for another
ExitTransition(s) ==
  /\ pc["exit"] = "transition"
  /\ TransitionToState(s)
  /\ Call("exit", "closePty", "take")
  /\ UNCHANGED <<object, world, history>>

\* std::move(_hOutputThread): there may be nothing to wait for
ExitTake ==
  /\ pc["exit"] = "take"
  /\ hOut' = FALSE
  /\ Goto("exit", IF hOut THEN "waitOutput" ELSE "report")
  /\ UNCHANGED <<state, back, pty, outPipe, process, armed, core, strong, world, history>>

\* Mutation: the output is not drained.
ExitDoesNotWait ==
  /\ pc["exit"] = "waitOutput"
  /\ Goto("exit", "report")
  /\ UNCHANGED <<state, back, object, world, history>>

ExitWaitOutput ==
  /\ pc["exit"] = "waitOutput"
  /\ pc["output"] = "done"
  /\ Goto("exit", "report")
  /\ UNCHANGED <<state, back, object, world, history>>

\* _indicateExitWithStatus, _piClient.reset()
ExitReport ==
  /\ pc["exit"] = "report"
  /\ process' = FALSE
  /\ Goto("exit", "done")
  /\ UNCHANGED <<state, back, pty, outPipe, hOut, armed, core, strong, world, history>>

\* Resetting _clientExitWait cancels a callback that has not begun, and waits
\* for one that has.
CallbackRuns == pc["exit"] \notin {"idle", "done"}
-----------------------------------------------------------------------------
(***************************************************************************)
(* Close, on a background thread: ControlCore calls it once                 *)
(***************************************************************************)

\* Close gets on only if the state moves to Closing; otherwise it is over, and
\* the control lets go of the connection.
CloseBegin ==
  /\ pc["close"] = "idle"
  /\ pc["start"] \in {"idle", "done"}
  /\ TransitionToState(Closing)
  /\ Goto("close", IF MayMove(Closing) THEN "disarm" ELSE "done")
  /\ core' = MayMove(Closing)
  /\ UNCHANGED <<back, pty, outPipe, hOut, process, armed, strong, world, history>>

\* Mutation: a callback that runs is not waited for.
CloseDoesNotWait ==
  /\ pc["close"] = "disarm"
  /\ armed' = FALSE
  /\ Call("close", "closePty", "pipes")
  /\ UNCHANGED <<state, pty, outPipe, hOut, process, core, strong, world, history>>

\* Mutation: the output thread is waited for before the pseudoconsole is closed.
CloseWaitsFirst ==
  /\ pc["close"] = "disarm"
  /\ ~CallbackRuns
  /\ armed' = FALSE
  /\ Goto("close", "waitOutput")
  /\ UNCHANGED <<state, back, pty, outPipe, hOut, process, core, strong, world, history>>

\* _clientExitWait.reset()
CloseDisarm ==
  /\ pc["close"] = "disarm"
  /\ ~CallbackRuns
  /\ armed' = FALSE
  /\ Call("close", "closePty", "pipes")
  /\ UNCHANGED <<state, pty, outPipe, hOut, process, core, strong, world, history>>

\* _inPipe.reset(), _outPipe.reset()
ClosePipes ==
  /\ pc["close"] = "pipes"
  /\ outPipe' = FALSE
  /\ Goto("close", "waitOutput")
  /\ UNCHANGED <<state, back, pty, hOut, process, armed, core, strong, world, history>>

CloseWaitOutput ==
  /\ pc["close"] = "waitOutput"
  /\ hOut => pc["output"] = "done"
  /\ hOut' = FALSE
  /\ Goto("close", "waitClient")
  /\ UNCHANGED <<state, back, pty, outPipe, process, armed, core, strong, world, history>>

CloseWaitClient ==
  /\ pc["close"] = "waitClient"
  /\ process => client = "gone"
  /\ process' = FALSE
  /\ TransitionToState(Closed)
  /\ Goto("close", "done")
  /\ core' = FALSE
  /\ UNCHANGED <<back, pty, outPipe, hOut, armed, strong, world, history>>
-----------------------------------------------------------------------------
(***************************************************************************)
(* _OutputThread                                                            *)
(***************************************************************************)

\* get_strong(): until then the thread has only a plain pointer
OutputBegin ==
  /\ pc["output"] = "begin"
  /\ strong' = TRUE
  /\ Goto("output", "read")
  /\ UNCHANGED <<state, back, pty, outPipe, hOut, process, armed, core, world, history>>

\* Mutation: the last reference destroys the object on the thread that drops it,
\* which is not over before.
OutputDestroys == Goto("output", IF core THEN "done" ELSE "disarm") /\ strong' = FALSE

OutputEnds == Goto("output", "done") /\ strong' = FALSE

\* Mutation: a read returns without anything to read.
OutputReadsNothing ==
  /\ pc["output"] = "read"
  /\ outPipe
  /\ pipe' = pipe - 1
  /\ UNCHANGED <<state, pc, back, object, signal, host, client, text, pending, crashed, history>>

\* A chunk is read, converted and handed to the terminal.
OutputRead ==
  /\ pc["output"] = "read"
  /\ outPipe /\ pipe > 0
  /\ pipe' = pipe - 1
  /\ UNCHANGED <<state, pc, back, object, signal, host, client, text, pending, crashed, history>>

\* The far side is gone and everything was read, or Close took the pipe away:
\* nothing is left to convert.
OutputEof ==
  /\ pc["output"] = "read"
  /\ ~outPipe \/ (pipe = 0 /\ host = "gone")
  /\ OutputEnds
  /\ UNCHANGED <<state, back, pty, outPipe, hOut, process, armed, core, world, history>>

\* A successful read that converts to nothing ends the thread as well: a chunk with only
\* a part of a character, which stays in _u8State, or a read of no bytes.
OutputReadsEmpty ==
  /\ pc["output"] = "read"
  /\ outPipe
  /\ \/ pipe > 0 /\ pipe' = pipe - 1
     \/ pipe' = pipe
  /\ gaveUp' = TRUE
  /\ OutputEnds
  /\ UNCHANGED <<state, back, pty, outPipe, hOut, process, armed, core, signal, host, client, text,
                 pending, crashed, late>>

\* Reading or converting fails: expected when the connection is closing
OutputError ==
  /\ pc["output"] = "read"
  /\ outPipe
  /\ gaveUp' = TRUE
  /\ IF state >= Closing
       THEN OutputEnds
       ELSE Goto("output", "fail") /\ UNCHANGED strong
  /\ UNCHANGED <<state, back, pty, outPipe, hOut, process, armed, core, world, late>>

\* ... and an exit point when it is not
OutputFails ==
  /\ pc["output"] = "fail"
  /\ TransitionToState(Failed)
  /\ OutputEnds
  /\ UNCHANGED <<back, pty, outPipe, hOut, process, armed, core, world, history>>
-----------------------------------------------------------------------------
(***************************************************************************)
(* final_release: the destructor, on a background thread                    *)
(***************************************************************************)

\* The references counted are the control's and the output thread's, which takes its
\* own only when it runs.
FinalRelease ==
  /\ pc["destroy"] = "idle"
  /\ ~core /\ ~strong
  /\ late' = (pc["output"] = "begin")
  /\ Goto("destroy", "buffers")
  /\ UNCHANGED <<state, back, object, world, gaveUp>>

\* The members go in reverse order: first _buffer, _u16Str and _u8State, waiting for nobody
DestroyBuffers ==
  /\ pc["destroy"] = "buffers"
  /\ Goto("destroy", "disarm")
  /\ UNCHANGED <<state, back, object, world, history>>

\* Mutation: a callback that runs is not waited for.
DestroyDoesNotWait ==
  /\ pc["destroy"] = "disarm"
  /\ armed' = FALSE
  /\ Call("destroy", "closePty", "free")
  /\ UNCHANGED <<state, pty, outPipe, hOut, process, core, strong, world, history>>

\* ... then _clientExitWait and _hPC,
DestroyDisarm ==
  /\ pc["destroy"] = "disarm"
  /\ ~CallbackRuns
  /\ armed' = FALSE
  /\ Call("destroy", "closePty", "free")
  /\ UNCHANGED <<state, pty, outPipe, hOut, process, core, strong, world, history>>

\* ... the handles and the pipes.
DestroyFree ==
  /\ pc["destroy"] = "free"
  /\ outPipe' = FALSE /\ hOut' = FALSE /\ process' = FALSE
  /\ Goto("destroy", "done")
  /\ UNCHANGED <<state, back, pty, armed, core, strong, world, history>>
-----------------------------------------------------------------------------
(***************************************************************************)
(* The other processes                                                      *)
(***************************************************************************)

ClientWrites ==
  /\ client = "up" /\ host = "up"
  /\ text < MaxText
  /\ text' = text + 1
  /\ pending' = pending + 1
  /\ UNCHANGED <<state, pc, back, object, signal, host, client, pipe, crashed, history>>

ClientExits ==
  /\ client = "up"
  /\ client' = "gone"
  /\ UNCHANGED <<state, pc, back, object, signal, host, text, pending, pipe, crashed, history>>

\* The host sends text when the pipe has room.
HostSends ==
  /\ host = "up"
  /\ pending > 0 /\ pipe < Capacity
  /\ pending' = pending - 1
  /\ pipe' = pipe + 1
  /\ UNCHANGED <<state, pc, back, object, signal, host, client, text, crashed, history>>

\* It ends when the signal pipe was closed, after its last text is in the pipe
\* or the pipe is broken (VtIo: TextBeforeExit, GracefulCloseExits).
HostExits ==
  /\ host = "up"
  /\ ~signal
  /\ pending = 0 \/ ~outPipe
  /\ host' = "gone"
  /\ UNCHANGED <<state, pc, back, object, signal, client, text, pending, pipe, crashed, history>>

HostCrashes ==
  /\ host = "up"
  /\ host' = "gone"
  /\ crashed' = TRUE
  /\ UNCHANGED <<state, pc, back, object, signal, client, text, pending, pipe, history>>
-----------------------------------------------------------------------------
StartStep ==
  StartBegin \/ Create \/ (\E made, launched \in BOOLEAN : CreateFails(made, launched))
  \/ StartOutputThread \/ ThreadFails \/ Arm \/ Connect
ExitStep ==
  ExitCallback \/ ExitCheck \/ (\E s \in {Closed, Failed} : ExitTransition(s)) \/ ExitTake
  \/ ExitWaitOutput \/ ExitReport
CloseStep == CloseDisarm \/ ClosePipes \/ CloseWaitOutput \/ CloseWaitClient
OutputStep == OutputBegin \/ OutputRead \/ OutputEof \/ OutputFails
DestroyStep == FinalRelease \/ DestroyBuffers \/ DestroyDisarm \/ DestroyFree

Next ==
  \/ StartStep \/ ExitStep \/ CloseBegin \/ CloseStep
  \/ OutputStep \/ OutputReadsEmpty \/ OutputError \/ DestroyStep
  \/ \E t \in Threads : BreakSignal(t) \/ WaitHost(t)
  \/ ClientWrites \/ ClientExits \/ HostSends \/ HostExits \/ HostCrashes

Spec == Init /\ [][Next]_vars

\* Threads and the host go on when they can; a client does not outlive its host.
\* Nothing is assumed of the user, of the client while it has a host, or of
\* errors, empty reads and crashes.
FairSpec ==
  /\ Spec
  /\ WF_vars(ExitStep) /\ WF_vars(CloseStep) /\ WF_vars(OutputStep) /\ WF_vars(DestroyStep)
  /\ \A t \in Threads : WF_vars(BreakSignal(t) \/ WaitHost(t))
  /\ WF_vars(HostSends) /\ WF_vars(HostExits)
  /\ WF_vars(ClientExits /\ host = "gone")
-----------------------------------------------------------------------------
ThreadTypes ==
  /\ state \in NotConnected .. Failed
  /\ pc \in [Threads -> {"idle", "create", "thread", "arm", "connect", "closePty", "waitHost",
                         "check", "transition", "take", "waitOutput", "report", "disarm", "pipes",
                         "waitClient", "begin", "read", "fail", "buffers", "free", "done"}]
  /\ back \in [Threads -> {"idle", "take", "pipes", "free", "done"}]

ObjectTypes ==
  /\ pty \in BOOLEAN /\ outPipe \in BOOLEAN /\ hOut \in BOOLEAN /\ process \in BOOLEAN
  /\ armed \in BOOLEAN /\ core \in BOOLEAN /\ strong \in BOOLEAN

WorldTypes ==
  /\ signal \in BOOLEAN
  /\ host \in {"none", "up", "gone"} /\ client \in {"none", "up", "gone"}
  /\ text \in 0 .. MaxText /\ pending \in 0 .. text /\ pipe \in 0 .. Capacity
  /\ crashed \in BOOLEAN /\ gaveUp \in BOOLEAN /\ late \in BOOLEAN

\* Every variable has its type, and the pipe holds what it has room for
\* (ConptyConnection.h:63-84).
TypeOK == ThreadTypes /\ ObjectTypes /\ WorldTypes

ClosesPty(t) == pc[t] \in {"closePty", "waitHost"}

\* The pseudoconsole is never closed by two threads at once, although the exit
\* callback decides to close it before, and Close and the destructor without
\* looking at the state (ConptyConnection.cpp:347-363, 404-409).
OneCloser == \A t, u \in Threads : ClosesPty(t) /\ ClosesPty(u) => t = u

\* "Wait for all output to drain": when the exit message is printed the output thread
\* has ended, even if the client ends before Start has and whatever state Close moves to
\* meanwhile, and everything the client wrote was read (ConptyConnection.cpp:362-369).
\* Text is lost with a host that crashes, and by an output thread that gave up: at an
\* error, or at a read that converted to nothing (474-477), which the comment overlooks.
ExitMessageIsLast ==
  pc["exit"] = "report" =>
    /\ pc["output"] = "done"
    /\ gaveUp \/ (pipe = 0 /\ (crashed \/ pending = 0))

\* No thread runs in an object past the members it uses, although the callback holds no
\* reference (ConptyConnection.cpp:288-296): when the buffers are gone no output thread
\* reads into them, and past the exit wait nothing runs at all.  "Keep us alive until the
\* output thread terminates" (436-438) comes too late for one case: a thread that had not
\* begun when the last reference went, while the callback waits for it (late).
NoUseAfterFree ==
  /\ pc["destroy"] # "idle" => pc["start"] \in {"idle", "done"}
  /\ pc["destroy"] \notin {"idle", "buffers"} => pc["output"] \in {"idle", "done"} \/ late
  /\ pc["destroy"] \in {"closePty", "waitHost", "free", "done"} =>
       ~CallbackRuns /\ pc["output"] \in {"idle", "done"}

\* A host that has more text than its full pipe takes, and nobody to read it: there is no
\* output thread, or it gave up.
HostBlocked ==
  /\ host = "up" /\ pending > 0 /\ pipe = Capacity
  /\ pc["output"] \in {"idle", "done"}

\* Once Close has begun it returns: its three waits end, with the client, its host and the
\* exit callback in any state (ConptyConnection.cpp:404-429), unless the host it waits for
\* is blocked on a pipe that nobody reads.
CloseReturns == pc["close"] = "disarm" ~> pc["close"] = "done" \/ HostBlocked

\* A connection that its control has let go of is destroyed, and its host is gone, unless
\* that host is blocked on a pipe that nobody reads
\* (ConptyConnection.cpp:527-544: "this takes us right to deadlock city").
ReleaseEnds == ~core ~> (pc["destroy"] = "done" /\ HostIsGone) \/ HostBlocked
=============================================================================
