# Windows Terminal and the console host in TLA+

Models of the concurrent and distributed parts of the Windows Terminal / console
host repository, the TLC configurations that check them on small instances, and
TLAPS proofs of the properties that matter most for every value of the constants.
All source paths below are relative to `src/src/`.

## 1. Inventory

The repository holds two products that share most of their code: the console host
(`host`, `server`, `interactivity`) and Windows Terminal (`cascadia`), on top of
common libraries (`buffer`, `renderer`, `terminal`, `types`, `til`).

| Component | State | Operations | Talks to | What is hard | What makes it correct |
|---|---|---|---|---|---|
| `til::spsc` channel (`inc/til/spsc.h`) | two atomic positions with a revolution and a drop flag, the slots, `_eitherSideDropped` | emplace, push, pop (one or many, two wait policies), destroying an end | two threads | lock-free; wrap-around; futex waits; both ends may die at any time | slots are exclusive, FIFO, bounded, drained before closed, freed once, no lost wake-up |
| Render thread (`renderer/base/thread.cpp`) | three flags, three Win32 events | NotifyPaint, Enable/DisablePainting, WaitForPaintCompletionAndDisable, destructor | callers on any thread, its renderer | flag and event are written by different threads in different orders | requests are painted, not multiplied; disabling and destruction end |
| Renderer (`renderer/base/renderer.cpp`) | engines, `_destructing`, `_pThread` | Trigger…, PaintFrame, TriggerTeardown, ResetErrorStateAndResume, destructor | render thread, engines, console lock | retries of a failing engine race teardown | an engine's failure is contained |
| Monarch (`cascadia/Remoting/Monarch.cpp`) | peasants by ID, next ID, list of recent windows | AddPeasant, HandleActivatePeasant, ProposeCommandline, SummonWindow, rename | peasants in other processes, by COM | any peasant may die during any call | IDs are not reused, the list is ordered, lookups end |
| Peasant (`Peasant.cpp`) | ID, name, last activation | AssignID, ActivateWindow, RequestRename, ExecuteCommandline | its monarch | the monarch may be dead | names are unique |
| WindowManager (`WindowManager.cpp`, `MonarchFactory.h`) | the monarch it knows, `_isKing`, election thread | construction, ProposeCommandline, election, destruction | COM's class table, monarch, AppHost | crashes of several processes between any two calls | one king; every window finds a monarch; closing ends |
| AppHost (`cascadia/WindowsTerminal`) | one window | startup, activation, rename, hotkeys | WindowManager | background threads | drives the above |
| VT I/O (`host/VtIo.cpp`, `PtySignalInputThread.cpp`, `VtInputThread.cpp`, `renderer/vt`) | input thread and engine, shutdown mutex, control flags | CloseInput/CloseOutput, control events, rundown | render, input, signal and I/O threads, console lock, the terminal's pipes | every thread may find out that the terminal is gone, also within a paint | text is sent before the exit; a graceful close ends the process; no thread waits for itself |
| Console server (`server`) | wait queues, handles, process list | blocking calls, Notify, open/close, connect/disconnect | client processes by the driver | a wait block sits on two queues, and is queued after the lock was released | notified once, left on no queue, gone before its handle and process |
| Input buffer (`host/inputBuffer.cpp`, `stream.cpp`, `read*.cpp`) | event queue, wait event, pending line | write, read, flush, suspend | readers, wait queues | several readers of one handle | a read is woken and counted |
| VT state machine (`terminal/parser`) | state, parameters, identifier, cached string | ProcessString, ResetState, SetAnsiMode | dispatch engines | sequences split over calls, limits of every buffer | splitting does not matter; a sequence is passed on whole |
| ConPTY connection (`cascadia/TerminalConnection`) | connection state, handles, exit wait, output thread | Start, Close, client exit, final release | console host, client process, terminal control | exit races Close races the output thread | one closer, the exit message last, no use after release, Close returns |
| Throttled functions (`cascadia`), command history (`host`) | pending call; circular history | Run; add, find | dispatcher; readers | small | |
| Text buffer, panes, til containers, engines, settings, UI | see `PROJECT.json` | | | sequential | |

`PROJECT.json` lists every component with the reason why it is modelled or not, and
under `hazards` the places where this code is hard to test.

## 2. Modules

| Module | What it is | Code |
|---|---|---|
| `Spsc` | the channel | `inc/til/spsc.h` |
| `BoundedFifo` | what a channel promises its users | abstract |
| `SpscFifo` | refinement mapping, `ImplementsFifo` | |
| `SpscProof` | proofs about `Spsc`, and that it implements `BoundedFifo` | |
| `RenderThread` | render thread and renderer together | `renderer/base/thread.cpp`, `renderer.cpp` |
| `RenderThreadProof` | proofs about `RenderThread` | |
| `Monarch` | a monarch's data and methods, as operators on a record | `cascadia/Remoting/Monarch.cpp` |
| `WindowManager` | the window processes; composes `Monarch` with WindowManager, Peasant and AppHost | `cascadia/Remoting/*.cpp`, `cascadia/WindowsTerminal/AppHost.cpp` |
| `WindowManagerProof` | proofs about `WindowManager` | |
| `VtIo` | start and shutdown of a console host behind a pseudoconsole | `host/VtIo.cpp`, `PtySignalInputThread.cpp`, `VtInputThread.cpp`, `srvinit.cpp`, `input.cpp`, `interactivity/base/ServiceLocator.cpp`, `renderer/vt/state.cpp` |
| `VtIoProof` | proofs about `VtIo` | |
| `ConptyConnection` | the terminal's side of the pseudoconsole | `cascadia/TerminalConnection/ConptyConnection.cpp`, `winconpty/winconpty.cpp` |
| `ConptyConnectionProof` | proofs about `ConptyConnection` | |
| `StateMachine` | the parser of control sequences | `terminal/parser/stateMachine.cpp` |
| `StateMachineProof` | proofs about `StateMachine` | |
| `ConsoleWait` | blocking calls of clients, with the input buffer and suspended output | `server/Wait*.cpp`, `ApiDispatchers.cpp`, `ObjectHandle.cpp`, `host/inputBuffer.cpp`, `stream.cpp`, `read*.cpp` |
| `ConsoleWaitProof` | proofs about `ConsoleWait` | |
| `Induction` | lemmas on induction, recursive functions and sequences for the proofs | |
| `MCSpsc`, `MCRenderThread`, `MCWindowManager`, `MCVtIo`, `MCConptyConnection`, `MCStateMachine`, `MCConsoleWait` | TLC instances | |

`ConptyConnection` and `VtIo` are the two ends of the same pipes. They are checked apart:
`ConptyConnection` takes of the host what `VtIo` shows of it (`TextBeforeExit`: its text
is sent first; `GracefulCloseExits`: it ends once the signal pipe is closed and the output
read). `VtIo` takes of the render thread the frame, its two events and the console lock;
`RenderThread` has the rest of that thread.

Definitions whose comment begins with "Mutation:" are deliberately wrong versions
of the definition that follows them. They are not used by the specifications; each
property has one that violates it, which shows that the property depends on the code.

### Spsc

Both ends run `arc::acquire` and `arc::release` with "mine" and "theirs" exchanged,
so all state is indexed by side. One action is one access to shared memory:

| Action | Code |
|---|---|
| `Begin` | entry of emplace / push / push_n / pop / pop_n (`remaining`, `blocking`, the wait policy) |
| `Acquire` | the acquire load of the other position (316) with the decisions that follow: `MustWait` (317-331), `Closed` (340), `Range` (350-368) |
| `Wait`, `SpuriousWake` | `theirs.wait(theirPos)`: compare and sleep in one step; a futex may return for no reason |
| `Copy` | constructing, or moving out and destroying, the acquired slots |
| `Store`, `Notify` | the two halves of `release` |
| `DropStore`, `DropNotify`, `DropExchange` | the three steps of `drop`; the second exchange runs `~arc` (`Destroyed`) |

A position's 32 bits are kept as index, revolution and drop flag. Items are numbered
in the order they are pushed; `sent` and `rcvd` count released items and are history.
A call with count 0 returns at once and is left out. The load of the own position at
the start of `acquire` is part of `Acquire`: nobody else writes it.

Memory orders: the model is sequentially consistent. `release`/`acquire` pair up for
the data; the drop flag is stored relaxed to a location that was release-stored
before by the same thread, so whoever sees the flag also sees the index under it.
That the deleting thread sees the payload of the last items is not argued here (it is
a listed hazard).

### RenderThread

One action is one access to a flag or an event, or one pass of an engine under the
console lock. Callers: `Invalidate` (the `Trigger…` methods up to `_NotifyPaintFrame`),
`NotifyLoad`, then `NotifySignal` or `NotifyRequest`. The thread: the loop of
`_ThreadProc` line by line, with `PaintFrame` unfolded into `Attempt`, `PaintEngine`,
`PaintEngineFails`, `PaintEnginePends`, `GiveUp`. `Main` stands for the thread that owns the
renderer: `EnablePainting`, `Disable` + `WaitCompleted`/`WaitTimesOut`, `FinalPaint`
(TriggerTeardown), `Destruct` … `Join` (the two destructors). `stale[e]` says that
something was invalidated since engine `e` last painted; `Scroll` is the viewport check
at the start of every pass. What a pass on a caller's thread may leave (`TriggerCircling`,
`FinalPaint`) follows from the `Outcomes` of a pass (`MayLeave`). `RequestIsPainted`, which the
run `render_lost_request` refutes, is about requests that NotifyPaint stored, not about
content: an invalidation that raises no request is another matter (see the hazards).

`_fKeepRunning` and `_destructing` are plain `bool`s written by one thread and read by
another. The write is followed by a kernel call of the same thread (SetEvent) before
anything depends on it, and every loop iteration calls into the kernel, so a late or
early read is one of the interleavings of the model. `_fWaiting` and
`_fNextFrameRequested` are accessed with acquire/release and read-modify-write
operations that are not reordered against each other on the supported processors.

### Monarch and WindowManager

`Monarch` has the record `[peasants, next, mru]` and the methods as operators; a
lookup yields the set of its possible results, because an `unordered_map` has no
order and only the dead that are met are removed. `GetMostRecentPeasantID` has no
result when the code's loop does not end: it met a list entry whose window is not among
the peasants.

`WindowManager` has one entry per process for everything: where it is between start
and end (`phase`), its place in COM's class table (`seat`), the monarch it knows, its
own Monarch object (used while others refer to it), its peasant, its election thread
(`waiter`), activations on their way (`stamped`) and the last one (`last`, 0 is null).

| Action | Code |
|---|---|
| `Start`, `Connect` | `WindowManager()`: register, find a monarch |
| `ProposeAsKing`, `Propose`, `ProposeFails` | `ProposeCommandline` of the king, of others, and when the monarch is dead |
| `CreateOurPeasant`, `CreateOurPeasantAgain` | `_createOurPeasant`, its loop when the monarch is dead |
| `Watch`, `Elect`, `ElectAdd` | `_waitOnMonarchThread`: wait, then the two calls of `_performElection` |
| `Stamp`, `ActivateWindow` | `AppHost::_WindowActivated`, `Peasant::ActivateWindow` |
| `RequestRename`, `Rename` | the monarch's answer and the peasant's assignment |
| `SummonWindow` | a global hotkey in the king's process |
| `Close`, `Join` | `~WindowManager` up to, and after, joining the election thread |
| `Kill` | a process is killed, at any time |

A call between processes is atomic; processes run and die between calls. External,
modelled from use: COM hands out the class object of the process that registered
first and is still registered (`IsFirst`), and a call to an ended process throws
(`MonarchAlive`). `MonarchFactory` keeps a weak reference, so with no holder left a
process may hand out a new object (`Instances`). `Forget` removes all list entries of
a dead peasant where the code removes the first one: `MruSorted` shows there is at most
one. Not modelled: re-entrant COM calls inside a handler, a peasant that dies between
two calls of one handler of the monarch (the failing `ExecuteCommandline` is), which
desktop a window is on (any subset of the windows may be skipped).

### VtIo

The terminal holds four ends: input, output and signal pipe, and the reference that
keeps the console alive. It may close them in any order. Four threads notice at different
places, and from there on run the same code, so that code is written once for a thread
`t`; `pc[t]` says where `t` is in it, `back[t]` where it returns to. One action lasts until
the thread has to take a lock, wait, or let go of the console lock.

| Action | Code |
|---|---|
| `Connect`, `Disconnect`, `Disconnected`, `Write` | messages on the I/O thread; the last reference goes |
| `Relock`, `StartIfNeeded`, `AskCursor`, `CursorFound` | the rest of the first connection: the console lock is let go of for the window's thread; the engine asks for win32-input-mode and perhaps for the cursor, each with a flush; the answer is read on the I/O thread |
| `InputRead`, `InputReadFails`, `InputBroken`; `SignalResize`, `SignalBroken` | the loops of the input and the signal thread; input ends for a broken pipe, a failing read or input that could not be handled |
| `RenderEnabled`, `RenderWake`, `RenderPaint`, `RenderPainted` | the render thread's loop |
| `StartPaint`, `Flush` | a frame under the console lock (an operator of `RenderPaint` and `FinalPaint`); `VtEngine::_Flush`, which finds the pipe broken and calls CloseOutput |
| `CloseInput`, `CloseOutput` | the two closes under `_shutdownLock`, `_ShutdownIfNeeded` |
| `CloseConsoleProcessState`, `Jiggle`, `ForceCtrlEvents` | the three steps that tell the clients; `EndTask` is one client, which may veto |
| `UnlockConsole` | `UnlockConsole`, whose outermost call runs `ProcessCtrlEvents` |
| `Rundown`, `WaitPaint`, `FinalPaint`, `Terminate` | `RundownAndExit`, `TriggerTeardown`, `TerminateProcess` |
| `TerminalCloses` | the environment |

`ProcessCtrlEvents` leaves the console lock although two callers never entered it, on the
ordinary close path too (`PtySignalInputThread.cpp:212` and `VtIo.cpp:386`, into
`input.cpp:247-279`). `Leave` counts down for whoever calls it, as LeaveCriticalSection does: it
takes an entry from the thread that holds the lock, or leaves a free lock's count below zero;
`LockConsole` of a free lock starts from one entry whatever the count was. Windows calls an
unowned leave an error that may make another thread's EnterCriticalSection wait for ever;
that this does not happen is an **assumption** of the model, and `GracefulCloseExits` rests on it.
That the lock has an owner exactly when its count is positive (`TypeOK`) is not a matter of
course, and a `ProcessCtrlEvents` that keeps the lock on its early return breaks it.

`stage` says how far the start has come; until the renderer has its engine a teardown has
nothing to paint with. `early` and `finals` are history: text written before the first final
paint. Left out: failures of CreateIoHandlers and of starting the input thread; a signal read
that throws (a signal that is cut short ends like a broken pipe, `SignalBroken`); the window's
thread itself, external, which `Relock` waits for; resizing. A terminal that closes the input
pipe after the input thread has already given up changes nothing and is not an action of its
own. Seen while modelling: one thread may take the close event along while another, finding none,
goes on to end the process before the clients are told, against the comment at
`VtIo.cpp:382-385`; an entry taken from the holder lets a second thread paint beside it; and
input that cannot be handled once, on pipes that work, is enough to end the input thread,
after which the loss of the output alone shuts the console down.

### ConptyConnection

Five threads share the object: the caller of Start, the background thread in Close, the
thread-pool callback `_ClientTerminated`, the output thread, and the thread of the final
release.

| Action | Code |
|---|---|
| `StartBegin`, `Create`, `CreateFails`, `StartOutputThread`, `ThreadFails`, `Arm`, `Connect` | `Start` in the order of its calls, with its exit point: nothing was made, the pseudoconsole, or the client too |
| `ExitCallback`, `ExitCheck`, `ExitTransition`, `ExitTake`, `ExitWaitOutput`, `ExitReport` | `_ClientTerminated` |
| `CloseBegin`, `CloseDisarm`, `ClosePipes`, `CloseWaitOutput`, `CloseWaitClient` | `Close` |
| `BreakSignal`, `WaitHost` | `ClosePseudoConsole`, on whichever thread |
| `OutputBegin`, `OutputRead`, `OutputEof`, `OutputReadsEmpty`, `OutputError`, `OutputFails` | `_OutputThread`: it ends at a broken pipe, at an error, and at a successful read that converts to nothing |
| `FinalRelease`, `DestroyBuffers`, `DestroyDisarm`, `DestroyFree` | the destructor; members go in reverse order of declaration: the buffers, the exit wait, the pseudoconsole, handles and pipes |
| `ClientWrites`, `ClientExits`, `HostSends`, `HostExits`, `HostCrashes` | external: client and console host |

`TransitionToState` holds a lock over test and assignment, hence one step. Text is counted
in chunks. `WriteInput` and `Resize` write to pipes and change nothing here. Close is taken
to be called outside Start. `gaveUp` and `late` are history.

Four properties are stated with the exception the code makes, and TLC shows each of them
violated without it:

* `ExitMessageIsLast`: the comment at `:362` says "wait for all output to drain". An output
  thread that gave up does not drain. It gives up not only at an error: a successful read whose
  conversion is empty (`:474-477`: a chunk with only a part of a character, or a read of no
  bytes) ends it as if the pipe had broken, with text still to come.
* `CloseReturns`, `ReleaseEnds`: then the host may have more text than the full pipe takes, and
  nobody reads (`HostBlocked`); whoever closes the pseudoconsole waits for that host. The same
  goes for a connection that was handed over and is closed before Start.
* `NoUseAfterFree`: the comment at `:436-437` says "Keep us alive until the output thread
  terminates". A thread that has not run when the last reference goes (a client that ends at
  once; the callback waits for the thread, Close has nothing to do) takes its reference to an
  object whose `_buffer`, `_u16Str` and `_u8State` go first, before the exit wait holds the
  destructor up (`late`). What follows, a second final release included, is not modelled.

Seen while modelling: after the host crashed the connection stays Connected when the client
lives on (`:449`); Closed may be followed by Failed (`:453`).

### StateMachine

The machine's members are one record `m`, and every action of the code is an operator on
it; `calls` lists what it called on its engine in the last step. Each state's `_Event…`
function is a table of rows (set of characters, action, next state) in the order of the
code's tests, its last row for all that is left; `Event` takes the first row that applies (`FirstRow`), after the
characters that act anywhere (`ProcessPlain`). Characters stand for the classes the code tells apart, and
the engine's answers are free. `Character` takes one
character, printing the run of plain text before it where the code does; `EndOfString` is the
code after the loop of `ProcessString` (the input engine flushes and replays, the output
engine caches); `FlushAtEndOfString` processes the run again with a recursive function. `ResetState` comes between strings, `SetAnsiMode` right after the dispatch
that calls it. `seq`, `rung`, `received`, `printed` are history: what arrived.

Seen while modelling: a BEL inside a sequence makes the output engine pass on the part
of the sequence so far (`rung` exempts such sequences from `WholeSequencePassed`); the replay at
the end of an input string executes control characters a second time; after a flush the
replay looks at the character past an empty run (`stateMachine.cpp:1930`); `ResetState`
inside a DCS string leaves its handler untold. Simplified: the loop over a run that a flush
has set to a null view (`:1923-1928` subtracts one from its end) is taken to make no round;
`FlushToTerminal` passes cached part and run in one call, where the code stops after a first
part that the engine refuses (`:1806-1822`).

### ConsoleWait

What happens under one hold of the console lock is one step. The I/O thread tries a call
under the lock (`ReadLine`, `ReadCharacter`, `ReadPending`, `GetConsoleInput`, `WriteConsole`),
releases it, and then queues the wait block (`CreateWait`); other threads may take the lock
in between (`Write` of an event, `Pause`, `CtrlC`, `CtrlBreak`, `Select`, `ClearSelection`).
`Connect`, `Disconnect`, `CreateObject`, `CloseObject` are the other messages. `q` holds what the
lock protects. `NotifyWaiters` is a recursive function along the queue as it is when it is called,
with `NotifyBlock` for each of its blocks and `Notify` by kind of waiter. A `FAIL_FAST_IF` that is met ends the process: it is noted in `failed`,
and nothing follows.

A read of raw input takes one character, a direct read one event, a line its own buffer.
Left out: coalescing and repeat counts, share modes, peeking, output handles, popups; dragging
the scroll bar as a third reason to hold output (`stream.cpp:808`, set and cleared like
selecting); CONSOLE_READ_NOWAIT, which answers an empty buffer at once instead of waiting
(`ApiDispatchers.cpp:218-228`); a Ctrl+C while processed input is off (`input.cpp:117`), which
is a key like any other. A write's screen buffer is not an object of the model, so what is said
of handles is said of reads. `CreateWait` is one step although its list accesses are unlocked
and its second insertion may fail (a listed hazard).
Closing one handle alerts the reads of all handles, as in the code. Reads have the same
window before they are queued as writes have: a key that comes in it wakes nobody, and the
read is served by the next one.

## 3. Runs

All runs but `parser` have `CHECK_DEADLOCK FALSE`: those systems may stop (the channel is
freed, the renderer destroyed, all windows closed, the process ended, the connection
released, a FAIL_FAST met). The parser may not: `parser` also shows that it always takes
another character or the end of the string.

| Run | Bounds | Shows |
|---|---|---|
| `spsc` | 3 slots, batches up to 4, 7 items (320 thousand states) | seven invariants, the refinement of `BoundedFifo`, two liveness properties. A batch may exceed the ring, the ring goes round more than twice, every fill level and both wait policies meet both destructors |
| `render` | 2 callers, 2 engines, 3 tries, 3 calls, 2 toggles (178 thousand states) | three invariants, three liveness properties. Two calls can race each other and the thread's two checks, the third comes after; the code's own number of tries; disabling, enabling again, teardown |
| `windows` | 3 processes, one name, one given ID, 2 activations, modulo symmetry (1.8 million states) | five invariants. Three processes are the least for a monarch to die while one window elects another that dies as well, and for two survivors to compete |
| `windows_live` | 3 processes, new windows only, 2 activations (220 thousand states, no symmetry) | every window finds a monarch again |
| `vtio` | one client, with and without inheriting the cursor, a window and win32-input-mode, input that fails (523 thousand states) | four invariants and that a graceful close ends the process. The four threads are the code's own; a second client only repeats the loop over the clients that one already makes veto or leave |
| `conpty` | a pipe of one chunk, 3 chunks of text, launched and handed over, every failure of Start and of a read (15 thousand states) | four invariants, two liveness properties. The pipe is full while text waits in the host, so everybody who waits for somebody does |
| `parser` | 20 classes of characters, both engines, values to 50, 2 parameters, 1 intermediate, sequences of 5 (strings of 4), runs of 2 (744 thousand states) | four invariants. Every limit is passed: a value overflows with two digits, a third parameter and a second intermediate fit into a sequence, and every sequence may be cut into strings anywhere |
| `console` | 2 clients, 3 threads, 3 handles, buffer of one character, 2 events (959 thousand states) | three invariants. Two threads of one client share a handle or use two, a third belongs to another process; a line may exceed its buffer; a break or close meets up to three waiters |
| `render_lost_request` | 2 callers, 1 engine | finding: a repaint request is lost between the two checks |
| `vtio_exit` | as `vtio` | finding: the render thread tears the host down from within its own frame and waits for it |
| `console_unblock` | as `console` | finding: output is resumed between trying a write and queueing it; the write stays blocked |
| `console_pending` | as `console` | finding: a second line read of a handle with a pending line is notified and fails fast |

The runs marked "finding" state what a comment or an assertion of the repository says and
TLC finds the code's behaviour to differ; `PROJECT.json` quotes the lines.
`AtMostOneLateFrame` deserves a remark: `WaitForPaintCompletionAndDisable` is documented
to disable rendering, and one frame may still begin after it has returned, because the
thread checks the enabled event before it resets the completed event. The invariant,
and its proof, say that it is never more than one.

Further behaviour of the models that a reader of the code should know, without a run of
its own: an engine that gives up during destruction reports to a renderer whose `_pThread`
is already null (`renderer.cpp`, the error state); a monarch that has just been elected
hands out IDs from 1 and may pick the ID, or grant the name, of a window that has not joined it
yet; a window that was never activated reports null arguments to a new monarch; the search
for the most recent window does not end when it meets an entry whose peasant is not in
`_peasants`, since nothing is removed then and the position stays; a closing process whose election nobody can win waits in its destructor.

### Fairness

* `Spsc`: weak fairness of each side's steps inside an operation or destructor: threads
  are scheduled. No operation has to be called, and no spurious wake-up is assumed.
* `RenderThread`: weak fairness of the thread, of each NotifyPaint that has begun, and
  of Main inside an operation. The engines' results, invalidations and Main's calls
  are free. An engine that is pending for ever is covered by its bounded tries.
* `WindowManager`: weak fairness of each process's main thread and election thread while
  it lives. Nothing makes anybody start, close or die. `WindowsFindMonarch` is stated for
  windows that were activated once: a window that never was reports null arguments.
* `VtIo`: weak fairness of every thread's steps, strong fairness of those that take the
  console lock (a critical section is obtained if it is released again and again). Nothing is
  assumed of the terminal, of the clients, of input that fails, of the window's thread, or of
  the render thread noticing a request.
* `ConptyConnection`: weak fairness of the exit callback, Close, the output thread, the final
  release, ClosePseudoConsole and the host; a client ends once its host is gone. Nothing is
  assumed of Start, of the user, of a client while it has a host, of errors, reads that convert
  to nothing, or crashes.
* `StateMachine`, `ConsoleWait`: none; they are checked for safety only.

## 4. Proofs

Assumptions on the constants: `Capacity` and `MaxBatch` are positive, `MaxItems` is a natural
number (`Spsc`); at least one engine and one try, `Main` is a caller (`RenderThread`);
`NoProc` is no process, given IDs are positive (`WindowManager`); the clients are a finite set
(`VtIo`); the pipe holds at least one chunk (`ConptyConnection`); clients and their threads
are finite, every client has a handle of its connection, a line has room for a character
(`ConsoleWait`); the characters are among the classes of the code, an identifier takes at
least one of them and a sequence at least two parameters, which VT52's `Y` needs
(`StateMachine`; the code allows 7 and 32). Nothing else: any capacity, any number of callers,
engines, tries, processes, clients, threads, handles and chunks of text, sequences and runs of
any length.

The provers do not instantiate induction principles over formulas. `Induction` therefore has
them over sets (`SetInduction`, `SetInductionUpTo`, from the least element that is not in the
set), and `RecursionUpTo`, by which a function defined by recursion along `0 .. N` exists and
can be unfolded. That carries invariants along `NotifyWaiters`, `Retrace`, `TextOf` and the
replay of `FlushAtEndOfString`, and it says of `Only` and `Field`, which define what a sequence
spells, what one more character adds to them.

**Spsc** (`IInv`). No safety property is inductive by itself, since each depends on what the
two positions mean. `PositionsInv`: equal revolution flags mean `sent - rcvd = producer -
consumer`, different ones add the capacity. `AcquisitionInv`: what `acquire` computed from a
stale position stays valid, because the other side only moves away from it. `DataInv`: every
slot holds exactly the item the positions say. `LifetimeInv`, `OperationInv`, `WaitInv` tie
flags, results and sleepers to program counters. One lemma per action, one step per conjunct;
from `Invariance` follow `TypeCorrect`, `Exclusion`, `NothingOverwritten`, `FirstInFirstOut`,
`Bounded`, `DrainBeforeClose`, `DeletedOnce`, `WakeupsArrive`.

`Refinement` is `Spec => ImplementsFifo`. Under `IInv` the sequence that the mapping shows is
the run of the items that were sent and not moved out of their slots (`QueueContent`), so the
producer's `Store` appends, the consumer's `Copy` takes from the front, an `Acquire` that
finds the channel closed tells so, a `DropStore` makes an end leave, the second `DropExchange`
discards what is left, and every other step stutters. `ToldInv` is the one addition: a side
that holds slots has not been told that the channel is closed.

**RenderThread** (`IInv`). `CreditInv` counts: frames begun, the frame owed once a signal or
request is taken, the pending event and the pending request together never exceed the calls.
`QuietInv`: while painting is disabled the thread can only be past the enabled check once.
`RetryInv`: an engine is tried only with tries left. Hence `FramesHaveRequests`,
`OneLateFrame`, `TypeCorrect`.

**WindowManager** (`LineInv`, `MonarchInv`, `LifeInv`). `LineInv`: seats are handed out in
increasing order, never twice, and a king is first in line; a king can only lose its seat,
newcomers queue behind it. Hence `OneKingAtMost`. `MonarchInv` says of each monarch, whoever
still refers to it, that its next ID is above those of all its peasants and that its list of
recent windows has one entry per window and descends. Lookups take out entries of the dead,
which keeps both; an activation takes out the window's entry and inserts the new one behind
all that are later, and counting those finds the place just because the list descends.
`LifeInv`: a process has an ID once its monarch answered, activations and an election only as
a window. Hence `Invariance`, `TypeCorrect`, `IdsStayFresh`, `MruStaysSorted`.
`WindowsStayTracked` needs more than an invariant of one monarch: an ID never changes once it
is given (`IdsLast`), a monarch forgets only the dead (`ForgetKeeps`, `LookupKeeps`), and only
a process with the same ID can take a window's place in the map. Three theorems say what no
step does: `IdsNeverChange`, `CrownStays` (from `LineInv`: a king that looks for a monarch again
is first in line and finds itself) and `IdsCountUp` (every operation on a monarch, and meeting one
that others refer to, keeps or raises its next ID).

**VtIo** (`IInv`). `Starting` and `Startup`: what exists, and where a thread can be, at each
stage of the first connection, while the cursor position is awaited, and once the engine is
gone. `Entered`: the console lock is entered at most as deep as the program counter of a thread
that could own it says (`Depth`), which bounds the count although anybody may count it down.
`Shutdown`: the pipe breaks once, so the output is closed once, and whoever keeps
`_shutdownLock` is past that; hence no thread asks for the lock it holds, although the final
paint under it flushes. `RenderLast`: the render thread is in the shutdown only with the input
thread gone and the output pipe broken: the terminal closed both, or closed the output after
input had failed. `Painted`: text
from before a final paint is unpainted only until that paint, or for ever with a broken pipe.
From `ShutdownOrder` follow `TypeCorrect`, `NothingUnpainted`, `LockedOnce`, `RenderTeardown`.

**ConptyConnection** (`IInv`). The safety of the object rests on who has awaited whom, so the
invariant says just that: `Control` (where each thread can be and returns to), `StartFirst`
(nothing before Start has made it possible), `ReleaseOrder` (the control lets go when Close is
over, the destructor follows), `CallbackOver` (past the wait for the exit callback there is
none), `OutputAwaited` (the output thread's handle is given away only to wait for it),
`Referenced` (a thread that reads holds a reference, so the destructor meets an output thread
that is over or had not begun), `Drained` (an output thread that did not give up ends only when
pipe and host are empty). From
`WaitingOrder` follow `TypeCorrect`, `ClosedByOne`, `MessageAfterText`, `DestroyedWhenIdle`.
`ClosedForGood` is about steps: a Closed connection is made Failed by nobody but a failing output
thread. The exit callback checks the state and moves it later; `NoLateVerdict` says that Close
is not over in between, since it waits for the callback first.

**ConsoleWait** (`IInv`). `Sound(x, held)` speaks of the data under the console lock: each
block is once in its process's queue and once in the queue it waits in (`QueuesInv`), a handle
counts the reads through it (`CountInv`, by cardinality), the line that is being edited
belongs to a line read (`CookedInv`), and stored input has its event set (`InputInv`). `held`
is the call that was tried and is not queued yet: it is in no queue, though the lock was
released. Every operation gets a lemma, sound data in and sound data out; `NotifyWaiters` is
an induction along the queue as it was, whose steps take blocks out of the queue as it is.
`Owned` ties calls to attached processes and open handles. Hence `TypeCorrect`,
`WaitsStayConsistent`, `NobodyLeftBehind`.

**StateMachine** (`IInv`). The proof reads the tables once: `TableFits` says of each state's
first row for a character what it may do (parameters only behind an introducer, printing only
on the ground, VT52 only outside ANSI mode). From there on a character is its `Effect`: the
calls it makes, that whatever it passes through is `cached \o run`, and that the cached part
is lost only by being passed, or at the ground. The invariant has `Sound` (limits; a handler
for a DCS string; nothing cached on the ground), `RunInv` and `TextInv` (text is skipped over
on the ground only, and the run is what is not printed yet), `SequenceInv` (the sequence is
the cached part and the run) and `ReplayInv`: the run of an input engine leads from the ground
to the machine's state and never back to the ground on the way. The last one is why processing
it again in `FlushAtEndOfString` prints nothing and ends in the states it went through; it
holds up to what the engine answers to a DCS, which may differ the second time. Hence
`TypeCorrect`, `TextStaysInOrder`, `SequencesPassedWhole`.

`DataMatchesSequence` compares what is dispatched with what the characters since the last
introducer spell, read all at once; the machine reads them one by one. `DataInv` closes the gap:
in every state that reads data (`Reads`) the machine holds what the characters so far say, the
parameter that is still being typed and the limit that was reached included, and in the states
before an introducer it holds nothing. Two kinds of lemma carry it. Those about the reference
say what one more character does to `Only`, `Field`, `Fields`, `Identifier` and the place of the
introducer; saturating digit by digit (`AccumulateTo`) is the same as capping the sum
(`FilledFurther`, `CollectReads`, `OscReadFurther`). Those about the tables (`Leads`) say which
state a character leads to and that it did there what the reference expects: clearing at an
introducer, a parameter for a digit or a delimiter, nothing for what is ignored. The end of a
string leaves the machine on the ground, where it claims nothing, or as it was; what the replay
there dispatches is not part of the property. Hence `DataInvariance` and `DispatchedAsWritten`.
TLC checked `DataInv` on the instance of the run `parser` before it
was proved.

Every invariant and the refinement that the passing runs check are proved. Only model-checked is
liveness under fairness, which is out of the prover's reach: `PeerGoneUnblocks`,
`SleeperServed`, `SignalIsPainted`, `TeardownReturns`, `DestructorReturns`,
`WindowsFindMonarch`, `GracefulCloseExits`, `CloseReturns`, `ReleaseEnds`.

## 5. Plan

Done: the channel, the render thread, the window processes, the shutdown of the console
host, the ConPTY connection, the parser, the blocking calls. Next, most important first:

1. Proofs: more action properties, such as that a wait block is completed at most once.
2. `ThrottledFunc`: a pending argument, a timer and a dispatcher.
3. `ConsoleWait`: share modes and output handles.
4. `CommandHistory` and the text buffer's circular first row, against reference definitions.

## 6. Not modelled

The repository has some 420 thousand lines, most of them outside the interactions this project
is about: vendored libraries (`dep`, `oss`), tests, drawing (DirectX, GDI, VT and WDDM
engines), the XAML user interface, the settings model and its editor, the property sheet,
TSF, UI Automation and tools. They present or parse; their correctness is a matter of
values, not of orders of events. The models cover the code where threads, processes and
split input meet, which is a small share of the lines.

The text buffer, the VT adapter and the console API are sequential under the console lock,
apart from the blocking calls, which are in `ConsoleWait`; parts of them are candidates for
bounded checks.
