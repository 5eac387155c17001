---------------------------- MODULE ConsoleWait ----------------------------
(***************************************************************************)
(* The console server's waits: calls of clients that cannot be answered at  *)
(* once (src/src/server/WaitQueue.cpp, WaitBlock.cpp, ApiDispatchers.cpp),  *)
(* the handles and processes they belong to (ObjectHandle.cpp,              *)
(* ProcessHandle.h, ProcessList.cpp), the input they wait for               *)
(* (src/src/host/inputBuffer.cpp, stream.cpp, read*.cpp) and the suspension *)
(* of output (_stream.cpp, writeData.cpp, input.cpp).                       *)
(*                                                                          *)
(* The I/O thread serves one message at a time.  It tries a call under the  *)
(* console lock, releases the lock, and only then puts the wait block into  *)
(* the queues (s_CreateWait); in between, the input and window threads may  *)
(* take the lock.  What is done under one hold of the lock is one step.     *)
(***************************************************************************)
EXTENDS Integers, Sequences, FiniteSets, FiniteSetsExt

CONSTANTS
  Clients,     \* processes
  Threads,     \* pairs of a process and a number; each has at most one call
  Handles,     \* of input: pairs of a process and "connect" or "created"
  UserBuffer,  \* characters that fit the buffer of a cooked read, with the line end
  MaxEvents,   \* bound: events in the input buffer
  Null         \* the null pointer

ASSUME ConstantsAssumption ==
  /\ Clients # {} /\ IsFiniteSet(Clients)
  /\ Threads \subseteq Clients \X Nat /\ IsFiniteSet(Threads)
  /\ Handles \subseteq Clients \X {"connect", "created"}
  /\ Clients \X {"connect"} \subseteq Handles
  /\ UserBuffer \in Nat \ {0} /\ MaxEvents \in Nat
  /\ Null \notin Threads /\ Null \notin Handles

Kinds == {"raw", "cooked", "direct", "write"}
ReadKinds == Kinds \ {"write"}
NoCall == [kind |-> "none", handle |-> Null]

\* A key that types a character, the one that ends a line, a key that goes up, and the
\* events of other devices (mouse, focus, window size)
Events == {"key", "enter", "keyUp", "mouse"}
KeysDown == {"key", "enter"}

\* FAIL_FAST_IFs of this code: a reader that is not counted or has a pending line is
\* notified, a waiter survives its process, a read is left when its handle is closed
Assertions == {"uncounted", "pending", "survives", "left"}

\* CONSOLE_SUSPENDED and CONSOLE_SELECTING
HoldReasons == {"suspended", "selecting"}

VARIABLES
  q,         \* what the lock protects; see Init
  attached,  \* the process list
  opened,    \* handles that exist
  lineMode,  \* ENABLE_LINE_INPUT
  flags,     \* gci.Flags: why output is held
  io         \* the call whose wait block the I/O thread is about to queue

vars == <<q, attached, opened, lineMode, flags, io>>

Init ==
  /\ q = [storage |-> <<>>,                          \* the input buffer's events,
          signalled |-> FALSE,                       \* ... and hInputEvent
          inQ |-> <<>>,                              \* the input buffer's wait queue
          outQ |-> <<>>,                             \* gci.OutputQueue
          procQ |-> [c \in Clients |-> <<>>],        \* pWaitBlockQueue
          call |-> [t \in Threads |-> NoCall],       \* the waiter
          line |-> [t \in Threads |-> 0],            \* ... and what it has of a line
          pending |-> [h \in Handles |-> FALSE],     \* _isInputPending
          readCount |-> [h \in Handles |-> 0],
          cooked |-> Null,                           \* gci's cooked read data
          failed |-> {}]                             \* FAIL_FAST_IFs that were met
  /\ attached = {} /\ opened = {}
  /\ lineMode = TRUE
  /\ flags = {}
  /\ io = Null
-----------------------------------------------------------------------------
(***************************************************************************)
(* The input buffer                                                         *)
(***************************************************************************)

\* Read: the event is reset by the read that takes the last one.
Consume(x, n) ==
  LET rest == SubSeq(x.storage, n + 1, Len(x.storage)) IN
    [x EXCEPT !.storage = rest, !.signalled = IF n > 0 /\ rest = <<>> THEN FALSE ELSE @]

Flush(x) == [x EXCEPT !.storage = <<>>, !.signalled = FALSE]

\* The event stays as it is.
KeepUnlessMouse(kept, event) == IF event = "mouse" THEN kept ELSE Append(kept, event)

FlushAllButKeys(x) ==
  LET kept[n \in 0 .. Len(x.storage)] ==
        IF n = 0 THEN <<>> ELSE KeepUnlessMouse(kept[n - 1], x.storage[n])
  IN [x EXCEPT !.storage = kept[Len(x.storage)]]

\* _WriteBuffer: only the first event in an empty buffer sets the event.
Store(x, event) ==
  [x EXCEPT !.storage = Append(@, event), !.signalled = @ \/ x.storage = <<>>]

\* GetChar: skips what is no character.
Characters(x) == {i \in DOMAIN x.storage : x.storage[i] \in KeysDown}
Enters(x) == {i \in DOMAIN x.storage : x.storage[i] = "enter"}
-----------------------------------------------------------------------------
(***************************************************************************)
(* Waiters: construction, destruction and the reads they do                 *)
(***************************************************************************)

\* Mutation: a read is not counted.
ConstructUncounted(x, t, kind, h) ==
  [x EXCEPT !.call[t] = [kind |-> kind, handle |-> h], !.line[t] = 0]

\* ReadData's constructor and destructor count the reads of a handle.
Count(counts, c, by) ==
  IF c.kind = "write" THEN counts ELSE [counts EXCEPT ![c.handle] = @ + by]

Construct(x, t, kind, h) ==
  LET c == [kind |-> kind, handle |-> h] IN
    [x EXCEPT !.call[t] = c, !.line[t] = 0, !.readCount = Count(@, c, 1)]

\* erase of the iterator a block keeps for its place in a queue, if it is in there
Unlink(queue, t) ==
  IF \A i \in DOMAIN queue : queue[i] # t THEN queue
  ELSE LET k == CHOOSE i \in DOMAIN queue : queue[i] = t
       IN SubSeq(queue, 1, k - 1) \o SubSeq(queue, k + 1, Len(queue))

\* ~ConsoleWaitBlock takes the block out of both queues, ~ReadData counts down.
Destroy(x, t) ==
  [x EXCEPT !.inQ = Unlink(@, t), !.outQ = Unlink(@, t), !.procQ[t[1]] = Unlink(@, t),
            !.call[t] = NoCall, !.line[t] = 0, !.readCount = Count(@, x.call[t], -1)]

\* A reader's answer: the state it leaves, and whether the call is completed
Wait(x) == [x |-> x, done |-> FALSE]
Done(x) == [x |-> x, done |-> TRUE]

\* _ReadCharacterInput and RAW_READ_DATA: one character, or none and all is read.
RawRead(x) ==
  IF Characters(x) = {} THEN Wait(Consume(x, Len(x.storage))) ELSE Done(Consume(x, Min(Characters(x))))

\* COOKED_READ_DATA::Read: characters up to the end of the line.  What does not fit
\* the buffer of the client stays pending with the handle.
CookedRead(x, t) ==
  IF Enters(x) = {}
    THEN LET typed == x.line[t] + Cardinality(Characters(x))
         IN Wait([Consume(x, Len(x.storage)) EXCEPT !.line[t] = Min({typed, UserBuffer})])
    ELSE LET end == Min(Enters(x))
             typed == x.line[t] + Cardinality(Characters(x) \cap 1 .. end)
             h == x.call[t].handle
         IN Done([Consume(x, end) EXCEPT !.cooked = Null,
                                         !.pending[h] = @ \/ typed > UserBuffer])

\* _DoGetConsoleInput, which waits for an event
DirectRead(x) == IF x.storage = <<>> THEN Wait(x) ELSE Done(Consume(x, 1))

\* Keys interrupt a line only; a break also a raw read.
Ignores(kind, reason) ==
  \/ reason = "CtrlC" /\ kind \in {"raw", "direct"}
  \/ reason = "CtrlBreak" /\ kind = "direct"

\* A waiter gives up; a cooked read takes back the pointer to itself.
GiveUp(x, kind) == Done(IF kind = "cooked" THEN [x EXCEPT !.cooked = Null] ELSE x)

\* IWaitRoutine::Notify of each kind of waiter.  A direct read that is woken up is
\* content with nothing.
Notify(x, t, reason) ==
  LET kind == x.call[t].kind IN
    IF Ignores(kind, reason) THEN Wait(x)
    ELSE IF reason # "none" \/ kind = "write" THEN GiveUp(x, kind)
    ELSE IF kind = "raw" THEN RawRead(x)
    ELSE IF kind = "cooked" THEN CookedRead(x, t)
    ELSE Done(Consume(x, Min({1, Len(x.storage)})))

\* FAIL_FAST_IF: the console process ends.
FailFastIf(x, condition, assertion) ==
  [x EXCEPT !.failed = IF condition THEN @ \cup {assertion} ELSE @]

\* The assertions at the head of the readers' Notify
Asserted(x, t) ==
  LET c == x.call[t]
      counted == FailFastIf(x, c.kind \in ReadKinds /\ x.readCount[c.handle] = 0, "uncounted")
  IN FailFastIf(counted, c.kind = "cooked" /\ x.pending[c.handle], "pending")

\* ConsoleWaitBlock::Notify and _NotifyBlock
NotifyBlock(x, t, reason) ==
  LET answer == Notify(Asserted(x, t), t, reason) IN
    IF answer.done THEN Destroy(answer.x, t)
    ELSE FailFastIf(answer.x, reason = "ThreadDying", "survives")

\* NotifyWaiters: all of the queue or its first block
NotifyWaiters(x, queue, all, reason) ==
  LET after[n \in 0 .. Len(queue)] ==
        IF n = 0 THEN x ELSE NotifyBlock(after[n - 1], queue[n], reason)
  IN after[IF all \/ queue = <<>> THEN Len(queue) ELSE 1]

\* Mutation: only the first reader is told that the handle closes.
CloseInputHandleWakesOne(x, h) ==
  LET completed == [x EXCEPT !.pending[h] = FALSE]
      woken == IF x.readCount[h] = 0 THEN completed
               ELSE NotifyWaiters(completed, x.inQ, FALSE, "HandleClosing")
      closed == FailFastIf(woken, woken.readCount[h] > 0, "left")
  IN IF opened = {h} THEN Flush(closed) ELSE closed

\* _CloseInputHandle, but for the handle itself
CloseInputHandle(x, h) ==
  LET completed == [x EXCEPT !.pending[h] = FALSE]
      woken == IF x.readCount[h] = 0 THEN completed
               ELSE NotifyWaiters(completed, x.inQ, TRUE, "HandleClosing")
      closed == FailFastIf(woken, woken.readCount[h] > 0, "left")
  IN IF opened = {h} THEN Flush(closed) ELSE closed
-----------------------------------------------------------------------------
(***************************************************************************)
(* The I/O thread                                                           *)
(***************************************************************************)

Running == q.failed = {}

\* The I/O thread is between two messages.
Idle == Running /\ io = Null

\* ConsoleHandleConnectionRequest, ConsoleCreateObject (for input)
Connect(c) ==
  /\ Idle /\ c \notin attached /\ <<c, "connect">> \notin opened
  /\ attached' = attached \cup {c}
  /\ opened' = opened \cup {<<c, "connect">>}
  /\ UNCHANGED <<q, lineMode, flags, io>>

CreateObject(c) ==
  /\ Idle /\ c \in attached /\ <<c, "created">> \in Handles \ opened
  /\ opened' = opened \cup {<<c, "created">>}
  /\ UNCHANGED <<q, attached, lineMode, flags, io>>

\* ConsoleCloseObject; the driver closes what a dead client created, too.
CloseObject(h) ==
  /\ Idle /\ h \in opened /\ h[2] = "created"
  /\ q' = CloseInputHandle(q, h)
  /\ opened' = opened \ {h}
  /\ lineMode' = IF opened = {h} THEN TRUE ELSE lineMode
  /\ UNCHANGED <<attached, flags, io>>

\* Mutation: the calls of a process that ends are left in the queues.
DisconnectLeavesCalls(c) ==
  LET h == <<c, "connect">> IN
    /\ Idle /\ c \in attached
    /\ q' = CloseInputHandle(q, h)
    /\ attached' = attached \ {c}
    /\ opened' = opened \ {h}
    /\ lineMode' = IF opened = {h} THEN TRUE ELSE lineMode
    /\ UNCHANGED <<flags, io>>

\* RemoveConsole: ~ConsoleProcessHandle destroys the input handle and then the queue.
Disconnect(c) ==
  LET h == <<c, "connect">>
      closed == CloseInputHandle(q, h)
  IN /\ Idle /\ c \in attached
     /\ q' = NotifyWaiters(closed, closed.procQ[c], TRUE, "ThreadDying")
     /\ attached' = attached \ {c}
     /\ opened' = opened \ {h}
     /\ lineMode' = IF opened = {h} THEN TRUE ELSE lineMode
     /\ UNCHANGED <<flags, io>>

\* A call that was tried: it is completed, or its waiter goes on to s_CreateWait.
Tried(t, answer) ==
  /\ q' = IF answer.done THEN Destroy(answer.x, t) ELSE answer.x
  /\ io' = IF answer.done THEN io ELSE t
  /\ UNCHANGED <<attached, opened, lineMode, flags>>

Callable(t, h) ==
  Idle /\ t[1] \in attached /\ h[1] = t[1] /\ h \in opened /\ q.call[t] = NoCall

\* ServerReadConsole: what is left of the last line, a line, or a character
ReadPending(t, h, rest) ==
  /\ Callable(t, h) /\ q.pending[h]
  /\ q' = [q EXCEPT !.pending[h] = rest]
  /\ UNCHANGED <<attached, opened, lineMode, flags, io>>

ReadLine(t, h) ==
  /\ Callable(t, h) /\ ~q.pending[h] /\ lineMode
  /\ Tried(t, CookedRead([Construct(q, t, "cooked", h) EXCEPT !.cooked = t], t))

ReadCharacter(t, h) ==
  /\ Callable(t, h) /\ ~q.pending[h] /\ ~lineMode
  /\ Tried(t, RawRead(Construct(q, t, "raw", h)))

\* ServerGetConsoleInput
GetConsoleInput(t, h) ==
  /\ Callable(t, h)
  /\ Tried(t, DirectRead(Construct(q, t, "direct", h)))

\* ServerWriteConsole, DoWriteConsole
WriteConsole(t) ==
  /\ Idle /\ t[1] \in attached /\ q.call[t] = NoCall
  /\ flags # {}
  /\ Tried(t, Wait(Construct(q, t, "write", Null)))

\* s_CreateWait, without the console lock
CreateWait ==
  LET t == io
      queued == [q EXCEPT !.procQ[t[1]] = Append(@, t)]
  IN /\ Running /\ io # Null
     /\ q' = IF q.call[t].kind = "write" THEN [queued EXCEPT !.outQ = Append(@, t)]
             ELSE [queued EXCEPT !.inQ = Append(@, t)]
     /\ io' = Null
     /\ UNCHANGED <<attached, opened, lineMode, flags>>

\* SetConsoleMode, FlushConsoleInputBuffer and SetActiveScreenBuffer, by a client
SetLineMode(on) ==
  /\ Idle /\ attached # {}
  /\ lineMode' = on
  /\ UNCHANGED <<q, attached, opened, flags, io>>

FlushConsoleInputBuffer ==
  /\ Idle /\ attached # {}
  /\ q' = Flush(q)
  /\ UNCHANGED <<attached, opened, lineMode, flags, io>>

SetActiveScreenBuffer ==
  /\ Idle /\ attached # {}
  /\ q' = FlushAllButKeys(q)
  /\ UNCHANGED <<attached, opened, lineMode, flags, io>>
-----------------------------------------------------------------------------
(***************************************************************************)
(* The input and window threads, under the console lock                     *)
(***************************************************************************)

\* UnblockWriteConsole
Unblock(x, reason) ==
  /\ flags' = flags \ {reason}
  /\ q' = IF flags \subseteq {reason} THEN NotifyWaiters(x, x.outQ, TRUE, "none") ELSE x

\* InputBuffer::Write of one event; a key resumes suspended output and is swallowed.
\* One reader is woken up.
Write(event) ==
  /\ Running /\ Len(q.storage) < MaxEvents
  /\ IF event \in KeysDown /\ "suspended" \in flags
       THEN Unblock(q, "suspended")
       ELSE /\ q' = NotifyWaiters(Store(q, event), q.inQ, FALSE, "none")
            /\ UNCHANGED flags
  /\ UNCHANGED <<attached, opened, lineMode, io>>

\* The pause key, in line mode
Pause ==
  /\ Running /\ lineMode
  /\ flags' = flags \cup {"suspended"}
  /\ UNCHANGED <<q, attached, opened, lineMode, io>>

\* HandleGenericKeyEvent: Ctrl+C and Ctrl+Break terminate reads; when output is
\* suspended they also count as a key.
TerminateRead(x, reason) ==
  /\ Running
  /\ LET woken == NotifyWaiters(x, x.inQ, TRUE, reason) IN
       IF "suspended" \in flags THEN Unblock(woken, "suspended")
       ELSE q' = woken /\ UNCHANGED flags
  /\ UNCHANGED <<attached, opened, lineMode, io>>

CtrlC == TerminateRead(q, "CtrlC")
CtrlBreak == TerminateRead(Flush(q), "CtrlBreak")

\* A selection holds output as well.
Select ==
  /\ Running
  /\ flags' = flags \cup {"selecting"}
  /\ UNCHANGED <<q, attached, opened, lineMode, io>>

ClearSelection ==
  /\ Running /\ "selecting" \in flags
  /\ Unblock(q, "selecting")
  /\ UNCHANGED <<attached, opened, lineMode, io>>
-----------------------------------------------------------------------------
IoThread ==
  \/ \E c \in Clients : Connect(c) \/ CreateObject(c) \/ Disconnect(c)
  \/ \E h \in Handles : CloseObject(h)
  \/ \E t \in Threads, h \in Handles :
       \/ \E rest \in BOOLEAN : ReadPending(t, h, rest)
       \/ ReadLine(t, h)
       \/ ReadCharacter(t, h)
       \/ GetConsoleInput(t, h)
  \/ \E t \in Threads : WriteConsole(t)
  \/ CreateWait
  \/ \E on \in BOOLEAN : SetLineMode(on)
  \/ FlushConsoleInputBuffer
  \/ SetActiveScreenBuffer

User ==
  \/ \E event \in Events : Write(event)
  \/ Pause \/ CtrlC \/ CtrlBreak \/ Select \/ ClearSelection

Next == IoThread \/ User

Spec == Init /\ [][Next]_vars
-----------------------------------------------------------------------------
(***************************************************************************)
(* Properties                                                               *)
(***************************************************************************)

Calls ==
  {NoCall} \cup [kind : ReadKinds, handle : Handles] \cup [kind : {"write"}, handle : {Null}]

Locked ==
  [storage : Seq(Events), signalled : BOOLEAN,
   inQ : Seq(Threads), outQ : Seq(Threads), procQ : [Clients -> Seq(Threads)],
   call : [Threads -> Calls], line : [Threads -> 0 .. UserBuffer],
   pending : [Handles -> BOOLEAN], readCount : [Handles -> Nat],
   cooked : Threads \cup {Null}, failed : SUBSET Assertions]

\* Every component of the state has its type: every queue of a process has its threads
\* only, and a handle never counts more reads than there are threads.
TypeOK ==
  /\ q \in Locked /\ Len(q.storage) <= MaxEvents
  /\ \A c \in Clients : \A i \in DOMAIN q.procQ[c] : q.procQ[c][i][1] = c
  /\ \A h \in Handles : q.readCount[h] <= Cardinality(Threads)
  /\ attached \subseteq Clients /\ opened \subseteq Handles
  /\ lineMode \in BOOLEAN /\ flags \subseteq HoldReasons /\ io \in Threads \cup {Null}

\* Whoever waits is found by what he waits for.  A wait block outlives neither the
\* process nor the handle that it points to, is in both of its queues or in neither,
\* once, and a handle's read count is the number of reads that wait through it; the
\* pointer to the pending cooked read, which selection and window code follow, is null
\* or points to a read that is waiting; and a client that waits for the event of the
\* input handle instead is not left waiting while there is input.
WaitsAreConsistent ==
  /\ \A t \in Threads :
       LET c == q.call[t]
           In(queue) == Cardinality({i \in DOMAIN queue : queue[i] = t})
           queued == IF c = NoCall \/ t = io THEN 0 ELSE 1
       IN /\ In(q.procQ[t[1]]) = queued
          /\ In(q.inQ) = IF c.kind \in ReadKinds THEN queued ELSE 0
          /\ In(q.outQ) = IF c.kind = "write" THEN queued ELSE 0
          /\ c # NoCall => t[1] \in attached
          /\ c.kind \in ReadKinds => c.handle \in opened
  /\ \A h \in Handles : q.readCount[h] = Cardinality({t \in Threads : q.call[t].handle = h})
  /\ q.cooked # Null => q.call[q.cooked].kind = "cooked"
  /\ q.storage # <<>> => q.signalled

\* No read is left behind: a waiter that is notified is counted by its handle
\* (read*.cpp), none refuses to die with its process (WaitBlock.cpp), and none is left
\* when its handle is closed (ObjectHandle.cpp).
NoReadLeftBehind == q.failed \subseteq {"pending"}

\* FAIL_FAST_IF(_pInputReadHandleData->IsInputPending()) of COOKED_READ_DATA::Notify: a
\* read of a line is never notified while its handle has the rest of another line.
NoPendingLine == "pending" \notin q.failed

\* "There is no longer any reason to suspend output, so unblock it"
\* (UnblockWriteConsole): no write is left in the queue once nothing holds output.
NoReasonNoWait == flags = {} => q.outQ = <<>>
-----------------------------------------------------------------------------
(***************************************************************************)
(* The inductive invariant behind the properties                            *)
(***************************************************************************)

Has(queue, t) == \E i \in DOMAIN queue : queue[i] = t
Distinct(queue) == \A i, j \in DOMAIN queue : queue[i] = queue[j] => i = j

\* A call is in its queues, but for the one that is being tried.
InQueue(x, held, t) == x.call[t] # NoCall /\ t # held

\* Each block is in the queues where it belongs, once.
QueuesInv(x, held) ==
  /\ Distinct(x.inQ) /\ Distinct(x.outQ)
  /\ \A c \in Clients : Distinct(x.procQ[c]) /\ \A i \in DOMAIN x.procQ[c] : x.procQ[c][i][1] = c
  /\ \A t \in Threads :
       /\ Has(x.procQ[t[1]], t) <=> InQueue(x, held, t)
       /\ Has(x.inQ, t) <=> InQueue(x, held, t) /\ x.call[t].kind \in ReadKinds
       /\ Has(x.outQ, t) <=> InQueue(x, held, t) /\ x.call[t].kind = "write"

Reads(x, h) == {t \in Threads : x.call[t].handle = h}

CountInv(x) == \A h \in Handles : x.readCount[h] = Cardinality(Reads(x, h))

CookedInv(x) == x.cooked # Null => x.call[x.cooked].kind = "cooked"

InputInv(x) == (x.storage # <<>> => x.signalled) /\ Len(x.storage) <= MaxEvents

\* What the lock protects is sound, at every point of a handler that holds the lock.
Sound(x, held) ==
  /\ x \in Locked /\ QueuesInv(x, held) /\ CountInv(x) /\ CookedInv(x) /\ InputInv(x)
  /\ held # Null => x.call[held] # NoCall

\* Every call is one of an attached process, through a handle that exists.
Owned(x, processes, handles) ==
  \A t \in Threads :
    /\ x.call[t] # NoCall => t[1] \in processes
    /\ x.call[t].kind \in ReadKinds => x.call[t].handle \in handles

OthersTyped ==
  /\ attached \subseteq Clients /\ opened \subseteq Handles
  /\ lineMode \in BOOLEAN /\ flags \subseteq HoldReasons /\ io \in Threads \cup {Null}

\* The strengthening that makes the safety properties inductive.
IInv ==
  /\ OthersTyped
  /\ Sound(q, io)
  /\ Owned(q, attached, opened)
  /\ q.failed \subseteq {"pending"}
=============================================================================
