----------------------------- MODULE VtIoProof -----------------------------
(***************************************************************************)
(* Proofs about VtIo: its invariants hold for every set of clients.         *)
(***************************************************************************)
EXTENDS VtIo, TLAPS

\* t is ending the process, from _ShutdownIfNeeded, _Shutdown or ConsoleIoThread on.
Down(t) ==
  \/ pc[t] \in {"closeState", "jiggle", "events", "rundown", "waitPaint", "finalPaint", "terminate"}
  \/ /\ pc[t] \in {"flush", "closeOutput", "unlock", "endTask"}
     /\ back[t] \in {"events", "rundown", "terminate"}

\* t has painted for the last time.
Ended(t) ==
  \/ pc[t] = "terminate"
  \/ pc[t] \in {"closeOutput", "unlock", "endTask"} /\ back[t] = "terminate"

\* CreateIoHandlers was called, and the renderer has its engine.
Made == stage \in {"engine", "running"}

\* The start happens in one message of the I/O thread.
Starting ==
  /\ \A t \in Threads :
       /\ pc[t] \in {"askCursor", "cursor", "relock", "startIfNeeded"} => t = "io"
       /\ back[t] = "relock" => t = "io" /\ stage = "renderer"
       /\ back[t] \in {"askCursor", "cursor"} => t = "io" /\ stage = "engine"
  /\ stage = "renderer" <=>
       \/ pc["io"] \in {"relock", "startIfNeeded"}
       \/ (pc["io"] \in {"unlock", "endTask"} /\ back["io"] = "relock")
  /\ stage = "engine" <=>
       \/ pc["io"] \in {"askCursor", "cursor"}
       \/ (pc["io"] \in {"flush", "closeOutput"} /\ back["io"] \in {"askCursor", "cursor"})

\* It is over before the input thread runs and before there is anything to paint.
Startup ==
  /\ \A c \in Clients : client[c] = "attached" => stage # "none"
  /\ enabled => stage # "none"
  /\ \A t \in Threads :
       /\ pc[t] \in {"asleep", "lockPaint", "waitPaint", "finalPaint"} => stage # "none"
       /\ pc[t] \in {"flush", "closeOutput"} => Made
  /\ stage = "engine" => inputThread
  /\ pc["input"] # "read" => stage = "running"
  /\ unpainted => Made
  /\ Made /\ ~engine => pipeBroken

\* The pipe breaks once, so that the output is closed once, and whoever holds
\* _shutdownLock is ending the process after that.
Shutdown ==
  /\ \A t \in Threads : pc[t] = "closeOutput" => pipeBroken
  /\ shutdownLock # None => pipeBroken
  /\ \A t \in Threads : shutdownLock = t => Down(t) /\ pc[t] # "closeOutput"

\* How often t is in the console lock at most, when it owns it: only a shutdown that
\* began under the lock, by closing the output, enters it twice.
Depth(t) ==
  IF pc[t] \in {"read", "top", "asleep", "lockPaint", "painted", "relock", "endTask", "closeInput",
               "exited"} THEN 0
  ELSE IF pc[t] \in {"startIfNeeded", "askCursor", "cursor", "closeOutput", "terminate"} THEN 1
  ELSE IF pc[t] \in {"flush", "unlock"}
         THEN IF pipeBroken /\ back[t] \in {"events", "terminate"} THEN 2 ELSE 1
  ELSE IF pipeBroken THEN 1 ELSE 0

Entered == \A t \in Threads : lock.owner = t => lock.count <= Depth(t)

\* The render thread ends the process only when neither pipe serves any more.
RenderLast ==
  /\ pipeBroken => "out" \notin open
  /\ \A t \in Threads : pc[t] = "closeInput" => t = "input" /\ ("in" \notin open \/ exitRequested)
  /\ Made /\ ~inputThread => "in" \notin open \/ exitRequested
  /\ Down("render") => Made /\ ~inputThread /\ pipeBroken

\* After a final paint nothing from before it is unpainted, unless the pipe is broken.
Painted ==
  /\ early => unpainted
  /\ \A t \in Threads : pc[t] = "flush" /\ back[t] = "terminate" => finals
  /\ \A t \in Threads : Ended(t) => finals /\ (pipeBroken \/ ~early)
  /\ terminated => finals /\ (pipeBroken \/ ~early)

IInv == TypeOK /\ Starting /\ Startup /\ Shutdown /\ Entered /\ RenderLast /\ Painted
-----------------------------------------------------------------------------
(***************************************************************************)
(* One lemma for each step: the invariant is inductive                      *)
(***************************************************************************)
USE DEF Threads, None, Ends, startup, vtio, events, ctrl, text, Goto, Call, Jump, Down, Ended, Made

\* A client is told; t goes on when it has told all of them.
LEMMA EndTaskStep ==
  ASSUME NEW t \in Threads, NEW c \in Clients, NEW ok \in BOOLEAN, IInv, EndTask(t, c, ok)
  PROVE  IInv'
<1> USE DEF IInv, TypeOK, EndTask
<1>1. ThreadTypes' BY DEF ThreadTypes
<1>2. LockTypes' BY DEF ThreadTypes, LockTypes, Entered, Depth
<1>3. StateTypes' BY DEF StateTypes
<1>4. ClientTypes' BY DEF ThreadTypes, ClientTypes
<1>5. Startup'
  BY DEF ThreadTypes, StateTypes, ClientTypes, Starting, Startup, Shutdown, RenderLast
<1>6. Shutdown'
  BY DEF ThreadTypes, LockTypes, StateTypes, Startup, Shutdown, RenderLast
<1>7. RenderLast' BY DEF ThreadTypes, StateTypes, Starting, Startup, Shutdown, RenderLast
<1>8. Painted' BY DEF ThreadTypes, StateTypes, ClientTypes, Startup, Shutdown, Painted
<1>9. Entered' BY DEF ThreadTypes, LockTypes, StateTypes, Shutdown, Entered, Depth
<1>10. Starting' BY DEF ThreadTypes, StateTypes, Starting
<1> QED BY <1>1, <1>2, <1>3, <1>4, <1>5, <1>6, <1>7, <1>8, <1>9, <1>10

\* t returns to where it was called from, or tells the clients first.
LEMMA UnlockConsoleStep == ASSUME NEW t \in Threads, IInv, UnlockConsole(t) PROVE IInv'
<1> USE DEF IInv, TypeOK, UnlockConsole, Leave, ProcessCtrlEvents, Attached, Free
<1>1. ThreadTypes' BY DEF ThreadTypes
<1>2. LockTypes' BY DEF ThreadTypes, LockTypes, Entered, Depth
<1>3. StateTypes'
  <2>1. ctrlClose' \in BOOLEAN BY DEF StateTypes
  <2>2. UNCHANGED <<open, startup, inputThread, engine, pipeBroken, events, text, terminated>>
    OBVIOUS
  <2> HIDE DEF UnlockConsole
  <2> QED BY <2>1, <2>2 DEF StateTypes
<1>4. ClientTypes' BY DEF ThreadTypes, ClientTypes
<1>5. Startup'
  BY DEF ThreadTypes, StateTypes, ClientTypes, Starting, Startup, Shutdown, RenderLast
<1>6. Shutdown'
  BY DEF ThreadTypes, LockTypes, StateTypes, Startup, Shutdown, RenderLast
<1>7. RenderLast' BY DEF ThreadTypes, StateTypes, Starting, Startup, Shutdown, RenderLast
<1>8. Painted' BY DEF ThreadTypes, StateTypes, ClientTypes, Startup, Shutdown, Painted
<1>9. Entered' BY DEF ThreadTypes, LockTypes, StateTypes, Shutdown, Entered, Depth
<1>10. Starting' BY DEF ThreadTypes, StateTypes, Starting
<1> QED BY <1>1, <1>2, <1>3, <1>4, <1>5, <1>6, <1>7, <1>8, <1>9, <1>10

\* Without output the input thread goes on to end the process, and holds _shutdownLock.
LEMMA CloseInputStep == ASSUME NEW t \in Threads, IInv, CloseInput(t) PROVE IInv'
<1> USE DEF IInv, TypeOK, CloseInput
<1>1. ThreadTypes' BY DEF ThreadTypes
<1>2. LockTypes' BY DEF ThreadTypes, LockTypes, Entered, Depth
<1>3. StateTypes'
  <2>1. inputThread' \in BOOLEAN BY DEF StateTypes
  <2>2. UNCHANGED <<open, stage, looking, exitRequested, engine, pipeBroken, ctrlClose, enabled,
                    completed, unpainted, early, finals, terminated>>
    OBVIOUS
  <2> HIDE DEF CloseInput
  <2> QED BY <2>1, <2>2 DEF StateTypes
<1>4. ClientTypes' BY DEF ThreadTypes, ClientTypes
<1>5. Startup'
  BY DEF ThreadTypes, StateTypes, ClientTypes, Starting, Startup, Shutdown, RenderLast
<1>6. Shutdown'
  BY DEF ThreadTypes, LockTypes, StateTypes, Startup, Shutdown, RenderLast
<1>7. RenderLast' BY DEF ThreadTypes, StateTypes, Starting, Startup, Shutdown, RenderLast
<1>8. Painted' BY DEF ThreadTypes, StateTypes, ClientTypes, Startup, Shutdown, Painted
<1>9. Entered' BY DEF ThreadTypes, LockTypes, StateTypes, Shutdown, Entered, Depth
<1>10. Starting' BY DEF ThreadTypes, StateTypes, Starting
<1> QED BY <1>1, <1>2, <1>3, <1>4, <1>5, <1>6, <1>7, <1>8, <1>9, <1>10

\* Without input whoever closes the output goes on to end the process; the pipe is broken.
LEMMA CloseOutputStep == ASSUME NEW t \in Threads, IInv, CloseOutput(t) PROVE IInv'
<1> USE DEF IInv, TypeOK, CloseOutput, AfterFlush
<1>1. ThreadTypes' BY DEF ThreadTypes
<1>2. LockTypes' BY DEF ThreadTypes, LockTypes, Entered, Depth
<1>3. StateTypes'
  <2>1. engine' \in BOOLEAN BY DEF StateTypes
  <2>2. UNCHANGED <<open, stage, looking, exitRequested, inputThread, pipeBroken, ctrlClose,
                    enabled, completed, unpainted, early, finals, terminated>>
    OBVIOUS
  <2> HIDE DEF CloseOutput
  <2> QED BY <2>1, <2>2 DEF StateTypes
<1>4. ClientTypes' BY DEF ThreadTypes, ClientTypes
<1>5. Startup'
  BY DEF ThreadTypes, StateTypes, ClientTypes, Starting, Startup, Shutdown, RenderLast
<1>6. Shutdown'
  BY DEF ThreadTypes, LockTypes, StateTypes, Startup, Shutdown, RenderLast
<1>7. RenderLast' BY DEF ThreadTypes, StateTypes, Starting, Startup, Shutdown, RenderLast
<1>8. Painted' BY DEF ThreadTypes, StateTypes, ClientTypes, Startup, Shutdown, Painted
<1>9. Entered' BY DEF ThreadTypes, LockTypes, StateTypes, Shutdown, Entered, Depth
<1>10. Starting' BY DEF ThreadTypes, StateTypes, Starting, Startup
<1> QED BY <1>1, <1>2, <1>3, <1>4, <1>5, <1>6, <1>7, <1>8, <1>9, <1>10

\* A pipe that is already broken is not closed again.
LEMMA FlushStep == ASSUME NEW t \in Threads, IInv, Flush(t) PROVE IInv'
<1> USE DEF IInv, TypeOK, Flush, AfterFlush
<1>1. ThreadTypes' BY DEF ThreadTypes
<1>2. LockTypes' BY DEF ThreadTypes, LockTypes, Entered, Depth
<1>3. StateTypes'
  <2>1. pipeBroken' \in BOOLEAN BY DEF StateTypes
  <2>2. unpainted' \in BOOLEAN BY DEF StateTypes
  <2>3. early' \in BOOLEAN BY DEF StateTypes
  <2>4. UNCHANGED <<open, stage, looking, exitRequested, inputThread, engine, ctrlClose, enabled,
                    completed, finals, terminated>>
    OBVIOUS
  <2> HIDE DEF Flush
  <2> QED BY <2>1, <2>2, <2>3, <2>4 DEF StateTypes
<1>4. ClientTypes' BY DEF ThreadTypes, ClientTypes
<1>5. Startup'
  BY DEF ThreadTypes, StateTypes, ClientTypes, Starting, Startup, Shutdown, RenderLast
<1>6. Shutdown'
  BY DEF ThreadTypes, LockTypes, StateTypes, Startup, Shutdown, RenderLast
<1>7. RenderLast' BY DEF ThreadTypes, StateTypes, Starting, Startup, Shutdown, RenderLast
<1>8. Painted' BY DEF ThreadTypes, StateTypes, ClientTypes, Startup, Shutdown, Painted
<1>9. Entered' BY DEF ThreadTypes, LockTypes, StateTypes, Shutdown, Entered, Depth
<1>10. Starting' BY DEF ThreadTypes, StateTypes, Starting
<1> QED BY <1>1, <1>2, <1>3, <1>4, <1>5, <1>6, <1>7, <1>8, <1>9, <1>10

\* The shutdown goes on to tell the clients, or to the rundown.
LEMMA CloseConsoleProcessStateStep == ASSUME NEW t \in Threads, IInv, CloseConsoleProcessState(t) PROVE IInv'
<1> USE DEF IInv, TypeOK, CloseConsoleProcessState, HandleCtrlEvent, Attached
<1>1. ThreadTypes' BY DEF ThreadTypes
<1>2. LockTypes' BY DEF ThreadTypes, LockTypes, Entered, Depth
<1>3. StateTypes'
  <2>1. ctrlClose' \in BOOLEAN BY DEF StateTypes
  <2>2. UNCHANGED <<open, startup, inputThread, engine, pipeBroken, events, text, terminated>>
    OBVIOUS
  <2> HIDE DEF CloseConsoleProcessState
  <2> QED BY <2>1, <2>2 DEF StateTypes
<1>4. ClientTypes' BY DEF ThreadTypes, ClientTypes
<1>5. Startup'
  BY DEF ThreadTypes, StateTypes, ClientTypes, Starting, Startup, Shutdown, RenderLast
<1>6. Shutdown'
  BY DEF ThreadTypes, LockTypes, StateTypes, Startup, Shutdown, RenderLast
<1>7. RenderLast' BY DEF ThreadTypes, StateTypes, Starting, Startup, Shutdown, RenderLast
<1>8. Painted' BY DEF ThreadTypes, StateTypes, ClientTypes, Startup, Shutdown, Painted
<1>9. Entered' BY DEF ThreadTypes, LockTypes, StateTypes, Shutdown, Entered, Depth
<1>10. Starting' BY DEF ThreadTypes, StateTypes, Starting
<1> QED BY <1>1, <1>2, <1>3, <1>4, <1>5, <1>6, <1>7, <1>8, <1>9, <1>10

\* The lock is taken to be let go of.
LEMMA JiggleStep == ASSUME NEW t \in Threads, IInv, Jiggle(t) PROVE IInv'
<1> USE DEF IInv, TypeOK, Jiggle, LockConsole
<1>1. ThreadTypes' BY DEF ThreadTypes
<1>2. LockTypes' BY DEF ThreadTypes, LockTypes, Entered, Depth
<1>3. StateTypes' BY DEF StateTypes
<1>4. ClientTypes' BY DEF ThreadTypes, ClientTypes
<1>5. Startup'
  BY DEF ThreadTypes, StateTypes, ClientTypes, Starting, Startup, Shutdown, RenderLast
<1>6. Shutdown'
  BY DEF ThreadTypes, LockTypes, StateTypes, Startup, Shutdown, RenderLast
<1>7. RenderLast' BY DEF ThreadTypes, StateTypes, Starting, Startup, Shutdown, RenderLast
<1>8. Painted' BY DEF ThreadTypes, StateTypes, ClientTypes, Startup, Shutdown, Painted
<1>9. Entered' BY DEF ThreadTypes, LockTypes, StateTypes, Shutdown, Entered, Depth
<1>10. Starting' BY DEF ThreadTypes, StateTypes, Starting
<1> QED BY <1>1, <1>2, <1>3, <1>4, <1>5, <1>6, <1>7, <1>8, <1>9, <1>10

\* Control events are processed before the rundown.
LEMMA ForceCtrlEventsStep == ASSUME NEW t \in Threads, IInv, ForceCtrlEvents(t) PROVE IInv'
<1> USE DEF IInv, TypeOK, ForceCtrlEvents, Leave, ProcessCtrlEvents, Attached, Free
<1>1. ThreadTypes' BY DEF ThreadTypes
<1>2. LockTypes' BY DEF ThreadTypes, LockTypes, Entered, Depth
<1>3. StateTypes'
  <2>1. ctrlClose' \in BOOLEAN BY DEF StateTypes
  <2>2. UNCHANGED <<open, startup, inputThread, engine, pipeBroken, events, text, terminated>>
    OBVIOUS
  <2> HIDE DEF ForceCtrlEvents
  <2> QED BY <2>1, <2>2 DEF StateTypes
<1>4. ClientTypes' BY DEF ThreadTypes, ClientTypes
<1>5. Startup'
  BY DEF ThreadTypes, StateTypes, ClientTypes, Starting, Startup, Shutdown, RenderLast
<1>6. Shutdown'
  BY DEF ThreadTypes, LockTypes, StateTypes, Startup, Shutdown, RenderLast
<1>7. RenderLast' BY DEF ThreadTypes, StateTypes, Starting, Startup, Shutdown, RenderLast
<1>8. Painted' BY DEF ThreadTypes, StateTypes, ClientTypes, Startup, Shutdown, Painted
<1>9. Entered' BY DEF ThreadTypes, LockTypes, StateTypes, Shutdown, Entered, Depth
<1>10. Starting' BY DEF ThreadTypes, StateTypes, Starting
<1> QED BY <1>1, <1>2, <1>3, <1>4, <1>5, <1>6, <1>7, <1>8, <1>9, <1>10

\* Without a renderer nothing was written.
LEMMA RundownStep == ASSUME NEW t \in Threads, IInv, Rundown(t) PROVE IInv'
<1> USE DEF IInv, TypeOK, Rundown
<1>1. ThreadTypes' BY DEF ThreadTypes
<1>2. LockTypes' BY DEF ThreadTypes, LockTypes, Entered, Depth
<1>3. StateTypes'
  <2>1. enabled' \in BOOLEAN BY DEF StateTypes
  <2>2. finals' \in BOOLEAN BY DEF StateTypes
  <2>3. UNCHANGED <<open, stage, looking, exitRequested, inputThread, engine, pipeBroken,
                    ctrlClose, completed, unpainted, early, terminated>>
    OBVIOUS
  <2> HIDE DEF Rundown
  <2> QED BY <2>1, <2>2, <2>3 DEF StateTypes
<1>4. ClientTypes' BY DEF ThreadTypes, ClientTypes
<1>5. Startup'
  BY DEF ThreadTypes, StateTypes, ClientTypes, Starting, Startup, Shutdown, RenderLast
<1>6. Shutdown'
  BY DEF ThreadTypes, LockTypes, StateTypes, Startup, Shutdown, RenderLast
<1>7. RenderLast' BY DEF ThreadTypes, StateTypes, Starting, Startup, Shutdown, RenderLast
<1>8. Painted'
  <2>1. early' = early /\ unpainted' = unpainted /\ pipeBroken' = pipeBroken /\ terminated' = terminated
    OBVIOUS
  <2>2. finals => finals' OBVIOUS
  <2>3. stage = "none" => finals' /\ ~early BY DEF StateTypes, Startup, Painted
  <2>4. \A u \in Threads : Ended(u)' => Ended(u) \/ (u = t /\ stage = "none") BY DEF ThreadTypes
  <2>5. \A u \in Threads : (pc[u] = "flush")' => pc[u] = "flush" BY DEF ThreadTypes
  <2>6. back' = back OBVIOUS
  <2> HIDE DEF Rundown, Ended
  <2> QED BY <2>1, <2>2, <2>3, <2>4, <2>5, <2>6 DEF Painted
<1>9. Entered' BY DEF ThreadTypes, LockTypes, StateTypes, Shutdown, Entered, Depth
<1>10. Starting' BY DEF ThreadTypes, StateTypes, Starting
<1> QED BY <1>1, <1>2, <1>3, <1>4, <1>5, <1>6, <1>7, <1>8, <1>9, <1>10

\* The frame that was being painted is complete.
LEMMA WaitPaintStep == ASSUME NEW t \in Threads, IInv, WaitPaint(t) PROVE IInv'
<1> USE DEF IInv, TypeOK, WaitPaint
<1>1. ThreadTypes' BY DEF ThreadTypes
<1>2. LockTypes' BY DEF ThreadTypes, LockTypes, Entered, Depth
<1>3. StateTypes' BY DEF StateTypes
<1>4. ClientTypes' BY DEF ThreadTypes, ClientTypes
<1>5. Startup'
  BY DEF ThreadTypes, StateTypes, ClientTypes, Starting, Startup, Shutdown, RenderLast
<1>6. Shutdown'
  BY DEF ThreadTypes, LockTypes, StateTypes, Startup, Shutdown, RenderLast
<1>7. RenderLast' BY DEF ThreadTypes, StateTypes, Starting, Startup, Shutdown, RenderLast
<1>8. Painted' BY DEF ThreadTypes, StateTypes, ClientTypes, Startup, Shutdown, Painted
<1>9. Entered' BY DEF ThreadTypes, LockTypes, StateTypes, Shutdown, Entered, Depth
<1>10. Starting' BY DEF ThreadTypes, StateTypes, Starting
<1> QED BY <1>1, <1>2, <1>3, <1>4, <1>5, <1>6, <1>7, <1>8, <1>9, <1>10

\* From here on, text is late.
LEMMA FinalPaintStep == ASSUME NEW t \in Threads, IInv, FinalPaint(t) PROVE IInv'
<1> USE DEF IInv, TypeOK, FinalPaint, LockConsole, StartPaint
<1>1. ThreadTypes' BY DEF ThreadTypes
<1>2. LockTypes' BY DEF ThreadTypes, LockTypes, Entered, Depth
<1>3. StateTypes' BY DEF StateTypes
<1>4. ClientTypes' BY DEF ThreadTypes, ClientTypes
<1>5. Startup'
  BY DEF ThreadTypes, StateTypes, ClientTypes, Starting, Startup, Shutdown, RenderLast
<1>6. Shutdown'
  BY DEF ThreadTypes, LockTypes, StateTypes, Startup, Shutdown, RenderLast
<1>7. RenderLast' BY DEF ThreadTypes, StateTypes, Starting, Startup, Shutdown, RenderLast
<1>8. Painted' BY DEF ThreadTypes, StateTypes, ClientTypes, Startup, Shutdown, Painted
<1>9. Entered' BY DEF ThreadTypes, LockTypes, StateTypes, Shutdown, Entered, Depth
<1>10. Starting' BY DEF ThreadTypes, StateTypes, Starting
<1> QED BY <1>1, <1>2, <1>3, <1>4, <1>5, <1>6, <1>7, <1>8, <1>9, <1>10

\* The process ends after a final paint.
LEMMA TerminateStep == ASSUME NEW t \in Threads, IInv, Terminate(t) PROVE IInv'
<1> USE DEF IInv, TypeOK, Terminate
<1>1. ThreadTypes' BY DEF ThreadTypes
<1>2. LockTypes' BY DEF ThreadTypes, LockTypes, Entered, Depth
<1>3. StateTypes' BY DEF StateTypes
<1>4. ClientTypes' BY DEF ThreadTypes, ClientTypes
<1>5. Startup'
  BY DEF ThreadTypes, StateTypes, ClientTypes, Starting, Startup, Shutdown, RenderLast
<1>6. Shutdown'
  BY DEF ThreadTypes, LockTypes, StateTypes, Startup, Shutdown, RenderLast
<1>7. RenderLast' BY DEF ThreadTypes, StateTypes, Starting, Startup, Shutdown, RenderLast
<1>8. Painted' BY DEF ThreadTypes, StateTypes, ClientTypes, Startup, Shutdown, Painted
<1>9. Entered' BY DEF ThreadTypes, LockTypes, StateTypes, Shutdown, Entered, Depth
<1>10. Starting' BY DEF ThreadTypes, StateTypes, Starting
<1> QED BY <1>1, <1>2, <1>3, <1>4, <1>5, <1>6, <1>7, <1>8, <1>9, <1>10

\* The signal thread ends the process without _shutdownLock.
LEMMA SignalBrokenStep == ASSUME IInv, SignalBroken PROVE IInv'
<1> USE DEF IInv, TypeOK, SignalBroken
<1>1. ThreadTypes' BY DEF ThreadTypes
<1>2. LockTypes' BY DEF ThreadTypes, LockTypes, Entered, Depth
<1>3. StateTypes' BY DEF StateTypes
<1>4. ClientTypes' BY DEF ThreadTypes, ClientTypes
<1>5. Startup'
  BY DEF ThreadTypes, StateTypes, ClientTypes, Starting, Startup, Shutdown, RenderLast
<1>6. Shutdown'
  BY DEF ThreadTypes, LockTypes, StateTypes, Startup, Shutdown, RenderLast
<1>7. RenderLast' BY DEF ThreadTypes, StateTypes, Starting, Startup, Shutdown, RenderLast
<1>8. Painted' BY DEF ThreadTypes, StateTypes, ClientTypes, Startup, Shutdown, Painted
<1>9. Entered' BY DEF ThreadTypes, LockTypes, StateTypes, Shutdown, Entered, Depth
<1>10. Starting' BY DEF ThreadTypes, StateTypes, Starting
<1> QED BY <1>1, <1>2, <1>3, <1>4, <1>5, <1>6, <1>7, <1>8, <1>9, <1>10

\* What a resize invalidates is no text of a client.
LEMMA SignalResizeStep == ASSUME IInv, SignalResize PROVE IInv'
<1> USE DEF IInv, TypeOK, SignalResize, LockConsole
<1>1. ThreadTypes' BY DEF ThreadTypes
<1>2. LockTypes' BY DEF ThreadTypes, LockTypes, Entered, Depth
<1>3. StateTypes' BY DEF StateTypes
<1>4. ClientTypes' BY DEF ThreadTypes, ClientTypes
<1>5. Startup'
  BY DEF ThreadTypes, StateTypes, ClientTypes, Starting, Startup, Shutdown, RenderLast
<1>6. Shutdown'
  BY DEF ThreadTypes, LockTypes, StateTypes, Startup, Shutdown, RenderLast
<1>7. RenderLast' BY DEF ThreadTypes, StateTypes, Starting, Startup, Shutdown, RenderLast
<1>8. Painted' BY DEF ThreadTypes, StateTypes, ClientTypes, Startup, Shutdown, Painted
<1>9. Entered' BY DEF ThreadTypes, LockTypes, StateTypes, Shutdown, Entered, Depth
<1>10. Starting' BY DEF ThreadTypes, StateTypes, Starting
<1> QED BY <1>1, <1>2, <1>3, <1>4, <1>5, <1>6, <1>7, <1>8, <1>9, <1>10

\* Input that cannot be handled is the last.
LEMMA InputReadStep == ASSUME NEW ok \in BOOLEAN, IInv, InputRead(ok) PROVE IInv'
<1> USE DEF IInv, TypeOK, InputRead, LockConsole
<1>1. ThreadTypes' BY DEF ThreadTypes
<1>2. LockTypes' BY DEF ThreadTypes, LockTypes, Entered, Depth
<1>3. StateTypes' BY DEF StateTypes
<1>4. ClientTypes' BY DEF ThreadTypes, ClientTypes
<1>5. Startup'
  BY DEF ThreadTypes, StateTypes, ClientTypes, Starting, Startup, Shutdown, RenderLast
<1>6. Shutdown'
  BY DEF ThreadTypes, LockTypes, StateTypes, Startup, Shutdown, RenderLast
<1>7. RenderLast' BY DEF ThreadTypes, StateTypes, Starting, Startup, Shutdown, RenderLast
<1>8. Painted' BY DEF ThreadTypes, StateTypes, ClientTypes, Startup, Shutdown, Painted
<1>9. Entered' BY DEF ThreadTypes, LockTypes, StateTypes, Shutdown, Entered, Depth
<1>10. Starting' BY DEF ThreadTypes, StateTypes, Starting
<1> QED BY <1>1, <1>2, <1>3, <1>4, <1>5, <1>6, <1>7, <1>8, <1>9, <1>10

\* A read that fails is the last one.
LEMMA InputReadFailsStep == ASSUME IInv, InputReadFails PROVE IInv'
<1> USE DEF IInv, TypeOK, InputReadFails
<1>1. ThreadTypes' BY DEF ThreadTypes
<1>2. LockTypes' BY DEF ThreadTypes, LockTypes, Entered, Depth
<1>3. StateTypes' BY DEF StateTypes
<1>4. ClientTypes' BY DEF ThreadTypes, ClientTypes
<1>5. Startup'
  BY DEF ThreadTypes, StateTypes, ClientTypes, Starting, Startup, Shutdown, RenderLast
<1>6. Shutdown'
  BY DEF ThreadTypes, LockTypes, StateTypes, Startup, Shutdown, RenderLast
<1>7. RenderLast' BY DEF ThreadTypes, StateTypes, Starting, Startup, Shutdown, RenderLast
<1>8. Painted' BY DEF ThreadTypes, StateTypes, ClientTypes, Startup, Shutdown, Painted
<1>9. Entered' BY DEF ThreadTypes, LockTypes, StateTypes, Shutdown, Entered, Depth
<1>10. Starting' BY DEF ThreadTypes, StateTypes, Starting
<1> QED BY <1>1, <1>2, <1>3, <1>4, <1>5, <1>6, <1>7, <1>8, <1>9, <1>10

\* The input thread ends when its pipe is closed, or after a failure.
LEMMA InputBrokenStep == ASSUME IInv, InputBroken PROVE IInv'
<1> USE DEF IInv, TypeOK, InputBroken
<1>1. ThreadTypes' BY DEF ThreadTypes
<1>2. LockTypes' BY DEF ThreadTypes, LockTypes, Entered, Depth
<1>3. StateTypes' BY DEF StateTypes
<1>4. ClientTypes' BY DEF ThreadTypes, ClientTypes
<1>5. Startup'
  BY DEF ThreadTypes, StateTypes, ClientTypes, Starting, Startup, Shutdown, RenderLast
<1>6. Shutdown'
  BY DEF ThreadTypes, LockTypes, StateTypes, Startup, Shutdown, RenderLast
<1>7. RenderLast' BY DEF ThreadTypes, StateTypes, Starting, Startup, Shutdown, RenderLast
<1>8. Painted' BY DEF ThreadTypes, StateTypes, ClientTypes, Startup, Shutdown, Painted
<1>9. Entered' BY DEF ThreadTypes, LockTypes, StateTypes, Shutdown, Entered, Depth
<1>10. Starting' BY DEF ThreadTypes, StateTypes, Starting
<1> QED BY <1>1, <1>2, <1>3, <1>4, <1>5, <1>6, <1>7, <1>8, <1>9, <1>10

\* The render thread paints.
LEMMA RenderEnabledStep == ASSUME IInv, RenderEnabled PROVE IInv'
<1> USE DEF IInv, TypeOK, RenderEnabled
<1>1. ThreadTypes' BY DEF ThreadTypes
<1>2. LockTypes' BY DEF ThreadTypes, LockTypes, Entered, Depth
<1>3. StateTypes' BY DEF StateTypes
<1>4. ClientTypes' BY DEF ThreadTypes, ClientTypes
<1>5. Startup'
  BY DEF ThreadTypes, StateTypes, ClientTypes, Starting, Startup, Shutdown, RenderLast
<1>6. Shutdown'
  BY DEF ThreadTypes, LockTypes, StateTypes, Startup, Shutdown, RenderLast
<1>7. RenderLast' BY DEF ThreadTypes, StateTypes, Starting, Startup, Shutdown, RenderLast
<1>8. Painted' BY DEF ThreadTypes, StateTypes, ClientTypes, Startup, Shutdown, Painted
<1>9. Entered' BY DEF ThreadTypes, LockTypes, StateTypes, Shutdown, Entered, Depth
<1>10. Starting' BY DEF ThreadTypes, StateTypes, Starting
<1> QED BY <1>1, <1>2, <1>3, <1>4, <1>5, <1>6, <1>7, <1>8, <1>9, <1>10

LEMMA RenderWakeStep == ASSUME IInv, RenderWake PROVE IInv'
<1> USE DEF IInv, TypeOK, RenderWake
<1>1. ThreadTypes' BY DEF ThreadTypes
<1>2. LockTypes' BY DEF ThreadTypes, LockTypes, Entered, Depth
<1>3. StateTypes'
  <2>1. completed' \in BOOLEAN BY DEF StateTypes
  <2>2. UNCHANGED <<open, stage, looking, exitRequested, inputThread, engine, pipeBroken,
                    ctrlClose, enabled, unpainted, early, finals, terminated>>
    OBVIOUS
  <2> HIDE DEF RenderWake
  <2> QED BY <2>1, <2>2 DEF StateTypes
<1>4. ClientTypes' BY DEF ThreadTypes, ClientTypes
<1>5. Startup'
  BY DEF ThreadTypes, StateTypes, ClientTypes, Starting, Startup, Shutdown, RenderLast
<1>6. Shutdown'
  BY DEF ThreadTypes, LockTypes, StateTypes, Startup, Shutdown, RenderLast
<1>7. RenderLast' BY DEF ThreadTypes, StateTypes, Starting, Startup, Shutdown, RenderLast
<1>8. Painted' BY DEF ThreadTypes, StateTypes, ClientTypes, Startup, Shutdown, Painted
<1>9. Entered' BY DEF ThreadTypes, LockTypes, StateTypes, Shutdown, Entered, Depth
<1>10. Starting' BY DEF ThreadTypes, StateTypes, Starting
<1> QED BY <1>1, <1>2, <1>3, <1>4, <1>5, <1>6, <1>7, <1>8, <1>9, <1>10

LEMMA RenderPaintStep == ASSUME IInv, RenderPaint PROVE IInv'
<1> USE DEF IInv, TypeOK, RenderPaint, LockConsole, StartPaint
<1>1. ThreadTypes' BY DEF ThreadTypes
<1>2. LockTypes' BY DEF ThreadTypes, LockTypes, Entered, Depth
<1>3. StateTypes' BY DEF StateTypes
<1>4. ClientTypes' BY DEF ThreadTypes, ClientTypes
<1>5. Startup'
  BY DEF ThreadTypes, StateTypes, ClientTypes, Starting, Startup, Shutdown, RenderLast
<1>6. Shutdown'
  BY DEF ThreadTypes, LockTypes, StateTypes, Startup, Shutdown, RenderLast
<1>7. RenderLast' BY DEF ThreadTypes, StateTypes, Starting, Startup, Shutdown, RenderLast
<1>8. Painted' BY DEF ThreadTypes, StateTypes, ClientTypes, Startup, Shutdown, Painted
<1>9. Entered' BY DEF ThreadTypes, LockTypes, StateTypes, Shutdown, Entered, Depth
<1>10. Starting' BY DEF ThreadTypes, StateTypes, Starting
<1> QED BY <1>1, <1>2, <1>3, <1>4, <1>5, <1>6, <1>7, <1>8, <1>9, <1>10

LEMMA RenderPaintedStep == ASSUME IInv, RenderPainted PROVE IInv'
<1> USE DEF IInv, TypeOK, RenderPainted
<1>1. ThreadTypes' BY DEF ThreadTypes
<1>2. LockTypes' BY DEF ThreadTypes, LockTypes, Entered, Depth
<1>3. StateTypes' BY DEF StateTypes
<1>4. ClientTypes' BY DEF ThreadTypes, ClientTypes
<1>5. Startup'
  BY DEF ThreadTypes, StateTypes, ClientTypes, Starting, Startup, Shutdown, RenderLast
<1>6. Shutdown'
  BY DEF ThreadTypes, LockTypes, StateTypes, Startup, Shutdown, RenderLast
<1>7. RenderLast' BY DEF ThreadTypes, StateTypes, Starting, Startup, Shutdown, RenderLast
<1>8. Painted' BY DEF ThreadTypes, StateTypes, ClientTypes, Startup, Shutdown, Painted
<1>9. Entered' BY DEF ThreadTypes, LockTypes, StateTypes, Shutdown, Entered, Depth
<1>10. Starting' BY DEF ThreadTypes, StateTypes, Starting
<1> QED BY <1>1, <1>2, <1>3, <1>4, <1>5, <1>6, <1>7, <1>8, <1>9, <1>10

\* The first client starts everything.
LEMMA ConnectStep == ASSUME NEW c \in Clients, NEW window \in BOOLEAN, IInv, Connect(c, window) PROVE IInv'
<1> USE DEF IInv, TypeOK, Connect, LockConsole, Attached
<1>1. ThreadTypes' BY DEF ThreadTypes
<1>2. LockTypes' BY DEF ThreadTypes, LockTypes, Entered, Depth
<1>3. StateTypes'
  <2>1. stage' \in {"none", "renderer", "engine", "running"} BY DEF StateTypes
  <2>2. enabled' \in BOOLEAN BY Zenon DEF StateTypes
  <2>3. UNCHANGED <<open, looking, exitRequested, vtio, pipeBroken, ctrlClose, completed, text,
                    terminated>>
    OBVIOUS
  <2> HIDE DEF Connect
  <2> QED BY <2>1, <2>2, <2>3 DEF StateTypes
<1>4. ClientTypes' BY DEF ThreadTypes, ClientTypes
<1>5. Startup'
  BY DEF ThreadTypes, StateTypes, ClientTypes, Starting, Startup, Shutdown, RenderLast
<1>6. Shutdown'
  BY DEF ThreadTypes, LockTypes, StateTypes, Startup, Shutdown, RenderLast
<1>7. RenderLast' BY DEF ThreadTypes, StateTypes, Starting, Startup, Shutdown, RenderLast
<1>8. Painted' BY DEF ThreadTypes, StateTypes, ClientTypes, Startup, Shutdown, Painted
<1>9. Entered' BY DEF ThreadTypes, LockTypes, StateTypes, Shutdown, Entered, Depth
<1>10. Starting' BY DEF ThreadTypes, StateTypes, Starting
<1> QED BY <1>1, <1>2, <1>3, <1>4, <1>5, <1>6, <1>7, <1>8, <1>9, <1>10

\* The lock is taken again.
LEMMA RelockStep == ASSUME IInv, Relock PROVE IInv'
<1> USE DEF IInv, TypeOK, Relock, LockConsole
<1>1. ThreadTypes' BY DEF ThreadTypes
<1>2. LockTypes' BY DEF ThreadTypes, LockTypes, Entered, Depth
<1>3. StateTypes' BY DEF StateTypes
<1>4. ClientTypes' BY DEF ThreadTypes, ClientTypes
<1>5. Startup'
  BY DEF ThreadTypes, StateTypes, ClientTypes, Starting, Startup, Shutdown, RenderLast
<1>6. Shutdown'
  BY DEF ThreadTypes, LockTypes, StateTypes, Startup, Shutdown, RenderLast
<1>7. RenderLast' BY DEF ThreadTypes, StateTypes, Starting, Startup, Shutdown, RenderLast
<1>8. Painted' BY DEF ThreadTypes, StateTypes, ClientTypes, Startup, Shutdown, Painted
<1>9. Entered' BY DEF ThreadTypes, LockTypes, StateTypes, Shutdown, Entered, Depth
<1>10. Starting' BY DEF ThreadTypes, StateTypes, Starting
<1> QED BY <1>1, <1>2, <1>3, <1>4, <1>5, <1>6, <1>7, <1>8, <1>9, <1>10

\* The engine and the input thread are made together.
LEMMA StartIfNeededStep == ASSUME NEW win32 \in BOOLEAN, IInv, StartIfNeeded(win32) PROVE IInv'
<1> USE DEF IInv, TypeOK, StartIfNeeded
<1>1. ThreadTypes' BY DEF ThreadTypes
<1>2. LockTypes' BY DEF ThreadTypes, LockTypes, Entered, Depth
<1>3. StateTypes' BY DEF StateTypes
<1>4. ClientTypes' BY DEF ThreadTypes, ClientTypes
<1>5. Startup'
  BY DEF ThreadTypes, StateTypes, ClientTypes, Starting, Startup, Shutdown, RenderLast
<1>6. Shutdown'
  BY DEF ThreadTypes, LockTypes, StateTypes, Startup, Shutdown, RenderLast
<1>7. RenderLast' BY DEF ThreadTypes, StateTypes, Starting, Startup, Shutdown, RenderLast
<1>8. Painted' BY DEF ThreadTypes, StateTypes, ClientTypes, Startup, Shutdown, Painted
<1>9. Entered' BY DEF ThreadTypes, LockTypes, StateTypes, Shutdown, Entered, Depth
<1>10. Starting' BY DEF ThreadTypes, StateTypes, Starting
<1> QED BY <1>1, <1>2, <1>3, <1>4, <1>5, <1>6, <1>7, <1>8, <1>9, <1>10

\* Without an engine the pipe is broken, and the start goes on.
LEMMA AskCursorStep == ASSUME IInv, AskCursor PROVE IInv'
<1> USE DEF IInv, TypeOK, AskCursor, StartThreads
<1>1. ThreadTypes' BY DEF ThreadTypes
<1>2. LockTypes' BY DEF ThreadTypes, LockTypes, Entered, Depth
<1>3. StateTypes'
  <2>1. stage' \in {"none", "renderer", "engine", "running"} BY DEF StateTypes
  <2>2. looking' \in BOOLEAN BY DEF StateTypes
  <2>3. UNCHANGED <<open, exitRequested, inputThread, engine, pipeBroken, ctrlClose, enabled,
                    completed, unpainted, early, finals, terminated>>
    OBVIOUS
  <2> HIDE DEF AskCursor
  <2> QED BY <2>1, <2>2, <2>3 DEF StateTypes
<1>4. ClientTypes' BY DEF ThreadTypes, ClientTypes
<1>5. Startup'
  BY DEF ThreadTypes, StateTypes, ClientTypes, Starting, Startup, Shutdown, RenderLast
<1>6. Shutdown'
  BY DEF ThreadTypes, LockTypes, StateTypes, Startup, Shutdown, RenderLast
<1>7. RenderLast' BY DEF ThreadTypes, StateTypes, Starting, Startup, Shutdown, RenderLast
<1>8. Painted' BY DEF ThreadTypes, StateTypes, ClientTypes, Startup, Shutdown, Painted
<1>9. Entered' BY DEF ThreadTypes, LockTypes, StateTypes, Shutdown, Entered, Depth
<1>10. Starting' BY DEF ThreadTypes, StateTypes, Starting
<1> QED BY <1>1, <1>2, <1>3, <1>4, <1>5, <1>6, <1>7, <1>8, <1>9, <1>10

\* The I/O thread goes on when it has the cursor position.
LEMMA CursorFoundStep == ASSUME IInv, CursorFound PROVE IInv'
<1> USE DEF IInv, TypeOK, CursorFound, StartThreads
<1>1. ThreadTypes' BY DEF ThreadTypes
<1>2. LockTypes' BY DEF ThreadTypes, LockTypes, Entered, Depth
<1>3. StateTypes'
  <2>1. stage' \in {"none", "renderer", "engine", "running"} BY DEF StateTypes
  <2>2. looking' \in BOOLEAN BY DEF StateTypes
  <2>3. UNCHANGED <<open, exitRequested, inputThread, engine, pipeBroken, ctrlClose, enabled,
                    completed, unpainted, early, finals, terminated>>
    OBVIOUS
  <2> HIDE DEF CursorFound
  <2> QED BY <2>1, <2>2, <2>3 DEF StateTypes
<1>4. ClientTypes' BY DEF ThreadTypes, ClientTypes
<1>5. Startup'
  BY DEF ThreadTypes, StateTypes, ClientTypes, Starting, Startup, Shutdown, RenderLast
<1>6. Shutdown'
  BY DEF ThreadTypes, LockTypes, StateTypes, Startup, Shutdown, RenderLast
<1>7. RenderLast' BY DEF ThreadTypes, StateTypes, Starting, Startup, Shutdown, RenderLast
<1>8. Painted' BY DEF ThreadTypes, StateTypes, ClientTypes, Startup, Shutdown, Painted
<1>9. Entered' BY DEF ThreadTypes, LockTypes, StateTypes, Shutdown, Entered, Depth
<1>10. Starting' BY DEF ThreadTypes, StateTypes, Starting
<1> QED BY <1>1, <1>2, <1>3, <1>4, <1>5, <1>6, <1>7, <1>8, <1>9, <1>10

\* A client goes.
LEMMA DisconnectStep == ASSUME NEW c \in Clients, IInv, Disconnect(c) PROVE IInv'
<1> USE DEF IInv, TypeOK, Disconnect, LockConsole, Message
<1>1. ThreadTypes' BY DEF ThreadTypes
<1>2. LockTypes' BY DEF ThreadTypes, LockTypes, Entered, Depth
<1>3. StateTypes' BY DEF StateTypes
<1>4. ClientTypes' BY DEF ThreadTypes, ClientTypes
<1>5. Startup'
  BY DEF ThreadTypes, StateTypes, ClientTypes, Starting, Startup, Shutdown, RenderLast
<1>6. Shutdown'
  BY DEF ThreadTypes, LockTypes, StateTypes, Startup, Shutdown, RenderLast
<1>7. RenderLast' BY DEF ThreadTypes, StateTypes, Starting, Startup, Shutdown, RenderLast
<1>8. Painted' BY DEF ThreadTypes, StateTypes, ClientTypes, Startup, Shutdown, Painted
<1>9. Entered' BY DEF ThreadTypes, LockTypes, StateTypes, Shutdown, Entered, Depth
<1>10. Starting' BY DEF ThreadTypes, StateTypes, Starting
<1> QED BY <1>1, <1>2, <1>3, <1>4, <1>5, <1>6, <1>7, <1>8, <1>9, <1>10

\* Text that is written after a final paint began is late.
LEMMA WriteStep == ASSUME NEW through \in BOOLEAN, IInv, Write(through) PROVE IInv'
<1> USE DEF IInv, TypeOK, Write, LockConsole, Attached, Message
<1>1. ThreadTypes' BY DEF ThreadTypes
<1>2. LockTypes' BY DEF ThreadTypes, LockTypes, Entered, Depth
<1>3. StateTypes' BY DEF StateTypes
<1>4. ClientTypes' BY DEF ThreadTypes, ClientTypes
<1>5. Startup'
  BY DEF ThreadTypes, StateTypes, ClientTypes, Starting, Startup, Shutdown, RenderLast
<1>6. Shutdown'
  BY DEF ThreadTypes, LockTypes, StateTypes, Startup, Shutdown, RenderLast
<1>7. RenderLast' BY DEF ThreadTypes, StateTypes, Starting, Startup, Shutdown, RenderLast
<1>8. Painted'
  <2>1. early' => unpainted'
    BY Zenon DEF Painted
  <2>2. finals => (early' => early)
    BY DEF StateTypes
  <2>3. \A t \in Threads :
          /\ pc[t]' = "flush" /\ back[t]' = "terminate"
               => pc[t] = "flush" /\ back[t] = "terminate"
          /\ Ended(t)' => Ended(t)
    BY DEF ThreadTypes
  <2> QED
    BY <2>1, <2>2, <2>3 DEF Painted, StateTypes
<1>9. Entered' BY DEF ThreadTypes, LockTypes, StateTypes, Shutdown, Entered, Depth
<1>10. Starting' BY DEF ThreadTypes, StateTypes, Starting
<1> QED BY <1>1, <1>2, <1>3, <1>4, <1>5, <1>6, <1>7, <1>8, <1>9, <1>10

\* The I/O thread ends the process without _shutdownLock.
LEMMA DisconnectedStep == ASSUME IInv, Disconnected PROVE IInv'
<1> USE DEF IInv, TypeOK, Disconnected, Attached
<1>1. ThreadTypes' BY DEF ThreadTypes
<1>2. LockTypes' BY DEF ThreadTypes, LockTypes, Entered, Depth
<1>3. StateTypes' BY DEF StateTypes
<1>4. ClientTypes' BY DEF ThreadTypes, ClientTypes
<1>5. Startup'
  BY DEF ThreadTypes, StateTypes, ClientTypes, Starting, Startup, Shutdown, RenderLast
<1>6. Shutdown'
  BY DEF ThreadTypes, LockTypes, StateTypes, Startup, Shutdown, RenderLast
<1>7. RenderLast' BY DEF ThreadTypes, StateTypes, Starting, Startup, Shutdown, RenderLast
<1>8. Painted' BY DEF ThreadTypes, StateTypes, ClientTypes, Startup, Shutdown, Painted
<1>9. Entered' BY DEF ThreadTypes, LockTypes, StateTypes, Shutdown, Entered, Depth
<1>10. Starting' BY DEF ThreadTypes, StateTypes, Starting
<1> QED BY <1>1, <1>2, <1>3, <1>4, <1>5, <1>6, <1>7, <1>8, <1>9, <1>10

\* The terminal never opens an end again.
LEMMA TerminalClosesStep == ASSUME NEW e \in Ends, IInv, TerminalCloses(e) PROVE IInv'
<1> USE DEF IInv, TypeOK, TerminalCloses
<1>1. ThreadTypes' BY DEF ThreadTypes
<1>2. LockTypes' BY DEF ThreadTypes, LockTypes, Entered, Depth
<1>3. StateTypes' BY DEF StateTypes
<1>4. ClientTypes' BY DEF ThreadTypes, ClientTypes
<1>5. Startup'
  BY DEF ThreadTypes, StateTypes, ClientTypes, Starting, Startup, Shutdown, RenderLast
<1>6. Shutdown'
  BY DEF ThreadTypes, LockTypes, StateTypes, Startup, Shutdown, RenderLast
<1>7. RenderLast' BY DEF ThreadTypes, StateTypes, Starting, Startup, Shutdown, RenderLast
<1>8. Painted' BY DEF ThreadTypes, StateTypes, ClientTypes, Startup, Shutdown, Painted
<1>9. Entered' BY DEF ThreadTypes, LockTypes, StateTypes, Shutdown, Entered, Depth
<1>10. Starting' BY DEF ThreadTypes, StateTypes, Starting
<1> QED BY <1>1, <1>2, <1>3, <1>4, <1>5, <1>6, <1>7, <1>8, <1>9, <1>10

\* The console begins with its signal thread and its I/O thread.
LEMMA InitStep == Init => IInv
<1> SUFFICES ASSUME Init PROVE IInv
  OBVIOUS
<1>0. looking \in BOOLEAN
  BY ConstantsAssumption DEF Init
<1>1. ThreadTypes /\ LockTypes /\ ClientTypes
  BY DEF Init, Free, ThreadTypes, LockTypes, ClientTypes
<1>2. StateTypes
  BY <1>0 DEF Init, StateTypes
<1>3. Starting /\ Startup /\ Shutdown /\ Entered /\ RenderLast /\ Painted
  BY DEF Init, Free, Starting, Startup, Shutdown, Entered, Depth, RenderLast, Painted
<1> QED
  BY <1>1, <1>2, <1>3 DEF IInv, TypeOK

\* No step of any thread, client or terminal breaks the invariant.
LEMMA NextStep == IInv /\ [Next]_vars => IInv'
<1> SUFFICES ASSUME IInv, [Next]_vars PROVE IInv'
  OBVIOUS
<1>1. ASSUME NEW t \in Threads, Step(t) PROVE IInv'
  BY <1>1, CloseInputStep, CloseOutputStep, FlushStep, CloseConsoleProcessStateStep,
     ForceCtrlEventsStep, UnlockConsoleStep, EndTaskStep, RundownStep, WaitPaintStep,
     TerminateStep, SignalBrokenStep, InputBrokenStep, RenderPaintedStep, DisconnectedStep,
     StartIfNeededStep, AskCursorStep
  DEF Step
<1>2. ASSUME NEW t \in Threads, LockingStep(t) PROVE IInv'
  BY <1>2, JiggleStep, FinalPaintStep, RenderPaintStep DEF LockingStep
<1>3. CASE Environment
  BY <1>3, SignalResizeStep, InputReadStep, InputReadFailsStep, RelockStep, RenderEnabledStep, RenderWakeStep, ConnectStep,
     DisconnectStep, CursorFoundStep, WriteStep, TerminalClosesStep DEF Environment
<1>4. CASE UNCHANGED vars
  <2> USE <1>4 DEF IInv, TypeOK, vars
  <2>1. TypeOK'
    BY DEF ThreadTypes, LockTypes, StateTypes, ClientTypes
  <2>2. Starting' /\ Startup' /\ Shutdown' /\ RenderLast' /\ Painted'
    BY DEF Starting, Startup, Shutdown, RenderLast, Painted
  <2>3. Entered'
    BY DEF Entered, Depth
  <2> QED
    BY <2>1, <2>2, <2>3
<1> QED
  BY <1>1, <1>2, <1>3, <1>4 DEF Next
-----------------------------------------------------------------------------
(***************************************************************************)
(* The theorems                                                             *)
(***************************************************************************)

\* The order of the shutdown (VtIo.cpp:340-391, ServiceLocator.cpp:37-71) is kept by
\* every interleaving of the threads, the clients and the terminal.
THEOREM ShutdownOrder == Spec => []IInv
BY InitStep, NextStep, PTL DEF Spec

\* Every variable keeps its type; the console lock, which ProcessCtrlEvents leaves whether
\* or not its caller is in it (input.cpp:247-279), is owned exactly when its count is
\* positive, and no thread is ever in it more than twice (output.cpp:515-524, renderer.cpp:334).
THEOREM TypeCorrect == Spec => []TypeOK
<1>1. IInv => TypeOK
  BY DEF IInv
<1> QED
  BY <1>1, ShutdownOrder, PTL

\* What clients wrote before the last paint began is painted before TerminateProcess
\* (ServiceLocator.cpp:40-71), or the terminal has closed the pipe.
THEOREM NothingUnpainted == Spec => []TextBeforeExit
<1>1. IInv => TextBeforeExit
  BY DEF IInv, TextBeforeExit, Painted
<1> QED
  BY <1>1, ShutdownOrder, PTL

\* _shutdownLock (VtIo.cpp:343, 351), which is not recursive, is never asked for by the
\* thread that holds it.
THEOREM LockedOnce == Spec => []NoRelock
<1>1. IInv => NoRelock
  BY DEF IInv, NoRelock, Shutdown
<1> QED
  BY <1>1, ShutdownOrder, PTL

\* The render thread waits for its own frame (renderer.cpp:325) only when the terminal has
\* closed the output and the input thread has ended, for a closed pipe or for a failure
\* (VtInputThread.cpp:119-133).
THEOREM RenderTeardown == Spec => []RenderWaitsForItself
<1>1. IInv => RenderWaitsForItself
  BY DEF IInv, RenderWaitsForItself, RenderLast
<1> QED
  BY <1>1, ShutdownOrder, PTL
=============================================================================
