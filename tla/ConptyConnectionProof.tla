----------------------- MODULE ConptyConnectionProof -----------------------
(***************************************************************************)
(* Proofs about ConptyConnection: its invariants hold for every capacity    *)
(* of the pipe and every amount of text.                                    *)
(***************************************************************************)
EXTENDS ConptyConnection, TLAPS

\* Where each thread can be, and where it returns to
Control ==
  /\ pc["start"] \in {"idle", "create", "closePty", "waitHost", "thread", "arm", "connect", "done"}
  /\ pc["exit"] \in {"idle", "check", "transition", "closePty", "waitHost", "take", "waitOutput",
                     "report", "done"}
  /\ pc["close"] \in {"idle", "disarm", "closePty", "waitHost", "pipes", "waitOutput",
                      "waitClient", "done"}
  /\ pc["output"] \in {"idle", "begin", "read", "fail", "done"}
  /\ pc["destroy"] \in {"idle", "buffers", "disarm", "closePty", "waitHost", "free", "done"}
  /\ ClosesPty("start") => back["start"] = "done"
  /\ ClosesPty("exit") => back["exit"] = "take"
  /\ ClosesPty("close") => back["close"] = "pipes"
  /\ ClosesPty("destroy") => back["destroy"] = "free"

OutputOver == pc["output"] \in {"idle", "done"}
StartOver == pc["start"] \in {"idle", "done"}
Disarmed == ~armed /\ pc["exit"] \in {"idle", "done"}

\* The exit callback is going to wait for the output thread.
Drains == pc["exit"] \in {"closePty", "waitHost", "take", "waitOutput"}

\* Start comes before everything else.
StartFirst ==
  /\ pc["start"] \in {"idle", "create", "thread"} => pc["output"] = "idle"
  /\ pc["start"] \in {"arm", "connect"} => pc["output"] # "idle"
  /\ armed \/ pc["exit"] # "idle" => pc["start"] \in {"connect", "done"} /\ pc["output"] # "idle"
  /\ pc["close"] # "idle" => StartOver
  /\ pc["start"] = "idle" /\ pc["close"] = "idle" => state = NotConnected
  /\ pc["start"] \in {"create", "thread"} => state <= Connecting
  /\ pc["start"] \in {"thread", "arm"} => outPipe
  /\ pc["output"] = "idle" => ~strong

\* The control lets go when Close is over, and the destructor comes after it.
ReleaseOrder ==
  /\ ~core <=> pc["close"] = "done"
  /\ pc["destroy"] # "idle" => ~core

\* Past the wait for the callback there is none, neither in Close nor in the destructor.
CallbackOver ==
  /\ pc["close"] \in {"closePty", "waitHost", "pipes", "waitOutput", "waitClient"} => Disarmed
  /\ pc["destroy"] \in {"closePty", "waitHost", "free", "done"} => Disarmed

\* The handle of the output thread is given away only to wait for the thread, and a
\* state past Closing is reached before Close only by the end of the thread.
OutputAwaited ==
  /\ ~hOut /\ ~OutputOver => pc["exit"] = "waitOutput"
  /\ pc["exit"] = "report" => OutputOver
  /\ pc["close"] = "idle" /\ state > Closing => OutputOver \/ Drains
  /\ pc["close"] = "waitClient" => OutputOver
  /\ ~core => OutputOver \/ Drains

\* A thread that reads holds a reference, so that the destructor meets only an output
\* thread that is over, or one that had not begun.
Referenced ==
  /\ pc["output"] \in {"read", "fail"} => strong
  /\ pc["destroy"] # "idle" => OutputOver \/ late

\* The output thread ends when everything was read, unless it gave up.
Drained ==
  /\ armed \/ pc["exit"] \notin {"idle", "done"} => outPipe
  /\ host = "gone" => crashed \/ pending = 0 \/ ~outPipe
  /\ pc["output"] = "done" /\ ~gaveUp /\ outPipe => pipe = 0 /\ host = "gone"
  /\ pc["output"] = "fail" => gaveUp

IInv ==
  /\ TypeOK
  /\ Control /\ StartFirst /\ ReleaseOrder /\ CallbackOver /\ OutputAwaited /\ Referenced
  /\ Drained
-----------------------------------------------------------------------------
(***************************************************************************)
(* One lemma for each step: the invariant is inductive                      *)
(***************************************************************************)
USE DEF Threads, NotConnected, Connecting, Connected, Closing, Closed, Failed, object, world, history
USE DEF Goto, Call, TransitionToState, MayMove, ClosesPty
USE DEF OutputOver, StartOver, Disarmed, Drains

\* Start moves to Connecting; nothing else has begun.
LEMMA StartBeginStep == ASSUME IInv, StartBegin PROVE IInv'
<1> USE DEF IInv, TypeOK, ThreadTypes, StartBegin
<1>1. ThreadTypes' /\ Control' BY DEF Control
<1>2. ObjectTypes' BY DEF ObjectTypes
<1>3. WorldTypes' BY ConstantsAssumption DEF WorldTypes, ObjectTypes
<1>4. StartFirst' /\ ReleaseOrder' /\ CallbackOver'
  BY DEF Control, ObjectTypes, StartFirst, ReleaseOrder, CallbackOver
<1>5. OutputAwaited'
  BY DEF Control, ObjectTypes, StartFirst, ReleaseOrder, CallbackOver, OutputAwaited
<1>6. Referenced' BY DEF Control, ObjectTypes, StartFirst, ReleaseOrder, Referenced
<1>7. Drained'
  BY DEF Control, ObjectTypes, WorldTypes, StartFirst, ReleaseOrder, CallbackOver,
         OutputAwaited, Drained
<1> QED BY <1>1, <1>2, <1>3, <1>4, <1>5, <1>6, <1>7

\* The pseudoconsole and its pipes are made before the output thread.
LEMMA CreateStep == ASSUME IInv, Create PROVE IInv'
<1> USE DEF IInv, TypeOK, ThreadTypes, Create
<1>1. ThreadTypes' /\ Control' BY DEF Control
<1>2. ObjectTypes' BY DEF ObjectTypes
<1>3. WorldTypes' BY ConstantsAssumption DEF WorldTypes, ObjectTypes
<1>4. StartFirst' /\ ReleaseOrder' /\ CallbackOver'
  BY DEF Control, ObjectTypes, StartFirst, ReleaseOrder, CallbackOver
<1>5. OutputAwaited'
  BY DEF Control, ObjectTypes, StartFirst, ReleaseOrder, CallbackOver, OutputAwaited
<1>6. Referenced' BY DEF Control, ObjectTypes, StartFirst, ReleaseOrder, Referenced
<1>7. Drained'
  BY DEF Control, ObjectTypes, WorldTypes, StartFirst, ReleaseOrder, CallbackOver,
         OutputAwaited, Drained
<1> QED BY <1>1, <1>2, <1>3, <1>4, <1>5, <1>6, <1>7

\* The exit point of Start closes the pseudoconsole alone: nobody else has begun.
LEMMA CreateFailsStep == 
  ASSUME NEW made \in BOOLEAN, NEW launched \in BOOLEAN, IInv, CreateFails(made, launched)
  PROVE  IInv'
<1> USE DEF IInv, TypeOK, ThreadTypes, CreateFails
<1>1. ThreadTypes' /\ Control' BY DEF Control
<1>2. ObjectTypes' BY DEF ObjectTypes
<1>3. WorldTypes' BY ConstantsAssumption DEF WorldTypes, ObjectTypes
<1>4. StartFirst' /\ ReleaseOrder' /\ CallbackOver'
  BY DEF Control, ObjectTypes, StartFirst, ReleaseOrder, CallbackOver
<1>5. OutputAwaited'
  BY DEF Control, ObjectTypes, StartFirst, ReleaseOrder, CallbackOver, OutputAwaited
<1>6. Referenced' BY DEF Control, ObjectTypes, StartFirst, ReleaseOrder, Referenced
<1>7. Drained'
  BY DEF Control, ObjectTypes, WorldTypes, StartFirst, ReleaseOrder, CallbackOver,
         OutputAwaited, Drained
<1> QED BY <1>1, <1>2, <1>3, <1>4, <1>5, <1>6, <1>7

\* The output thread begins, and Start holds its handle.
LEMMA StartOutputThreadStep == ASSUME IInv, StartOutputThread PROVE IInv'
<1> USE DEF IInv, TypeOK, ThreadTypes, StartOutputThread
<1>1. ThreadTypes' /\ Control' BY DEF Control
<1>2. ObjectTypes' BY DEF ObjectTypes
<1>3. WorldTypes' BY ConstantsAssumption DEF WorldTypes, ObjectTypes
<1>4. StartFirst' /\ ReleaseOrder' /\ CallbackOver'
  BY DEF Control, ObjectTypes, StartFirst, ReleaseOrder, CallbackOver
<1>5. OutputAwaited'
  BY DEF Control, ObjectTypes, StartFirst, ReleaseOrder, CallbackOver, OutputAwaited
<1>6. Referenced' BY DEF Control, ObjectTypes, StartFirst, ReleaseOrder, Referenced
<1>7. Drained'
  BY DEF Control, ObjectTypes, WorldTypes, StartFirst, ReleaseOrder, CallbackOver,
         OutputAwaited, Drained
<1> QED BY <1>1, <1>2, <1>3, <1>4, <1>5, <1>6, <1>7

\* Without the thread Start closes the pseudoconsole: nobody else has begun.
LEMMA ThreadFailsStep == ASSUME IInv, ThreadFails PROVE IInv'
<1> USE DEF IInv, TypeOK, ThreadTypes, ThreadFails
<1>1. ThreadTypes' /\ Control' BY DEF Control
<1>2. ObjectTypes' BY DEF ObjectTypes
<1>3. WorldTypes' BY ConstantsAssumption DEF WorldTypes, ObjectTypes
<1>4. StartFirst' /\ ReleaseOrder' /\ CallbackOver'
  BY DEF Control, ObjectTypes, StartFirst, ReleaseOrder, CallbackOver
<1>5. OutputAwaited'
  BY DEF Control, ObjectTypes, StartFirst, ReleaseOrder, CallbackOver, OutputAwaited
<1>6. Referenced' BY DEF Control, ObjectTypes, StartFirst, ReleaseOrder, Referenced
<1>7. Drained'
  BY DEF Control, ObjectTypes, WorldTypes, StartFirst, ReleaseOrder, CallbackOver,
         OutputAwaited, Drained
<1> QED BY <1>1, <1>2, <1>3, <1>4, <1>5, <1>6, <1>7

\* The callback may run from here on: the output thread exists.
LEMMA ArmStep == ASSUME IInv, Arm PROVE IInv'
<1> USE DEF IInv, TypeOK, ThreadTypes, Arm
<1>1. ThreadTypes' /\ Control' BY DEF Control
<1>2. ObjectTypes' BY DEF ObjectTypes
<1>3. WorldTypes' BY ConstantsAssumption DEF WorldTypes, ObjectTypes
<1>4. StartFirst' /\ ReleaseOrder' /\ CallbackOver'
  BY DEF Control, ObjectTypes, StartFirst, ReleaseOrder, CallbackOver
<1>5. OutputAwaited'
  BY DEF Control, ObjectTypes, StartFirst, ReleaseOrder, CallbackOver, OutputAwaited
<1>6. Referenced' BY DEF Control, ObjectTypes, StartFirst, ReleaseOrder, Referenced
<1>7. Drained'
  BY DEF Control, ObjectTypes, WorldTypes, StartFirst, ReleaseOrder, CallbackOver,
         OutputAwaited, Drained
<1> QED BY <1>1, <1>2, <1>3, <1>4, <1>5, <1>6, <1>7

\* The last step of Start.
LEMMA ConnectStep == ASSUME IInv, Connect PROVE IInv'
<1> USE DEF IInv, TypeOK, ThreadTypes, Connect
<1>1. ThreadTypes' /\ Control' BY DEF Control
<1>2. ObjectTypes' BY DEF ObjectTypes
<1>3. WorldTypes' BY ConstantsAssumption DEF WorldTypes, ObjectTypes
<1>4. StartFirst' /\ ReleaseOrder' /\ CallbackOver'
  BY DEF Control, ObjectTypes, StartFirst, ReleaseOrder, CallbackOver
<1>5. OutputAwaited'
  BY DEF Control, ObjectTypes, StartFirst, ReleaseOrder, CallbackOver, OutputAwaited
<1>6. Referenced' BY DEF Control, ObjectTypes, StartFirst, ReleaseOrder, Referenced
<1>7. Drained'
  BY DEF Control, ObjectTypes, WorldTypes, StartFirst, ReleaseOrder, CallbackOver,
         OutputAwaited, Drained
<1> QED BY <1>1, <1>2, <1>3, <1>4, <1>5, <1>6, <1>7

\* The callback begins, and is not armed again.
LEMMA ExitCallbackStep == ASSUME IInv, ExitCallback PROVE IInv'
<1> USE DEF IInv, TypeOK, ThreadTypes, ExitCallback
<1>1. ThreadTypes' /\ Control' BY DEF Control
<1>2. ObjectTypes' BY DEF ObjectTypes
<1>3. WorldTypes' BY ConstantsAssumption DEF WorldTypes, ObjectTypes
<1>4. StartFirst' /\ ReleaseOrder' /\ CallbackOver'
  BY DEF Control, ObjectTypes, StartFirst, ReleaseOrder, CallbackOver
<1>5. OutputAwaited'
  BY DEF Control, ObjectTypes, StartFirst, ReleaseOrder, CallbackOver, OutputAwaited
<1>6. Referenced' BY DEF Control, ObjectTypes, StartFirst, ReleaseOrder, Referenced
<1>7. Drained'
  BY DEF Control, ObjectTypes, WorldTypes, StartFirst, ReleaseOrder, CallbackOver,
         OutputAwaited, Drained
<1> QED BY <1>1, <1>2, <1>3, <1>4, <1>5, <1>6, <1>7

\* Past Closing, Close or the output thread has seen to the end of the output.
LEMMA ExitCheckStep == ASSUME IInv, ExitCheck PROVE IInv'
<1> USE DEF IInv, TypeOK, ThreadTypes, ExitCheck
<1>1. ThreadTypes' /\ Control' BY DEF Control
<1>2. ObjectTypes' BY DEF ObjectTypes
<1>3. WorldTypes' BY ConstantsAssumption DEF WorldTypes, ObjectTypes
<1>4. StartFirst' /\ ReleaseOrder' /\ CallbackOver'
  BY DEF Control, ObjectTypes, StartFirst, ReleaseOrder, CallbackOver
<1>5. OutputAwaited'
  BY DEF Control, ObjectTypes, StartFirst, ReleaseOrder, CallbackOver, OutputAwaited
<1>6. Referenced' BY DEF Control, ObjectTypes, StartFirst, ReleaseOrder, Referenced
<1>7. Drained'
  BY DEF Control, ObjectTypes, WorldTypes, StartFirst, ReleaseOrder, CallbackOver,
         OutputAwaited, Drained
<1> QED BY <1>1, <1>2, <1>3, <1>4, <1>5, <1>6, <1>7

\* The callback is going to wait for the output thread.
LEMMA ExitTransitionStep == ASSUME NEW s \in {Closed, Failed}, IInv, ExitTransition(s) PROVE IInv'
<1> USE DEF IInv, TypeOK, ThreadTypes, ExitTransition
<1>1. ThreadTypes' /\ Control' BY DEF Control
<1>2. ObjectTypes' BY DEF ObjectTypes
<1>3. WorldTypes' BY ConstantsAssumption DEF WorldTypes, ObjectTypes
<1>4. StartFirst' /\ ReleaseOrder' /\ CallbackOver'
  BY DEF Control, ObjectTypes, StartFirst, ReleaseOrder, CallbackOver
<1>5. OutputAwaited'
  BY DEF Control, ObjectTypes, StartFirst, ReleaseOrder, CallbackOver, OutputAwaited
<1>6. Referenced' BY DEF Control, ObjectTypes, StartFirst, ReleaseOrder, Referenced
<1>7. Drained'
  BY DEF Control, ObjectTypes, WorldTypes, StartFirst, ReleaseOrder, CallbackOver,
         OutputAwaited, Drained
<1> QED BY <1>1, <1>2, <1>3, <1>4, <1>5, <1>6, <1>7

\* A callback that finds no handle finds the output over.
LEMMA ExitTakeStep == ASSUME IInv, ExitTake PROVE IInv'
<1> USE DEF IInv, TypeOK, ThreadTypes, ExitTake
<1>1. ThreadTypes' /\ Control' BY DEF Control
<1>2. ObjectTypes' BY DEF ObjectTypes
<1>3. WorldTypes' BY ConstantsAssumption DEF WorldTypes, ObjectTypes
<1>4. StartFirst' /\ ReleaseOrder' /\ CallbackOver'
  BY DEF Control, ObjectTypes, StartFirst, ReleaseOrder, CallbackOver
<1>5. OutputAwaited'
  BY DEF Control, ObjectTypes, StartFirst, ReleaseOrder, CallbackOver, OutputAwaited
<1>6. Referenced' BY DEF Control, ObjectTypes, StartFirst, ReleaseOrder, Referenced
<1>7. Drained'
  BY DEF Control, ObjectTypes, WorldTypes, StartFirst, ReleaseOrder, CallbackOver,
         OutputAwaited, Drained
<1> QED BY <1>1, <1>2, <1>3, <1>4, <1>5, <1>6, <1>7

\* The callback has waited for the output thread.
LEMMA ExitWaitOutputStep == ASSUME IInv, ExitWaitOutput PROVE IInv'
<1> USE DEF IInv, TypeOK, ThreadTypes, ExitWaitOutput
<1>1. ThreadTypes' /\ Control' BY DEF Control
<1>2. ObjectTypes' BY DEF ObjectTypes
<1>3. WorldTypes' BY ConstantsAssumption DEF WorldTypes, ObjectTypes
<1>4. StartFirst' /\ ReleaseOrder' /\ CallbackOver'
  BY DEF Control, ObjectTypes, StartFirst, ReleaseOrder, CallbackOver
<1>5. OutputAwaited'
  BY DEF Control, ObjectTypes, StartFirst, ReleaseOrder, CallbackOver, OutputAwaited
<1>6. Referenced' BY DEF Control, ObjectTypes, StartFirst, ReleaseOrder, Referenced
<1>7. Drained'
  BY DEF Control, ObjectTypes, WorldTypes, StartFirst, ReleaseOrder, CallbackOver,
         OutputAwaited, Drained
<1> QED BY <1>1, <1>2, <1>3, <1>4, <1>5, <1>6, <1>7

\* The callback is over.
LEMMA ExitReportStep == ASSUME IInv, ExitReport PROVE IInv'
<1> USE DEF IInv, TypeOK, ThreadTypes, ExitReport
<1>1. ThreadTypes' /\ Control' BY DEF Control
<1>2. ObjectTypes' BY DEF ObjectTypes
<1>3. WorldTypes' BY ConstantsAssumption DEF WorldTypes, ObjectTypes
<1>4. StartFirst' /\ ReleaseOrder' /\ CallbackOver'
  BY DEF Control, ObjectTypes, StartFirst, ReleaseOrder, CallbackOver
<1>5. OutputAwaited'
  BY DEF Control, ObjectTypes, StartFirst, ReleaseOrder, CallbackOver, OutputAwaited
<1>6. Referenced' BY DEF Control, ObjectTypes, StartFirst, ReleaseOrder, Referenced
<1>7. Drained'
  BY DEF Control, ObjectTypes, WorldTypes, StartFirst, ReleaseOrder, CallbackOver,
         OutputAwaited, Drained
<1> QED BY <1>1, <1>2, <1>3, <1>4, <1>5, <1>6, <1>7

\* Close goes on, or is over because somebody else has seen to the end of the output.
LEMMA CloseBeginStep == ASSUME IInv, CloseBegin PROVE IInv'
<1> USE DEF IInv, TypeOK, ThreadTypes, CloseBegin
<1>1. ThreadTypes' /\ Control' BY DEF Control
<1>2. ObjectTypes' BY DEF ObjectTypes
<1>3. WorldTypes' BY ConstantsAssumption DEF WorldTypes, ObjectTypes
<1>4. StartFirst' /\ ReleaseOrder' /\ CallbackOver'
  <2>1. StartFirst' BY DEF Control, ObjectTypes, StartFirst
  <2>2. ReleaseOrder'
    <3>1. core' <=> pc'["close"] # "done" BY DEF ObjectTypes
    <3>2. pc["destroy"] = "idle" BY DEF ReleaseOrder
    <3> QED BY <3>1, <3>2 DEF ObjectTypes, ReleaseOrder
  <2>3. CallbackOver' BY DEF CallbackOver
  <2> QED BY <2>1, <2>2, <2>3
<1>5. OutputAwaited'
  BY DEF Control, ObjectTypes, StartFirst, ReleaseOrder, CallbackOver, OutputAwaited
<1>6. Referenced' BY DEF Control, ObjectTypes, StartFirst, ReleaseOrder, Referenced
<1>7. Drained'
  BY DEF Control, ObjectTypes, WorldTypes, StartFirst, ReleaseOrder, CallbackOver,
         OutputAwaited, Drained
<1> QED BY <1>1, <1>2, <1>3, <1>4, <1>5, <1>6, <1>7

\* Close has waited for the callback.
LEMMA CloseDisarmStep == ASSUME IInv, CloseDisarm PROVE IInv'
<1> USE DEF IInv, TypeOK, ThreadTypes, CloseDisarm, CallbackRuns
<1>1. ThreadTypes' /\ Control' BY DEF Control
<1>2. ObjectTypes' BY DEF ObjectTypes
<1>3. WorldTypes' BY ConstantsAssumption DEF WorldTypes, ObjectTypes
<1>4. StartFirst' /\ ReleaseOrder' /\ CallbackOver'
  BY DEF Control, ObjectTypes, StartFirst, ReleaseOrder, CallbackOver
<1>5. OutputAwaited'
  BY DEF Control, ObjectTypes, StartFirst, ReleaseOrder, CallbackOver, OutputAwaited
<1>6. Referenced' BY DEF Control, ObjectTypes, StartFirst, ReleaseOrder, Referenced
<1>7. Drained'
  BY DEF Control, ObjectTypes, WorldTypes, StartFirst, ReleaseOrder, CallbackOver,
         OutputAwaited, Drained
<1> QED BY <1>1, <1>2, <1>3, <1>4, <1>5, <1>6, <1>7

\* Nobody but the output thread uses the pipe any more.
LEMMA ClosePipesStep == ASSUME IInv, ClosePipes PROVE IInv'
<1> USE DEF IInv, TypeOK, ThreadTypes, ClosePipes
<1>1. ThreadTypes' /\ Control' BY DEF Control
<1>2. ObjectTypes' BY DEF ObjectTypes
<1>3. WorldTypes' BY ConstantsAssumption DEF WorldTypes, ObjectTypes
<1>4. StartFirst' /\ ReleaseOrder' /\ CallbackOver'
  BY DEF Control, ObjectTypes, StartFirst, ReleaseOrder, CallbackOver
<1>5. OutputAwaited'
  BY DEF Control, ObjectTypes, StartFirst, ReleaseOrder, CallbackOver, OutputAwaited
<1>6. Referenced' BY DEF Control, ObjectTypes, StartFirst, ReleaseOrder, Referenced
<1>7. Drained'
  BY DEF Control, ObjectTypes, WorldTypes, StartFirst, ReleaseOrder, CallbackOver,
         OutputAwaited, Drained
<1> QED BY <1>1, <1>2, <1>3, <1>4, <1>5, <1>6, <1>7

\* Close has waited for the output thread.
LEMMA CloseWaitOutputStep == ASSUME IInv, CloseWaitOutput PROVE IInv'
<1> USE DEF IInv, TypeOK, ThreadTypes, CloseWaitOutput
<1>1. ThreadTypes' /\ Control' BY DEF Control
<1>2. ObjectTypes' BY DEF ObjectTypes
<1>3. WorldTypes' BY ConstantsAssumption DEF WorldTypes, ObjectTypes
<1>4. StartFirst' /\ ReleaseOrder' /\ CallbackOver'
  BY DEF Control, ObjectTypes, StartFirst, ReleaseOrder, CallbackOver
<1>5. OutputAwaited'
  BY DEF Control, ObjectTypes, StartFirst, ReleaseOrder, CallbackOver, OutputAwaited
<1>6. Referenced' BY DEF Control, ObjectTypes, StartFirst, ReleaseOrder, Referenced
<1>7. Drained'
  BY DEF Control, ObjectTypes, WorldTypes, StartFirst, ReleaseOrder, CallbackOver,
         OutputAwaited, Drained
<1> QED BY <1>1, <1>2, <1>3, <1>4, <1>5, <1>6, <1>7

\* Close is over, and the control lets go of the connection.
LEMMA CloseWaitClientStep == ASSUME IInv, CloseWaitClient PROVE IInv'
<1> USE DEF IInv, TypeOK, ThreadTypes, CloseWaitClient
<1>1. ThreadTypes' /\ Control' BY DEF Control
<1>2. ObjectTypes' BY DEF ObjectTypes
<1>3. WorldTypes' BY ConstantsAssumption DEF WorldTypes, ObjectTypes
<1>4. StartFirst' /\ ReleaseOrder' /\ CallbackOver'
  BY DEF Control, ObjectTypes, StartFirst, ReleaseOrder, CallbackOver
<1>5. OutputAwaited'
  BY DEF Control, ObjectTypes, StartFirst, ReleaseOrder, CallbackOver, OutputAwaited
<1>6. Referenced' BY DEF Control, ObjectTypes, StartFirst, ReleaseOrder, Referenced
<1>7. Drained'
  BY DEF Control, ObjectTypes, WorldTypes, StartFirst, ReleaseOrder, CallbackOver,
         OutputAwaited, Drained
<1> QED BY <1>1, <1>2, <1>3, <1>4, <1>5, <1>6, <1>7

\* The output thread takes its reference.
LEMMA OutputBeginStep == ASSUME IInv, OutputBegin PROVE IInv'
<1> USE DEF IInv, TypeOK, ThreadTypes, OutputBegin
<1>1. ThreadTypes' /\ Control' BY DEF Control
<1>2. ObjectTypes' BY DEF ObjectTypes
<1>3. WorldTypes' BY ConstantsAssumption DEF WorldTypes, ObjectTypes
<1>4. StartFirst' /\ ReleaseOrder' /\ CallbackOver'
  BY DEF Control, ObjectTypes, StartFirst, ReleaseOrder, CallbackOver
<1>5. OutputAwaited'
  BY DEF Control, ObjectTypes, StartFirst, ReleaseOrder, CallbackOver, OutputAwaited
<1>6. Referenced' BY DEF Control, ObjectTypes, StartFirst, ReleaseOrder, Referenced
<1>7. Drained'
  BY DEF Control, ObjectTypes, WorldTypes, StartFirst, ReleaseOrder, CallbackOver,
         OutputAwaited, Drained
<1> QED BY <1>1, <1>2, <1>3, <1>4, <1>5, <1>6, <1>7

\* A chunk is read.
LEMMA OutputReadStep == ASSUME IInv, OutputRead PROVE IInv'
<1> USE DEF IInv, TypeOK, ThreadTypes, OutputRead
<1>1. ThreadTypes' /\ Control' BY DEF Control
<1>2. ObjectTypes' BY DEF ObjectTypes
<1>3. WorldTypes' BY ConstantsAssumption DEF WorldTypes, ObjectTypes
<1>4. StartFirst' /\ ReleaseOrder' /\ CallbackOver'
  BY DEF Control, ObjectTypes, StartFirst, ReleaseOrder, CallbackOver
<1>5. OutputAwaited'
  BY DEF Control, ObjectTypes, StartFirst, ReleaseOrder, CallbackOver, OutputAwaited
<1>6. Referenced' BY DEF Control, ObjectTypes, StartFirst, ReleaseOrder, Referenced
<1>7. Drained'
  BY DEF Control, ObjectTypes, WorldTypes, StartFirst, ReleaseOrder, CallbackOver,
         OutputAwaited, Drained
<1> QED BY <1>1, <1>2, <1>3, <1>4, <1>5, <1>6, <1>7

\* The output thread ends when everything was read, or Close took the pipe.
LEMMA OutputEofStep == ASSUME IInv, OutputEof PROVE IInv'
<1> USE DEF IInv, TypeOK, ThreadTypes, OutputEof, OutputEnds
<1>1. ThreadTypes' /\ Control' BY DEF Control
<1>2. ObjectTypes' BY DEF ObjectTypes
<1>3. WorldTypes' BY ConstantsAssumption DEF WorldTypes, ObjectTypes
<1>4. StartFirst' /\ ReleaseOrder' /\ CallbackOver'
  BY DEF Control, ObjectTypes, StartFirst, ReleaseOrder, CallbackOver
<1>5. OutputAwaited'
  BY DEF Control, ObjectTypes, StartFirst, ReleaseOrder, CallbackOver, OutputAwaited
<1>6. Referenced' BY DEF Control, ObjectTypes, StartFirst, ReleaseOrder, Referenced
<1>7. Drained'
  BY DEF Control, ObjectTypes, WorldTypes, StartFirst, ReleaseOrder, CallbackOver,
         OutputAwaited, Drained
<1> QED BY <1>1, <1>2, <1>3, <1>4, <1>5, <1>6, <1>7

\* A read that converts to nothing ends the thread, and is remembered.
LEMMA OutputReadsEmptyStep == ASSUME IInv, OutputReadsEmpty PROVE IInv'
<1> USE DEF IInv, TypeOK, ThreadTypes, OutputReadsEmpty, OutputEnds
<1>1. ThreadTypes' /\ Control' BY DEF Control
<1>2. ObjectTypes' BY DEF ObjectTypes
<1>3. WorldTypes' BY ConstantsAssumption DEF WorldTypes, ObjectTypes
<1>4. StartFirst' /\ ReleaseOrder' /\ CallbackOver'
  BY DEF Control, ObjectTypes, StartFirst, ReleaseOrder, CallbackOver
<1>5. OutputAwaited'
  BY DEF Control, ObjectTypes, StartFirst, ReleaseOrder, CallbackOver, OutputAwaited
<1>6. Referenced' BY DEF Control, ObjectTypes, StartFirst, ReleaseOrder, Referenced
<1>7. Drained'
  BY DEF Control, ObjectTypes, WorldTypes, StartFirst, ReleaseOrder, CallbackOver,
         OutputAwaited, Drained
<1> QED BY <1>1, <1>2, <1>3, <1>4, <1>5, <1>6, <1>7

\* The output thread gives up.
LEMMA OutputErrorStep == ASSUME IInv, OutputError PROVE IInv'
<1> USE DEF IInv, TypeOK, ThreadTypes, OutputError, OutputEnds
<1>1. ThreadTypes' /\ Control' BY DEF Control
<1>2. ObjectTypes' BY DEF ObjectTypes
<1>3. WorldTypes' BY ConstantsAssumption DEF WorldTypes, ObjectTypes
<1>4. StartFirst' /\ ReleaseOrder' /\ CallbackOver'
  BY DEF Control, ObjectTypes, StartFirst, ReleaseOrder, CallbackOver
<1>5. OutputAwaited'
  BY DEF Control, ObjectTypes, StartFirst, ReleaseOrder, CallbackOver, OutputAwaited
<1>6. Referenced' BY DEF Control, ObjectTypes, StartFirst, ReleaseOrder, Referenced
<1>7. Drained'
  BY DEF Control, ObjectTypes, WorldTypes, StartFirst, ReleaseOrder, CallbackOver,
         OutputAwaited, Drained
<1> QED BY <1>1, <1>2, <1>3, <1>4, <1>5, <1>6, <1>7

\* ... and reports that the connection failed.
LEMMA OutputFailsStep == ASSUME IInv, OutputFails PROVE IInv'
<1> USE DEF IInv, TypeOK, ThreadTypes, OutputFails, OutputEnds
<1>1. ThreadTypes' /\ Control' BY DEF Control
<1>2. ObjectTypes' BY DEF ObjectTypes
<1>3. WorldTypes' BY ConstantsAssumption DEF WorldTypes, ObjectTypes
<1>4. StartFirst' /\ ReleaseOrder' /\ CallbackOver'
  BY DEF Control, ObjectTypes, StartFirst, ReleaseOrder, CallbackOver
<1>5. OutputAwaited'
  BY DEF Control, ObjectTypes, StartFirst, ReleaseOrder, CallbackOver, OutputAwaited
<1>6. Referenced' BY DEF Control, ObjectTypes, StartFirst, ReleaseOrder, Referenced
<1>7. Drained'
  BY DEF Control, ObjectTypes, WorldTypes, StartFirst, ReleaseOrder, CallbackOver,
         OutputAwaited, Drained
<1> QED BY <1>1, <1>2, <1>3, <1>4, <1>5, <1>6, <1>7

\* The destructor begins when nobody holds a reference.
LEMMA FinalReleaseStep == ASSUME IInv, FinalRelease PROVE IInv'
<1> USE DEF IInv, TypeOK, ThreadTypes, FinalRelease
<1>1. ThreadTypes' /\ Control' BY DEF Control
<1>2. ObjectTypes' BY DEF ObjectTypes
<1>3. WorldTypes' BY ConstantsAssumption DEF WorldTypes, ObjectTypes
<1>4. StartFirst' /\ ReleaseOrder' /\ CallbackOver'
  BY DEF Control, ObjectTypes, StartFirst, ReleaseOrder, CallbackOver
<1>5. OutputAwaited'
  BY DEF Control, ObjectTypes, StartFirst, ReleaseOrder, CallbackOver, OutputAwaited
<1>6. Referenced' BY DEF Control, ObjectTypes, StartFirst, ReleaseOrder, Referenced
<1>7. Drained'
  BY DEF Control, ObjectTypes, WorldTypes, StartFirst, ReleaseOrder, CallbackOver,
         OutputAwaited, Drained
<1> QED BY <1>1, <1>2, <1>3, <1>4, <1>5, <1>6, <1>7

\* The buffers go without a wait.
LEMMA DestroyBuffersStep == ASSUME IInv, DestroyBuffers PROVE IInv'
<1> USE DEF IInv, TypeOK, ThreadTypes, DestroyBuffers
<1>1. ThreadTypes' /\ Control' BY DEF Control
<1>2. ObjectTypes' BY DEF ObjectTypes
<1>3. WorldTypes' BY ConstantsAssumption DEF WorldTypes, ObjectTypes
<1>4. StartFirst' /\ ReleaseOrder' /\ CallbackOver'
  BY DEF Control, ObjectTypes, StartFirst, ReleaseOrder, CallbackOver
<1>5. OutputAwaited'
  BY DEF Control, ObjectTypes, StartFirst, ReleaseOrder, CallbackOver, OutputAwaited
<1>6. Referenced' BY DEF Control, ObjectTypes, StartFirst, ReleaseOrder, Referenced
<1>7. Drained'
  BY DEF Control, ObjectTypes, WorldTypes, StartFirst, ReleaseOrder, CallbackOver,
         OutputAwaited, Drained
<1> QED BY <1>1, <1>2, <1>3, <1>4, <1>5, <1>6, <1>7

\* The destructor has waited for the callback, which has waited for the output thread.
LEMMA DestroyDisarmStep == ASSUME IInv, DestroyDisarm PROVE IInv'
<1> USE DEF IInv, TypeOK, ThreadTypes, DestroyDisarm, CallbackRuns
<1>1. ThreadTypes' /\ Control' BY DEF Control
<1>2. ObjectTypes' BY DEF ObjectTypes
<1>3. WorldTypes' BY ConstantsAssumption DEF WorldTypes, ObjectTypes
<1>4. StartFirst' /\ ReleaseOrder' /\ CallbackOver'
  BY DEF Control, ObjectTypes, StartFirst, ReleaseOrder, CallbackOver
<1>5. OutputAwaited'
  BY DEF Control, ObjectTypes, StartFirst, ReleaseOrder, CallbackOver, OutputAwaited
<1>6. Referenced' BY DEF Control, ObjectTypes, StartFirst, ReleaseOrder, Referenced
<1>7. Drained'
  BY DEF Control, ObjectTypes, WorldTypes, StartFirst, ReleaseOrder, CallbackOver,
         OutputAwaited, Drained
<1> QED BY <1>1, <1>2, <1>3, <1>4, <1>5, <1>6, <1>7

\* The members are destroyed when no thread runs.
LEMMA DestroyFreeStep == ASSUME IInv, DestroyFree PROVE IInv'
<1> USE DEF IInv, TypeOK, ThreadTypes, DestroyFree
<1>1. ThreadTypes' /\ Control' BY DEF Control
<1>2. ObjectTypes' BY DEF ObjectTypes
<1>3. WorldTypes' BY ConstantsAssumption DEF WorldTypes, ObjectTypes
<1>4. StartFirst' /\ ReleaseOrder' /\ CallbackOver'
  BY DEF Control, ObjectTypes, StartFirst, ReleaseOrder, CallbackOver
<1>5. OutputAwaited'
  BY DEF Control, ObjectTypes, StartFirst, ReleaseOrder, CallbackOver, OutputAwaited
<1>6. Referenced' BY DEF Control, ObjectTypes, StartFirst, ReleaseOrder, Referenced
<1>7. Drained'
  BY DEF Control, ObjectTypes, WorldTypes, StartFirst, ReleaseOrder, CallbackOver,
         OutputAwaited, Drained
<1> QED BY <1>1, <1>2, <1>3, <1>4, <1>5, <1>6, <1>7

\* Whoever closes the pseudoconsole closes its signal pipe,
LEMMA BreakSignalStep == ASSUME NEW t \in Threads, IInv, BreakSignal(t) PROVE IInv'
<1> USE DEF IInv, TypeOK, ThreadTypes, BreakSignal
<1>1. ThreadTypes' /\ Control' BY DEF Control
<1>2. ObjectTypes' BY DEF ObjectTypes
<1>3. WorldTypes' BY ConstantsAssumption DEF WorldTypes, ObjectTypes
<1>4. StartFirst' /\ ReleaseOrder' /\ CallbackOver'
  BY DEF Control, ObjectTypes, StartFirst, ReleaseOrder, CallbackOver
<1>5. OutputAwaited'
  BY DEF Control, ObjectTypes, StartFirst, ReleaseOrder, CallbackOver, OutputAwaited
<1>6. Referenced' BY DEF Control, ObjectTypes, StartFirst, ReleaseOrder, Referenced
<1>7. Drained'
  BY DEF Control, ObjectTypes, WorldTypes, StartFirst, ReleaseOrder, CallbackOver,
         OutputAwaited, Drained
<1> QED BY <1>1, <1>2, <1>3, <1>4, <1>5, <1>6, <1>7

\* ... waits for the host and goes back to where it was called.
LEMMA WaitHostStep == ASSUME NEW t \in Threads, IInv, WaitHost(t) PROVE IInv'
<1> USE DEF IInv, TypeOK, ThreadTypes, WaitHost, HostIsGone
<1>1. ThreadTypes' /\ Control' BY DEF Control
<1>2. ObjectTypes' BY DEF ObjectTypes
<1>3. WorldTypes' BY ConstantsAssumption DEF WorldTypes, ObjectTypes
<1>4. StartFirst' /\ ReleaseOrder' /\ CallbackOver'
  BY DEF Control, ObjectTypes, StartFirst, ReleaseOrder, CallbackOver
<1>5. OutputAwaited'
  BY DEF Control, ObjectTypes, StartFirst, ReleaseOrder, CallbackOver, OutputAwaited
<1>6. Referenced' BY DEF Control, ObjectTypes, StartFirst, ReleaseOrder, Referenced
<1>7. Drained'
  BY DEF Control, ObjectTypes, WorldTypes, StartFirst, ReleaseOrder, CallbackOver,
         OutputAwaited, Drained
<1> QED BY <1>1, <1>2, <1>3, <1>4, <1>5, <1>6, <1>7

\* The client and the host touch no member of the object.
LEMMA ClientWritesStep == ASSUME IInv, ClientWrites PROVE IInv'
<1> USE DEF IInv, TypeOK, ThreadTypes, ClientWrites
<1>1. ThreadTypes' /\ Control' BY DEF Control
<1>2. ObjectTypes' BY DEF ObjectTypes
<1>3. WorldTypes' BY ConstantsAssumption DEF WorldTypes, ObjectTypes
<1>4. StartFirst' /\ ReleaseOrder' /\ CallbackOver'
  BY DEF Control, ObjectTypes, StartFirst, ReleaseOrder, CallbackOver
<1>5. OutputAwaited'
  BY DEF Control, ObjectTypes, StartFirst, ReleaseOrder, CallbackOver, OutputAwaited
<1>6. Referenced' BY DEF Control, ObjectTypes, StartFirst, ReleaseOrder, Referenced
<1>7. Drained'
  BY DEF Control, ObjectTypes, WorldTypes, StartFirst, ReleaseOrder, CallbackOver,
         OutputAwaited, Drained
<1> QED BY <1>1, <1>2, <1>3, <1>4, <1>5, <1>6, <1>7

LEMMA ClientExitsStep == ASSUME IInv, ClientExits PROVE IInv'
<1> USE DEF IInv, TypeOK, ThreadTypes, ClientExits
<1>1. ThreadTypes' /\ Control' BY DEF Control
<1>2. ObjectTypes' BY DEF ObjectTypes
<1>3. WorldTypes' BY ConstantsAssumption DEF WorldTypes, ObjectTypes
<1>4. StartFirst' /\ ReleaseOrder' /\ CallbackOver'
  BY DEF Control, ObjectTypes, StartFirst, ReleaseOrder, CallbackOver
<1>5. OutputAwaited'
  BY DEF Control, ObjectTypes, StartFirst, ReleaseOrder, CallbackOver, OutputAwaited
<1>6. Referenced' BY DEF Control, ObjectTypes, StartFirst, ReleaseOrder, Referenced
<1>7. Drained'
  BY DEF Control, ObjectTypes, WorldTypes, StartFirst, ReleaseOrder, CallbackOver,
         OutputAwaited, Drained
<1> QED BY <1>1, <1>2, <1>3, <1>4, <1>5, <1>6, <1>7

LEMMA HostSendsStep == ASSUME IInv, HostSends PROVE IInv'
<1> USE DEF IInv, TypeOK, ThreadTypes, HostSends
<1>1. ThreadTypes' /\ Control' BY DEF Control
<1>2. ObjectTypes' BY DEF ObjectTypes
<1>3. WorldTypes' BY ConstantsAssumption DEF WorldTypes, ObjectTypes
<1>4. StartFirst' /\ ReleaseOrder' /\ CallbackOver'
  BY DEF Control, ObjectTypes, StartFirst, ReleaseOrder, CallbackOver
<1>5. OutputAwaited'
  BY DEF Control, ObjectTypes, StartFirst, ReleaseOrder, CallbackOver, OutputAwaited
<1>6. Referenced' BY DEF Control, ObjectTypes, StartFirst, ReleaseOrder, Referenced
<1>7. Drained'
  BY DEF Control, ObjectTypes, WorldTypes, StartFirst, ReleaseOrder, CallbackOver,
         OutputAwaited, Drained
<1> QED BY <1>1, <1>2, <1>3, <1>4, <1>5, <1>6, <1>7

LEMMA HostExitsStep == ASSUME IInv, HostExits PROVE IInv'
<1> USE DEF IInv, TypeOK, ThreadTypes, HostExits
<1>1. ThreadTypes' /\ Control' BY DEF Control
<1>2. ObjectTypes' BY DEF ObjectTypes
<1>3. WorldTypes' BY ConstantsAssumption DEF WorldTypes, ObjectTypes
<1>4. StartFirst' /\ ReleaseOrder' /\ CallbackOver'
  BY DEF Control, ObjectTypes, StartFirst, ReleaseOrder, CallbackOver
<1>5. OutputAwaited'
  BY DEF Control, ObjectTypes, StartFirst, ReleaseOrder, CallbackOver, OutputAwaited
<1>6. Referenced' BY DEF Control, ObjectTypes, StartFirst, ReleaseOrder, Referenced
<1>7. Drained'
  BY DEF Control, ObjectTypes, WorldTypes, StartFirst, ReleaseOrder, CallbackOver,
         OutputAwaited, Drained
<1> QED BY <1>1, <1>2, <1>3, <1>4, <1>5, <1>6, <1>7

LEMMA HostCrashesStep == ASSUME IInv, HostCrashes PROVE IInv'
<1> USE DEF IInv, TypeOK, ThreadTypes, HostCrashes
<1>1. ThreadTypes' /\ Control' BY DEF Control
<1>2. ObjectTypes' BY DEF ObjectTypes
<1>3. WorldTypes' BY ConstantsAssumption DEF WorldTypes, ObjectTypes
<1>4. StartFirst' /\ ReleaseOrder' /\ CallbackOver'
  BY DEF Control, ObjectTypes, StartFirst, ReleaseOrder, CallbackOver
<1>5. OutputAwaited'
  BY DEF Control, ObjectTypes, StartFirst, ReleaseOrder, CallbackOver, OutputAwaited
<1>6. Referenced' BY DEF Control, ObjectTypes, StartFirst, ReleaseOrder, Referenced
<1>7. Drained'
  BY DEF Control, ObjectTypes, WorldTypes, StartFirst, ReleaseOrder, CallbackOver,
         OutputAwaited, Drained
<1> QED BY <1>1, <1>2, <1>3, <1>4, <1>5, <1>6, <1>7

\* A connection begins with nothing running.
LEMMA InitStep == Init => IInv
<1> SUFFICES ASSUME Init PROVE IInv
  OBVIOUS
<1> PICK handoff \in Handoffs :
       /\ pty = handoff /\ outPipe = handoff /\ process = handoff /\ signal = handoff
       /\ host = IF handoff THEN "up" ELSE "none"
       /\ client = host
  BY DEF Init
<1>0. handoff \in BOOLEAN
  BY ConstantsAssumption
<1> USE DEF Init
<1>1. TypeOK
  <2>1. ThreadTypes
    BY DEF ThreadTypes
  <2>2. ObjectTypes
    BY <1>0 DEF ObjectTypes
  <2>3. WorldTypes
    <3>1. signal \in BOOLEAN /\ host \in {"none", "up", "gone"} /\ client \in {"none", "up", "gone"}
      BY <1>0
    <3>2. text \in 0 .. MaxText /\ pending \in 0 .. text /\ pipe \in 0 .. Capacity
      BY ConstantsAssumption
    <3>3. crashed \in BOOLEAN /\ gaveUp \in BOOLEAN /\ late \in BOOLEAN
      OBVIOUS
    <3> QED
      BY <3>1, <3>2, <3>3 DEF WorldTypes
  <2> QED
    BY <2>1, <2>2, <2>3 DEF TypeOK
<1>2. Control /\ StartFirst /\ ReleaseOrder /\ CallbackOver
  BY DEF Control, StartFirst, ReleaseOrder, CallbackOver
<1>3. OutputAwaited
  BY DEF OutputAwaited
<1>4. Referenced /\ Drained
  BY DEF Referenced, Drained
<1> QED
  BY <1>1, <1>2, <1>3, <1>4 DEF IInv

\* No step of any thread or process breaks the invariant.
LEMMA NextStep == IInv /\ [Next]_vars => IInv'
<1> SUFFICES ASSUME IInv, [Next]_vars PROVE IInv'
  OBVIOUS
<1>1. CASE StartStep
  BY <1>1, StartBeginStep, CreateStep, CreateFailsStep, StartOutputThreadStep,
     ThreadFailsStep, ArmStep, ConnectStep DEF StartStep
<1>2. CASE ExitStep
  BY <1>2, ExitCallbackStep, ExitCheckStep, ExitTransitionStep, ExitTakeStep,
     ExitWaitOutputStep, ExitReportStep DEF ExitStep
<1>3. CASE CloseBegin \/ CloseStep
  BY <1>3, CloseBeginStep, CloseDisarmStep, ClosePipesStep, CloseWaitOutputStep,
     CloseWaitClientStep DEF CloseStep
<1>4. CASE OutputStep \/ OutputReadsEmpty \/ OutputError
  BY <1>4, OutputBeginStep, OutputReadStep, OutputEofStep, OutputReadsEmptyStep,
     OutputErrorStep, OutputFailsStep DEF OutputStep
<1>5. CASE DestroyStep
  BY <1>5, FinalReleaseStep, DestroyBuffersStep, DestroyDisarmStep, DestroyFreeStep DEF DestroyStep
<1>6. CASE \E t \in Threads : BreakSignal(t) \/ WaitHost(t)
  BY <1>6, BreakSignalStep, WaitHostStep
<1>7. CASE ClientWrites \/ ClientExits \/ HostSends \/ HostExits \/ HostCrashes
  BY <1>7, ClientWritesStep, ClientExitsStep, HostSendsStep, HostExitsStep, HostCrashesStep
<1>8. CASE UNCHANGED vars
  <2> USE <1>8 DEF vars
  <2>1. TypeOK'
    BY DEF IInv, TypeOK, ThreadTypes, ObjectTypes, WorldTypes
  <2>2. Control' /\ StartFirst' /\ ReleaseOrder' /\ CallbackOver'
    BY DEF IInv, Control, StartFirst, ReleaseOrder, CallbackOver
  <2>3. OutputAwaited' /\ Referenced' /\ Drained'
    BY DEF IInv, OutputAwaited, Referenced, Drained
  <2> QED
    BY <2>1, <2>2, <2>3 DEF IInv
<1> QED
  BY <1>1, <1>2, <1>3, <1>4, <1>5, <1>6, <1>7, <1>8 DEF Next
-----------------------------------------------------------------------------
(***************************************************************************)
(* The theorems                                                             *)
(***************************************************************************)

\* The order in which the threads of a connection wait for each other
\* (ConptyConnection.cpp:251-544) is kept by every interleaving of them.
THEOREM WaitingOrder == Spec => []IInv
BY InitStep, NextStep, PTL DEF Spec

\* Every variable keeps its type, and the output pipe its capacity.
THEOREM TypeCorrect == Spec => []TypeOK
<1>1. IInv => TypeOK
  BY DEF IInv
<1> QED
  BY <1>1, WaitingOrder, PTL

\* Start's failure, the exit callback, Close and the destructor (ConptyConnection.cpp:321,
\* 361, 409) never close the pseudoconsole at the same time.
THEOREM ClosedByOne == Spec => []OneCloser
<1>1. IInv => OneCloser
  BY DEF IInv, OneCloser, Control, StartFirst, ReleaseOrder,
         CallbackOver
<1> QED
  BY <1>1, WaitingOrder, PTL

\* The exit message (ConptyConnection.cpp:369) follows the end of the output thread, and
\* everything the client wrote unless that thread gave up (453-477) or the host crashed.
THEOREM MessageAfterText == Spec => []ExitMessageIsLast
<1>1. IInv => ExitMessageIsLast
  BY DEF IInv, ExitMessageIsLast, StartFirst, OutputAwaited, Drained
<1> QED
  BY <1>1, WaitingOrder, PTL

\* The members go in the reverse order of ConptyConnection.h:73-82: no output thread that
\* had its reference in time finds its buffers gone, and past the exit wait no thread is
\* inside the object (ConptyConnection.cpp:438, 540-544).
THEOREM DestroyedWhenIdle == Spec => []NoUseAfterFree
<1>1. IInv => NoUseAfterFree
  BY DEF IInv, NoUseAfterFree, CallbackRuns, Control, StartFirst, ReleaseOrder,
         CallbackOver, OutputAwaited, Referenced
<1> QED
  BY <1>1, WaitingOrder, PTL
-----------------------------------------------------------------------------
(***************************************************************************)
(* What no step may do                                                      *)
(***************************************************************************)

\* The exit callback checks the state and moves it in two steps
\* (ConptyConnection.cpp:347-360); Close is not over in between.
NoLateVerdict == pc["exit"] = "transition" => state # Closed

\* The callback decides only before Closing, and Close waits for it before it ends.
LEMMA VerdictInTime == IInv /\ NoLateVerdict /\ [Next]_vars => NoLateVerdict'
<1> SUFFICES ASSUME IInv, NoLateVerdict, [Next]_vars PROVE NoLateVerdict'
  OBVIOUS
<1> USE DEF IInv, TypeOK, ThreadTypes, NoLateVerdict
<1>1. CASE StartStep
  BY <1>1 DEF StartStep, StartBegin, Create, CreateFails, StartOutputThread, ThreadFails, Arm, Connect
<1>2. CASE ExitStep
  BY <1>2 DEF ExitStep, ExitCallback, ExitCheck, ExitTransition, ExitTake, ExitWaitOutput,
              ExitReport
<1>3. CASE CloseBegin \/ CloseStep
  BY <1>3 DEF CloseBegin, CloseStep, CloseDisarm, ClosePipes, CloseWaitOutput,
              CloseWaitClient, CallbackOver
<1>4. CASE OutputStep \/ OutputReadsEmpty \/ OutputError
  BY <1>4 DEF OutputStep, OutputBegin, OutputRead, OutputEof, OutputReadsEmpty, OutputFails,
              OutputError, OutputEnds
<1>5. CASE DestroyStep
  BY <1>5 DEF DestroyStep, FinalRelease, DestroyBuffers, DestroyDisarm, DestroyFree
<1>6. ASSUME NEW t \in Threads, BreakSignal(t) \/ WaitHost(t) PROVE NoLateVerdict'
  BY <1>6 DEF BreakSignal, WaitHost, Control
<1>7. CASE ClientWrites \/ ClientExits \/ HostSends \/ HostExits \/ HostCrashes
  BY <1>7 DEF ClientWrites, ClientExits, HostSends, HostExits, HostCrashes
<1>8. CASE UNCHANGED vars
  BY <1>8 DEF vars
<1> QED
  BY <1>1, <1>2, <1>3, <1>4, <1>5, <1>6, <1>7, <1>8 DEF Next

\* A connection that is Closed stays so, whether Close or the exit callback closed it, and
\* whatever the other of them, Start or the destructor still have to do: only an output
\* thread that fails makes it Failed (ConnectionStateHolder.h, ConptyConnection.cpp:347-360,
\* 404-429, 453, 470).
ClosedIsFinal == [][state = Closed => state' = Closed \/ OutputFails]_vars

\* No step but the output thread's failure moves on from Closed.
LEMMA ClosedStays ==
  ASSUME IInv, NoLateVerdict, [Next]_vars, state = Closed
  PROVE  state' = Closed \/ OutputFails
<1> USE DEF IInv, TypeOK, ThreadTypes
<1>1. CASE StartStep
  BY <1>1 DEF StartStep, StartBegin, Create, CreateFails, StartOutputThread, ThreadFails, Arm, Connect,
              StartFirst
<1>2. CASE ExitStep
  BY <1>2 DEF ExitStep, ExitCallback, ExitCheck, ExitTransition, ExitTake, ExitWaitOutput,
              ExitReport, NoLateVerdict
<1>3. CASE CloseBegin \/ CloseStep
  BY <1>3 DEF CloseBegin, CloseStep, CloseDisarm, ClosePipes, CloseWaitOutput, CloseWaitClient
<1>4. CASE OutputStep \/ OutputReadsEmpty \/ OutputError
  BY <1>4 DEF OutputStep, OutputBegin, OutputRead, OutputEof, OutputReadsEmpty, OutputError
<1>5. CASE DestroyStep
  BY <1>5 DEF DestroyStep, FinalRelease, DestroyBuffers, DestroyDisarm, DestroyFree
<1>6. ASSUME NEW t \in Threads, BreakSignal(t) \/ WaitHost(t) PROVE state' = Closed
  BY <1>6 DEF BreakSignal, WaitHost
<1>7. CASE ClientWrites \/ ClientExits \/ HostSends \/ HostExits \/ HostCrashes
  BY <1>7 DEF ClientWrites, ClientExits, HostSends, HostExits, HostCrashes
<1>8. CASE UNCHANGED vars
  BY <1>8 DEF vars
<1> QED
  BY <1>1, <1>2, <1>3, <1>4, <1>5, <1>6, <1>7, <1>8 DEF Next

\* Close and the exit callback never overrule each other once one of them has closed the
\* connection, although the callback moves to Closed or Failed without looking again.
THEOREM ClosedForGood == Spec => ClosedIsFinal
<1>1. Init => NoLateVerdict
  BY DEF Init, NoLateVerdict
<1>2. IInv /\ NoLateVerdict /\ [Next]_vars => [state = Closed => state' = Closed \/ OutputFails]_vars
  BY ClosedStays
<1> QED
  BY <1>1, <1>2, VerdictInTime, WaitingOrder, PTL DEF Spec, ClosedIsFinal
=============================================================================
