---------------------------- MODULE StateMachine ----------------------------
(***************************************************************************)
(* The parser of control sequences                                          *)
(* (src/src/terminal/parser/stateMachine.cpp; VTIDBuilder in                *)
(* DispatchTypes.hpp; what the two engines answer it).                      *)
(*                                                                          *)
(* Text comes in strings that end anywhere, also inside a sequence.  The    *)
(* parser skips over runs of plain text, takes the rest one character at a  *)
(* time, and must still be able to pass a whole sequence through to the     *)
(* terminal when its engine does not understand it.  A character stands     *)
(* for the class of characters that the parser treats alike; the engine is  *)
(* an environment that answers as it likes.                                 *)
(***************************************************************************)
EXTENDS Integers, Sequences, FiniteSets, FiniteSetsExt, SequencesExt

CONSTANTS
  Chars,      \* the characters that may arrive
  Engines,    \* a subset of {"output", "input"}
  MaxValue,   \* MAX_PARAMETER_VALUE
  MaxCount,   \* MAX_PARAMETER_COUNT
  MaxCollect, \* characters of an identifier besides the final one (7 of 8 bytes)
  MaxSeq,     \* bound: characters of a sequence ...
  MaxString,  \* ... and of one that takes any characters
  MaxText     \* bound: characters of a run of text

Delete == {"DEL"}
C0Codes == {"BEL", "LF"}
C1Controls == {"CSI", "OSC", "ST"}
Digits == {"9"}
Delimiter == {";"}
Intermediates == {"SP"}
PrivateMarkers == {"?"}
CsiInvalid == {":"}
Unaddressed == {"[", "]", "P", "O", "X", "BACKSLASH", "Y", "u"}
AllChars == Delete \cup C0Codes \cup C1Controls \cup Digits \cup Delimiter \cup Intermediates
            \cup PrivateMarkers \cup CsiInvalid \cup Unaddressed \cup {"ESC", "CAN"}

ASSUME ConstantsAssumption ==
  /\ Chars \subseteq AllChars
  /\ Engines \subseteq {"output", "input"} /\ Engines # {}
  /\ MaxValue \in Nat /\ MaxCount \in Nat \ {0, 1} /\ MaxCollect \in Nat \ {0}
  /\ MaxSeq \in Nat /\ MaxString \in Nat /\ MaxText \in Nat

ParameterInvalid == CsiInvalid \cup PrivateMarkers
IntermediateInvalid == Digits \cup Delimiter \cup ParameterInvalid
ActionableFromGround == C0Codes \cup C1Controls \cup Delete \cup {"ESC", "CAN"}
C1To7Bit == [CSI |-> "[", OSC |-> "]", ST |-> "BACKSLASH"]
DigitValue == [d \in Digits |-> 9]
Default == -1  \* a parameter that is not given

VARIABLES
  m,         \* the state machine's members, and the calls it made to its engine
             \* in the last step
  engine,    \* its engine
  ended,     \* ProcessString has returned
  seq,       \* history: the characters since the machine left the ground
  rung,      \* history: the engine had a BEL inside the sequence passed through
  received,  \* history: text that arrived ...
  printed    \* ... and what the engine printed of it

history == <<seq, rung, received, printed>>
vars == <<m, engine, ended, history>>

NewMachine ==
  [state |-> "Ground", ansi |-> TRUE, params |-> <<>>, limit |-> FALSE, id |-> <<>>,
   oscParam |-> 0, osc |-> <<>>, handler |-> FALSE,
   individually |-> FALSE, run |-> <<>>, cached |-> <<>>, calls |-> <<>>]

Init ==
  /\ m = NewMachine
  /\ engine \in Engines
  /\ ended = TRUE
  /\ seq = <<>> /\ rung = FALSE
  /\ received = <<>> /\ printed = <<>>
-----------------------------------------------------------------------------
(***************************************************************************)
(* Actions: x is the machine, c the character, ok the engine's answer       *)
(***************************************************************************)

Call(x, kind, arg) == [x EXCEPT !.calls = Append(@, [kind |-> kind, arg |-> arg])]

\* FlushToTerminal: the part of the sequence from earlier strings, then the run.
FlushToTerminal(x) == [Call(x, "pass", x.cached \o x.run) EXCEPT !.cached = <<>>]

\* The dispatches that an engine may answer by having the sequence passed through
Flushing == [output |-> {"esc", "csi", "osc"}, input |-> {"esc", "csi", "ss3", "executeEscape"}]

Dispatch(x, kind, c, ok) ==
  LET called == Call(x, kind, <<c>>) IN
    IF kind \in Flushing[engine] /\ ~ok THEN FlushToTerminal(called) ELSE called

\* ActionExecute; the output engine passes a BEL on to the terminal, if there is one
Execute(x, c, ok) ==
  LET called == Call(x, "execute", <<c>>) IN
    IF c = "BEL" /\ engine = "output" /\ ~ok THEN FlushToTerminal(called) ELSE called

\* VTIDBuilder::AddIntermediate: too many of them give an identifier of zeros
Collect(x, c) ==
  [x EXCEPT !.id = IF Len(@) < MaxCollect THEN Append(@, c) ELSE [i \in DOMAIN @ |-> "NUL"]]

\* _AccumulateTo
Accumulate(value, c) ==
  LET sum == value * 10 + DigitValue[c] IN IF sum > MaxValue THEN MaxValue ELSE sum

\* _ActionParam: the first character makes room for the first parameter
Param(x, c) ==
  LET ps == IF x.params = <<>> THEN <<Default>> ELSE x.params
      last == Last(ps)
      value == IF last = Default THEN 0 ELSE last
  IN IF x.limit THEN x
     ELSE IF c \notin Delimiter
       THEN [x EXCEPT !.params = [ps EXCEPT ![Len(ps)] = Accumulate(value, c)]]
     ELSE IF Len(ps) >= MaxCount
       THEN [x EXCEPT !.params = ps, !.limit = TRUE]
     ELSE [x EXCEPT !.params = Append(ps, Default)]

\* Mutation: the limit of one sequence is still in force for the next.
ClearKeepsLimit(x) ==
  [x EXCEPT !.id = <<>>, !.params = <<>>, !.osc = <<>>, !.oscParam = 0, !.handler = FALSE]

Clear(x) ==
  [x EXCEPT !.id = <<>>, !.params = <<>>, !.limit = FALSE, !.osc = <<>>, !.oscParam = 0,
            !.handler = FALSE]

\* _ActionInterrupt: a DCS string that is cut off is told so
Interrupt(x) ==
  IF x.state = "DcsPassThrough"
    THEN [Call(x, "dcsPut", <<"ESC">>) EXCEPT !.handler = FALSE]
    ELSE x

\* Mutation: the part of a finished sequence is kept.
EnterKeepsCache(x, s) ==
  LET y == IF s \in {"Escape", "CsiEntry", "Ss3Entry", "DcsEntry"} THEN Clear(x) ELSE x IN
    [y EXCEPT !.state = s]

\* _EnterXxx
Enter(x, s) ==
  LET y == IF s \in {"Escape", "CsiEntry", "Ss3Entry", "DcsEntry"} THEN Clear(x) ELSE x IN
    [y EXCEPT !.state = s, !.cached = IF s = "Ground" THEN <<>> ELSE @]

\* Mutation: an engine without a handler is not noticed.
DcsDispatchUnchecked(x, c, ok) ==
  Enter([Call(x, "dcs", <<c>>) EXCEPT !.handler = ok], "DcsPassThrough")

\* _ActionDcsDispatch: the engine returns a handler for the string, or null
DcsDispatch(x, c, ok) ==
  Enter([Call(x, "dcs", <<c>>) EXCEPT !.handler = ok], IF ok THEN "DcsPassThrough" ELSE "DcsIgnore")

\* The handler may refuse the rest of the string.
DcsPut(x, c, ok) ==
  LET called == Call(x, "dcsPut", <<c>>) IN IF ok THEN called ELSE Enter(called, "DcsIgnore")

\* _EventVt52Param: two characters are the parameters of the command 'Y'
Vt52Put(x, c, ok) ==
  LET y == [x EXCEPT !.params = Append(@, 0)] IN
    IF Len(y.params) = 2 THEN Enter(Dispatch(y, "vt52", "Y", ok), "Ground") ELSE y

Act(a, x, c, ok) ==
  CASE a = "Ignore" -> x
    [] a = "Print" -> Call(x, "print", <<c>>)
    [] a = "Execute" -> Execute(x, c, ok)
    [] a = "Collect" -> Collect(x, c)
    [] a = "Param" -> Param(x, c)
    [] a = "OscParam" -> [x EXCEPT !.oscParam = Accumulate(@, c)]
    [] a = "OscPut" -> [x EXCEPT !.osc = Append(@, c)]
    [] a = "DcsPut" -> DcsPut(x, c, ok)
    [] a = "Vt52Put" -> Vt52Put(x, c, ok)
    [] a = "dcs" -> DcsDispatch(x, c, ok)
    [] OTHER -> Dispatch(x, a, c, ok)
-----------------------------------------------------------------------------
(***************************************************************************)
(* _EventXxx: per state the rows (characters, action, next state), of which *)
(* the first that has the character applies; Stay enters no state.          *)
(***************************************************************************)
Stay == "stay"

EventGround == <<
  <<C0Codes \cup Delete, "Execute", Stay>>,
  <<AllChars, "Print", Stay>> >>

\* The input engine takes control characters and intermediates after ESC for Alt
\* with a key (CAN is no C0 code: it is dispatched like a letter); SS3 sequences
\* and the others are introduced in ANSI mode only.
EventEscape(ansi) == <<
  <<IF engine = "input" THEN C0Codes ELSE {}, "executeEscape", "Ground">>,
  <<C0Codes, "Execute", Stay>>,
  <<Delete, "Ignore", Stay>>,
  <<IF engine = "input" THEN Intermediates ELSE {}, "esc", "Ground">>,
  <<Intermediates, "Collect", "EscapeIntermediate">>,
  <<IF ansi THEN {"["} ELSE {}, "Ignore", "CsiEntry">>,
  <<IF ansi THEN {"]"} ELSE {}, "Ignore", "OscParam">>,
  <<IF ansi /\ engine = "input" THEN {"O"} ELSE {}, "Ignore", "Ss3Entry">>,
  <<IF ansi THEN {"P"} ELSE {}, "Ignore", "DcsEntry">>,
  <<IF ansi THEN {"X"} ELSE {}, "Ignore", "SosPmApcString">>,
  <<IF ansi THEN AllChars ELSE {}, "esc", "Ground">>,
  <<{"Y"}, "Ignore", "Vt52Param">>,
  <<AllChars, "vt52", "Ground">> >>

EventEscapeIntermediate(ansi) == <<
  <<C0Codes, "Execute", Stay>>,
  <<Intermediates, "Collect", Stay>>,
  <<Delete, "Ignore", Stay>>,
  <<IF ansi THEN AllChars ELSE {}, "esc", "Ground">>,
  <<{"Y"}, "Ignore", "Vt52Param">>,
  <<AllChars, "vt52", "Ground">> >>

EventCsiEntry == <<
  <<C0Codes, "Execute", Stay>>,
  <<Delete, "Ignore", Stay>>,
  <<Intermediates, "Collect", "CsiIntermediate">>,
  <<CsiInvalid, "Ignore", "CsiIgnore">>,
  <<Digits \cup Delimiter, "Param", "CsiParam">>,
  <<PrivateMarkers, "Collect", "CsiParam">>,
  <<AllChars, "csi", "Ground">> >>

EventCsiIntermediate == <<
  <<C0Codes, "Execute", Stay>>,
  <<Intermediates, "Collect", Stay>>,
  <<Delete, "Ignore", Stay>>,
  <<IntermediateInvalid, "Ignore", "CsiIgnore">>,
  <<AllChars, "csi", "Ground">> >>

EventCsiIgnore == <<
  <<C0Codes, "Execute", Stay>>,
  <<Delete \cup Intermediates \cup IntermediateInvalid, "Ignore", Stay>>,
  <<AllChars, "Ignore", "Ground">> >>

EventCsiParam == <<
  <<C0Codes, "Execute", Stay>>,
  <<Delete, "Ignore", Stay>>,
  <<Digits \cup Delimiter, "Param", Stay>>,
  <<Intermediates, "Collect", "CsiIntermediate">>,
  <<ParameterInvalid, "Ignore", "CsiIgnore">>,
  <<AllChars, "csi", "Ground">> >>

EventOscParam == <<
  <<{"BEL"}, "Ignore", "Ground">>,
  <<Digits, "OscParam", Stay>>,
  <<Delimiter, "Ignore", "OscString">>,
  <<AllChars, "Ignore", Stay>> >>

EventOscString == <<
  <<{"BEL"}, "osc", "Ground">>,
  <<{"ESC"}, "Ignore", "OscTermination">>,
  <<C0Codes, "Ignore", Stay>>,
  <<AllChars, "OscPut", Stay>> >>

\* (what is not a terminator is an event of the state Escape)
EventOscTermination == << <<{"BACKSLASH"}, "osc", "Ground">> >>

EventSs3Entry == <<
  <<C0Codes, "Execute", Stay>>,
  <<Delete, "Ignore", Stay>>,
  <<CsiInvalid, "Ignore", "CsiIgnore">>,
  <<Digits \cup Delimiter, "Param", "Ss3Param">>,
  <<AllChars, "ss3", "Ground">> >>

EventSs3Param == <<
  <<C0Codes, "Execute", Stay>>,
  <<Delete, "Ignore", Stay>>,
  <<Digits \cup Delimiter, "Param", Stay>>,
  <<ParameterInvalid, "Ignore", "CsiIgnore">>,
  <<AllChars, "ss3", "Ground">> >>

EventVt52Param == <<
  <<C0Codes, "Execute", Stay>>,
  <<Delete, "Ignore", Stay>>,
  <<AllChars, "Vt52Put", Stay>> >>

EventDcsEntry == <<
  <<C0Codes \cup Delete, "Ignore", Stay>>,
  <<CsiInvalid, "Ignore", "DcsIgnore">>,
  <<Digits \cup Delimiter, "Param", "DcsParam">>,
  <<Intermediates, "Collect", "DcsIntermediate">>,
  <<AllChars, "dcs", Stay>> >>

EventDcsIntermediate == <<
  <<C0Codes \cup Delete, "Ignore", Stay>>,
  <<Intermediates, "Collect", Stay>>,
  <<IntermediateInvalid, "Ignore", "DcsIgnore">>,
  <<AllChars, "dcs", Stay>> >>

\* An "else" is missing after the first two branches: a control character or a
\* DEL is ignored and then goes on to the others, the last of which dispatches it.
EventDcsParam == <<
  <<Digits \cup Delimiter, "Param", Stay>>,
  <<Intermediates, "Collect", "DcsIntermediate">>,
  <<ParameterInvalid, "Ignore", "DcsIgnore">>,
  <<AllChars, "dcs", Stay>> >>

EventDcsPassThrough == <<
  <<AllChars \ (Delete \cup {"u"}), "DcsPut", Stay>>,
  <<AllChars, "Ignore", Stay>> >>

EventIgnoreAll == << <<AllChars, "Ignore", Stay>> >>

Events(ansi) ==
  [Ground |-> EventGround, Escape |-> EventEscape(ansi),
   EscapeIntermediate |-> EventEscapeIntermediate(ansi),
   CsiEntry |-> EventCsiEntry, CsiIntermediate |-> EventCsiIntermediate,
   CsiIgnore |-> EventCsiIgnore, CsiParam |-> EventCsiParam,
   OscParam |-> EventOscParam, OscString |-> EventOscString,
   OscTermination |-> EventOscTermination,
   Ss3Entry |-> EventSs3Entry, Ss3Param |-> EventSs3Param, Vt52Param |-> EventVt52Param,
   DcsEntry |-> EventDcsEntry, DcsIgnore |-> EventIgnoreAll,
   DcsIntermediate |-> EventDcsIntermediate, DcsParam |-> EventDcsParam,
   DcsPassThrough |-> EventDcsPassThrough, SosPmApcString |-> EventIgnoreAll]

States == DOMAIN Events(TRUE)
-----------------------------------------------------------------------------
(***************************************************************************)
(* ProcessCharacter and ProcessString                                       *)
(***************************************************************************)

FirstRow(rows, c) ==
  CHOOSE i \in DOMAIN rows : c \in rows[i][1] /\ \A j \in 1 .. i - 1 : c \notin rows[j][1]

Event(x, c, ok) ==
  LET rows == Events(x.ansi)[x.state]
      row == rows[FirstRow(rows, c)]
      done == Act(row[2], x, c, ok)
  IN IF row[3] = Stay THEN done ELSE Enter(done, row[3])

\* A character that is not a C1 control
ProcessPlain(x, c, ok) ==
  IF c = "CAN" /\ ~(x.state = "Escape" /\ engine = "input")
    THEN Enter(Execute(Interrupt(x), c, ok), "Ground")
  ELSE IF c = "ESC" /\ x.state # "OscString"
    THEN Enter(Interrupt(x), "Escape")
  ELSE LET unterminated == x.state = "OscTermination" /\ c # "BACKSLASH"
       IN Event(IF unterminated THEN Enter(x, "Escape") ELSE x, c, ok)

\* A C1 control is an escape and a 7 bit character.
ProcessCharacter(x, c, ok) ==
  IF c \in C1Controls
    THEN ProcessPlain(ProcessPlain(x, "ESC", ok), C1To7Bit[c], ok)
    ELSE ProcessPlain(x, c, ok)

\* ActionPrintString returns at once for an empty string.
PrintString(x, string) == IF string = <<>> THEN x ELSE Call(x, "print", string)

\* One character that is processed individually; back at the ground the next run begins.
ProcessIndividually(x, c, ok) ==
  LET y == ProcessCharacter(x, c, ok) IN
    IF y.state = "Ground" THEN [y EXCEPT !.individually = FALSE, !.run = <<>>] ELSE y

\* Mutation: the run before a control character is not printed.
ProcessNextDropsRun(c, ok) ==
  LET control == ~m.individually /\ c \in ActionableFromGround
      x == [m EXCEPT !.calls = <<>>, !.individually = @ \/ control,
                     !.run = IF control THEN <<c>> ELSE Append(@, c)]
  IN IF x.individually THEN ProcessIndividually(x, c, ok) ELSE x

\* The iterations of ProcessString's loop for one character
ProcessNext(c, ok) ==
  LET control == ~m.individually /\ c \in ActionableFromGround
      before == PrintString([m EXCEPT !.calls = <<>>], IF control THEN m.run ELSE <<>>)
      x == [before EXCEPT !.individually = @ \/ control,
                          !.run = IF control THEN <<c>> ELSE Append(@, c)]
  IN IF x.individually THEN ProcessIndividually(x, c, ok) ELSE x

\* FlushAtEndOfString: the run is processed again, but for its last character,
\* which is dispatched whatever it is.  An empty string has none: *wchIter is
\* then what the memory holds.
FlushAtEndOfString(x, last, ok) ==
  LET replay[n \in 0 .. Len(x.run)] ==
        IF n = 0 THEN Enter(x, "Ground") ELSE ProcessCharacter(replay[n - 1], x.run[n], ok)
      replayed == replay[IF x.run = <<>> THEN 0 ELSE Len(x.run) - 1]
      s == replayed.state
      dispatched ==
        CASE s = "Ground" -> Execute(replayed, last, ok)
          [] s \in {"Escape", "EscapeIntermediate"} -> Dispatch(replayed, "esc", last, ok)
          [] s \in {"CsiEntry", "CsiIntermediate", "CsiIgnore", "CsiParam"} ->
               Dispatch(replayed, "csi", last, ok)
          [] s \in {"OscParam", "OscString", "OscTermination"} -> Dispatch(replayed, "osc", last, ok)
          [] s \in {"Ss3Entry", "Ss3Param"} -> Dispatch(replayed, "ss3", last, ok)
          [] OTHER -> replayed
  IN Enter(dispatched, "Ground")

\* ... and what ProcessString does behind the loop
ProcessRest(last, ok) ==
  LET x == [m EXCEPT !.calls = <<>>]
      y == IF ~x.individually THEN PrintString(x, x.run)
           ELSE IF engine = "input" THEN FlushAtEndOfString(x, last, ok)
           ELSE [x EXCEPT !.cached = @ \o x.run]
  IN [y EXCEPT !.run = <<>>]
-----------------------------------------------------------------------------
\* The characters of the sequence, and the text, that this step has seen.
NoteSequence(arrived) ==
  LET inside == m.state # "Ground" IN
    /\ seq' = (IF inside THEN seq ELSE <<>>) \o arrived
    /\ rung' = \/ inside /\ rung
               \/ m'.state # "Ground" /\ \E i \in DOMAIN m'.calls : m'.calls[i].kind = "pass"

\* What these calls print
TextOf(calls) ==
  LET text[n \in 0 .. Len(calls)] ==
        IF n = 0 THEN <<>>
        ELSE IF calls[n].kind = "print" THEN text[n - 1] \o calls[n].arg ELSE text[n - 1]
  IN text[Len(calls)]

NoteText(arrived) ==
  LET got == received \o arrived
      put == printed \o TextOf(m'.calls)
  IN /\ received' = IF got = put THEN <<>> ELSE got
     /\ printed' = IF got = put THEN <<>> ELSE put

\* The states that take any characters
Strings == {"OscParam", "OscString", "DcsPassThrough", "DcsIgnore", "SosPmApcString", "CsiIgnore"}

\* ProcessString takes the next character of its string; the engine answers as it likes.
Character(c) ==
  /\ m.state # "Ground" => Len(seq) < IF m.state \in Strings THEN MaxString ELSE MaxSeq
  /\ Len(received) < MaxText
  /\ m' \in {ProcessNext(c, ok) : ok \in BOOLEAN}
  /\ ended' = FALSE
  /\ LET text == m.state = "Ground" /\ c \notin ActionableFromGround IN
       /\ NoteSequence(IF text THEN <<>> ELSE <<c>>)
       /\ NoteText(IF text THEN <<c>> ELSE <<>>)
  /\ UNCHANGED engine

\* The string is over; last is its last character, or any if there is none.
EndOfString ==
  /\ LET lasts == IF m.run = <<>> THEN Chars ELSE {Last(m.run)} IN
       m' \in {ProcessRest(last, ok) : last \in lasts, ok \in BOOLEAN}
  /\ ended' = TRUE
  /\ NoteSequence(<<>>)
  /\ NoteText(<<>>)
  /\ UNCHANGED engine

\* Virtual terminal processing is turned off for the output, between two strings.
ResetState ==
  /\ ended /\ engine = "output"
  /\ m' = [Enter(m, "Ground") EXCEPT !.calls = <<>>]
  /\ UNCHANGED <<engine, ended, history>>

\* The sequence that was just dispatched changes the mode of the machine.
SetAnsiMode(ansi) ==
  /\ engine = "output" /\ m.state = "Ground"
  /\ m.calls # <<>> /\ Last(m.calls).kind \in {"esc", "csi", "vt52"}
  /\ m' = [m EXCEPT !.ansi = ansi, !.calls = <<>>]
  /\ NoteSequence(<<>>)
  /\ UNCHANGED <<engine, ended, received, printed>>

Next ==
  \/ \E c \in Chars : Character(c)
  \/ EndOfString
  \/ ResetState
  \/ \E ansi \in BOOLEAN : SetAnsiMode(ansi)

Spec == Init /\ [][Next]_vars
-----------------------------------------------------------------------------
(***************************************************************************)
(* Properties                                                               *)
(***************************************************************************)

CallKinds == {"print", "execute", "executeEscape", "esc", "vt52", "csi", "osc", "ss3", "dcs",
              "dcsPut", "pass"}

Calls == [kind : CallKinds, arg : Seq(AllChars)]

Machine ==
  [state : States, ansi : BOOLEAN,
   params : Seq(Default .. MaxValue), limit : BOOLEAN, id : Seq(AllChars \cup {"NUL"}),
   oscParam : 0 .. MaxValue, osc : Seq(AllChars), handler : BOOLEAN,
   individually : BOOLEAN, run : Seq(Chars), cached : Seq(Chars), calls : Seq(Calls)]

\* Every member has its type; the sequence's data stay within the limits that the
\* code gives them (stateMachine.hpp), and the machine runs through a string of a
\* DCS sequence only while it has a handler to call for it (_dcsStringHandler).
TypeOK ==
  /\ m \in Machine
  /\ Len(m.params) <= MaxCount /\ Len(m.id) <= MaxCollect
  /\ m.state = "DcsPassThrough" => m.handler
  /\ engine \in Engines /\ ended \in BOOLEAN
  /\ seq \in Seq(Chars) /\ rung \in BOOLEAN
  /\ received \in Seq(Chars) /\ printed \in Seq(AllChars)

\* Skipping over runs of text loses, repeats and reorders nothing: what is printed
\* is what arrived, in its order; all of it is printed before anything that comes
\* after it is executed or dispatched, and before ProcessString returns.
TextInOrder ==
  /\ IsPrefix(printed, received)
  /\ ended \/ (\E i \in DOMAIN m.calls : m.calls[i].kind # "print") => received = <<>>
  /\ \A i \in DOMAIN m.calls : m.calls[i].kind = "print" => i = 1

\* A sequence that the engine wants passed through (FlushToTerminal) is passed whole,
\* from the character that left the ground to the last one, however it was cut into
\* strings.  (A BEL inside it has the part up to the BEL passed by itself;
\* such a sequence is exempt.)
WholeSequencePassed ==
  \A i \in DOMAIN m.calls : m.calls[i].kind = "pass" => rung \/ m.calls[i].arg = seq

-----------------------------------------------------------------------------
(***************************************************************************)
(* The inductive invariant behind these properties                          *)
(***************************************************************************)

\* A machine between two characters: parameters begin behind an introducer, VT52
\* sequences are for VT52 mode, and the ground knows no earlier strings.
Sound(x) ==
  /\ x \in Machine
  /\ Len(x.params) <= MaxCount /\ Len(x.id) <= MaxCollect
  /\ x.state \in {"Escape", "EscapeIntermediate"} => x.params = <<>>
  /\ x.state = "Vt52Param" => Len(x.params) <= 1 /\ ~x.ansi
  /\ x.state = "DcsPassThrough" => x.handler
  /\ x.state = "Ground" => x.cached = <<>>

\* Text is only skipped over on the ground; a run is gone when it was dealt with.
RunInv ==
  /\ m.state # "Ground" => m.individually
  /\ m.individually /\ m.state = "Ground" => m.run = <<>>
  /\ ended => m.run = <<>>

\* What was skipped over is the text not printed yet.
TextInv == printed = <<>> /\ received = IF m.individually THEN <<>> ELSE m.run

\* The sequence is in the earlier strings and this one.
SequenceInv == m.state # "Ground" => rung \/ seq = m.cached \o m.run

\* The states after each character of a run, up to what the engine answers to a DCS
Alike(s) == IF s = "DcsPassThrough" THEN "DcsIgnore" ELSE s
Follow(s, c) == Alike(ProcessCharacter([NewMachine EXCEPT !.state = s], c, TRUE).state)
Retrace(run) ==
  LET after[n \in 0 .. Len(run)] == IF n = 0 THEN "Ground" ELSE Follow(after[n - 1], run[n])
  IN after

\* The input engine sees every sequence in one string: processing the run again
\* comes to the same state, and not to the ground before.
ReplayInv ==
  engine = "input" =>
    /\ m.ansi /\ m.cached = <<>>
    /\ m.individually => LET after == Retrace(m.run) IN
         /\ after[Len(m.run)] = Alike(m.state)
         /\ \A n \in 1 .. Len(m.run) : after[n] # "Ground"

IInv ==
  /\ Sound(m) /\ TypeOK
  /\ RunInv /\ TextInv /\ SequenceInv /\ ReplayInv
  /\ TextInOrder /\ WholeSequencePassed
-----------------------------------------------------------------------------
(***************************************************************************)
(* What the characters of a sequence say, and what the engine is told       *)
(***************************************************************************)

\* The characters of s that are in S, in their order.  (SelectSeq, as a recursive
\* function: the provers have no definition of SelectSeq.)
Only(s, S) ==
  LET kept[n \in 0 .. Len(s)] ==
        IF n = 0 THEN <<>>
        ELSE IF s[n] \in S THEN Append(kept[n - 1], s[n]) ELSE kept[n - 1]
  IN kept[Len(s)]

\* A sequence without what may be anywhere in it
Seen(s) == Only(s, AllChars \ (C0Codes \cup Delete))

\* What introduces the sequences that come with data
Introducers == [csi |-> {"[", "CSI"}, ss3 |-> {"O"}, dcs |-> {"P"}, osc |-> {"]", "OSC"}]

\* The characters of s behind the last of these introducers
Behind(s, introducers) ==
  LET starts == {i \in DOMAIN s : \/ s[i] \in introducers \cap C1Controls
                                  \/ i > 1 /\ s[i - 1] = "ESC" /\ s[i] \in introducers}
  IN SubSeq(s, Max(starts) + 1, Len(s))

\* The number of delimiters in front of a character
Before(s, i) == Cardinality({j \in 1 .. i - 1 : s[j] \in Delimiter})

\* The decimal number that the digits of s between its (k-1)-th and its k-th
\* delimiter spell, if there are any, up to the limit
Field(s, k) ==
  LET number[n \in 0 .. Len(s)] ==
        IF n = 0 THEN Default
        ELSE IF s[n] \in Digits /\ Before(s, n) = k - 1
          THEN 10 * (IF number[n - 1] = Default THEN 0 ELSE number[n - 1]) + DigitValue[s[n]]
        ELSE number[n - 1]
  IN Min({number[Len(s)], MaxValue})

Fields(s) ==
  IF s = <<>> THEN <<>> ELSE [k \in 1 .. Min({Before(s, Len(s) + 1) + 1, MaxCount}) |-> Field(s, k)]

Parameters(s) == Fields(Only(s, Digits \cup Delimiter))
Identifier(s) ==
  LET collected == Only(s, Intermediates \cup PrivateMarkers) IN
    IF Len(collected) <= MaxCollect THEN collected ELSE [i \in 1 .. MaxCollect |-> "NUL"]

\* The parameters and the identifier are those of s ...
Holds(x, s) == x.params = Parameters(s) /\ x.id = Identifier(s)

\* ... the number is the one in front of the first delimiter of s, and the string
\* what is behind it (where the parser keeps a DEL and the ESC of the terminator is not).
OscHolds(x, s) ==
  LET cut == Min({k \in DOMAIN s : s[k] \in Delimiter}) IN
    /\ x.oscParam = Max({0, Field(s, 1)})
    /\ Only(x.osc, AllChars \ Delete) = Only(SubSeq(s, cut + 1, Len(s)), AllChars \ {"ESC"})

\* A sequence of this kind is dispatched with what its characters s say.
Matches(x, s, kind) ==
  /\ kind \in {"csi", "ss3", "dcs"} => Holds(x, Behind(s, Introducers[kind]))
  /\ kind = "osc" => OscHolds(x, Behind(s, Introducers[kind]))

\* What a sequence is dispatched with is what its characters say, however often it
\* was begun anew, interrupted by control characters or cut into strings before: the
\* fields between the delimiters as decimal numbers, up to the limits on their size
\* and their number, and the characters collected.
DataMatchesSequence ==
  ~ended => \A i \in DOMAIN m.calls : Matches(m, Seen(Front(seq)), m.calls[i].kind)

\* The kind of sequence whose parameters a state reads
Reading(s) ==
  CASE s \in {"CsiEntry", "CsiParam", "CsiIntermediate"} -> "csi"
    [] s \in {"Ss3Entry", "Ss3Param"} -> "ss3"
    [] s \in {"DcsEntry", "DcsParam", "DcsIntermediate"} -> "dcs"
    [] OTHER -> "none"

\* The k-th character of s is an introducer, and no other one is begun behind it.
Opened(s, introducers, k) ==
  /\ \/ s[k] \in introducers \cap C1Controls
     \/ k > 1 /\ s[k - 1] = "ESC" /\ s[k] \in introducers
  /\ \A i \in k + 1 .. Len(s) : s[i] \notin C1Controls \cup {"ESC"}

Open(s, introducers) == \E k \in 1 .. Len(s) : Opened(s, introducers, k)

\* Nothing is left of the sequence before.
Fresh(x) == x.params = <<>> /\ x.limit = FALSE /\ x.id = <<>> /\ x.osc = <<>> /\ x.oscParam = 0

\* The limit is in force when there are delimiters for more than all parameters.
LimitHolds(x, s) ==
  LET p == Only(s, Digits \cup Delimiter) IN x.limit = (Before(p, Len(p) + 1) >= MaxCount)

\* Inside a sequence the machine has what its characters s said so far.
Reads(x, s) ==
  /\ x.state = "Escape" => Fresh(x) /\ s # <<>> /\ Last(s) = "ESC"
  /\ Reading(x.state) # "none" =>
       LET introducers == Introducers[Reading(x.state)] IN
         /\ Open(s, introducers)
         /\ Holds(x, Behind(s, introducers)) /\ LimitHolds(x, Behind(s, introducers))
  /\ x.state = "OscParam" =>
       /\ Open(s, Introducers["osc"])
       /\ LET b == Behind(s, Introducers["osc"]) IN
            x.oscParam = Max({0, Field(b, 1)}) /\ x.osc = <<>> /\ Before(b, Len(b) + 1) = 0
  /\ x.state \in {"OscString", "OscTermination"} =>
       \E t \in {s, Front(s)} :
         /\ s = IF x.state = "OscString" THEN t ELSE Append(t, "ESC")
         /\ Open(t, Introducers["osc"])
         /\ LET b == Behind(t, Introducers["osc"]) IN
              OscHolds(x, b) /\ Before(b, Len(b) + 1) > 0

\* What makes DataMatchesSequence inductive: the machine has what the sequence said so far
\* (stateMachine.cpp:503-641), and dispatched what the last one said.
DataInv == Reads(m, Seen(seq)) /\ DataMatchesSequence
=============================================================================
