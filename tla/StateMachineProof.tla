-------------------------- MODULE StateMachineProof --------------------------
(***************************************************************************)
(* The parser keeps its inductive invariant (IInv), and with it its types,  *)
(* the order of the text, and the sequences it passes through.              *)
(*                                                                          *)
(* The table of events is read once, row by row (TableFits); everything     *)
(* behind it speaks of the effect of a character: which calls it makes,     *)
(* what they pass through, and where it goes.  The three recursive          *)
(* functions (Retrace, TextOf, the replay of FlushAtEndOfString) are        *)
(* unfolded with Induction, and properties are carried along them.          *)
(*                                                                          *)
(* The second half is about the data of a sequence (DataInv): what the      *)
(* fields, the collected characters and the string of a sequence say is     *)
(* told character by character (FilledFurther, CollectReads,                *)
(* OscReadFurther), and every row of the table is shown to keep the         *)
(* machine's members at that (Leads, PlainGoes).                            *)
(***************************************************************************)
EXTENDS StateMachine, Induction, FiniteSetTheorems

\* The states that the switch of ProcessCharacter knows
LEMMA StatesAre ==
  States = {"Ground", "Escape", "EscapeIntermediate", "CsiEntry", "CsiIntermediate", "CsiIgnore",
            "CsiParam", "OscParam", "OscString", "OscTermination", "Ss3Entry", "Ss3Param",
            "Vt52Param", "DcsEntry", "DcsIgnore", "DcsIntermediate", "DcsParam",
            "DcsPassThrough", "SosPmApcString"}
  BY DEF States, Events

\* The first row with the character is found if there is any.
Found(rows, c, i) == i \in DOMAIN rows /\ c \in rows[i][1] /\ \A j \in 1 .. i - 1 : c \notin rows[j][1]

Covered(rows, c, n) == DOMAIN rows = 1 .. n /\ \E i \in 1 .. n : c \in rows[i][1]

\* FirstRow picks the least of the rows that have the character.
LEMMA FirstRowFound ==
  ASSUME NEW rows, NEW c, NEW n \in Nat, Covered(rows, c, n), NEW k, k = FirstRow(rows, c)
  PROVE  Found(rows, c, k)
<1>0. DOMAIN rows = 1 .. n /\ \E i \in 1 .. n : c \in rows[i][1]
  BY DEF Covered
<1> DEFINE T == {i \in 1 .. n : c \in rows[i][1]}
<1>1. T \subseteq Nat /\ T # {}
  BY <1>0
<1>2. PICK i \in T : \A j \in T : i <= j
  BY <1>1, Least
<1>3. i \in DOMAIN rows /\ c \in rows[i][1] /\ \A j \in 1 .. i - 1 : c \notin rows[j][1]
  <2>1. ASSUME NEW j \in 1 .. i - 1 PROVE c \notin rows[j][1]
    <3>1. j \in 1 .. n /\ ~ (i <= j)
      BY <1>2
    <3> QED
      BY <1>2, <3>1
  <2> QED
    BY <1>0, <1>2, <2>1
<1> QED
  BY <1>3 DEF Found, FirstRow

Actions == {"Ignore", "Print", "Execute", "Collect", "Param", "OscParam", "OscPut", "DcsPut",
            "Vt52Put", "dcs", "executeEscape", "esc", "vt52", "csi", "osc", "ss3"}

\* The states in which the data of a sequence are read, and those that dispatch it
Attentive == {"Escape", "CsiEntry", "CsiParam", "CsiIntermediate", "Ss3Entry", "Ss3Param", "DcsEntry",
              "DcsParam", "DcsIntermediate", "OscParam", "OscString", "OscTermination"}
DataKinds == {"csi", "ss3", "dcs", "osc"}

\* A character is ignored, read, or the end of a sequence with parameters ...
LeadsOn(s, c, a, t) ==
  \/ a \in {"Execute", "Ignore"} /\ t = Stay /\ c \in C0Codes \cup Delete
  \/ /\ \/ a = "Param" /\ c \in Digits \cup Delimiter
        \/ a = "Collect" /\ c \in Intermediates \cup PrivateMarkers
     /\ t = Stay \/ (Reading(t) = Reading(s) /\ t \notin {"CsiEntry", "Ss3Entry", "DcsEntry"})
  \/ a = "Ignore" /\ t \in {"CsiIgnore", "DcsIgnore"}
  \/ a = Reading(s) /\ t = IF a = "dcs" THEN Stay ELSE "Ground"

\* ... begins a sequence behind an ESC ...
LeadsIn(c, a, t) ==
  \/ a \in {"Execute", "Ignore"} /\ t = Stay /\ c \in C0Codes \cup Delete
  \/ a = "Ignore" /\ <<c, t>> \in {<<"[", "CsiEntry">>, <<"O", "Ss3Entry">>, <<"P", "DcsEntry">>,
                                  <<"]", "OscParam">>}
  \/ a \notin DataKinds /\ t \notin Attentive \cup {Stay}

\* ... and the rest of the table, by the state
Leads(s, c, a, t) ==
  /\ Reading(s) # "none" => LeadsOn(s, c, a, t)
  /\ s = "Escape" => LeadsIn(c, a, t)
  /\ s = "OscParam" =>
       \/ a = "Ignore" /\ t = "Ground"
       \/ a = "OscParam" /\ t = Stay /\ c \in Digits
       \/ a = "Ignore" /\ t = "OscString" /\ c \in Delimiter
       \/ a = "Ignore" /\ t = Stay /\ c \notin Digits \cup Delimiter
  /\ s = "OscString" =>
       \/ a = "osc" /\ t = "Ground"
       \/ a = "Ignore" /\ t = "OscTermination" /\ c = "ESC"
       \/ a = "Ignore" /\ t = Stay /\ c \in C0Codes
       \/ a = "OscPut" /\ t = Stay /\ c \notin C0Codes \cup {"ESC"}
  /\ s = "OscTermination" => a = "osc" /\ t = "Ground"
  /\ s \notin Attentive => a \notin DataKinds /\ t \notin Attentive

Fits(ansi, s, c, a, t) ==
  /\ Leads(s, c, a, t)
  /\ a \in Actions /\ t \in (States \ {"DcsPassThrough", "Escape"}) \cup {Stay}
  /\ a = "Print" => s = "Ground"
  /\ a = "Param" => /\ c \in Digits \cup Delimiter
                    /\ s \notin {"Escape", "EscapeIntermediate", "Vt52Param"}
  /\ a = "OscParam" => c \in Digits
  /\ a = "Vt52Put" => s = "Vt52Param"
  /\ a = "DcsPut" => s = "DcsPassThrough"
  /\ a = "dcs" => t = Stay
  /\ t \in {"EscapeIntermediate", "Vt52Param"} => s \in {"Escape", "EscapeIntermediate"}
  /\ t = "Vt52Param" => ansi = FALSE
  /\ s = "Ground" => t = Stay /\ a = IF c \in C0Codes \cup Delete THEN "Execute" ELSE "Print"
  /\ s = "Vt52Param" => t = Stay /\ a \in {"Execute", "Ignore", "Vt52Put"}
  /\ s \in {"DcsPassThrough", "DcsIgnore"} => t = Stay /\ a \in {"Ignore", "DcsPut"}

\* The rows of each state, of which the first ones with the character apply.
LEMMA RowsEscape ==
  ASSUME NEW ansi \in BOOLEAN, NEW c \in AllChars, NEW i, Found(EventEscape(ansi), c, i)
  PROVE  Fits(ansi, "Escape", c, EventEscape(ansi)[i][2], EventEscape(ansi)[i][3])
<1> DEFINE rows == EventEscape(ansi)
<1>1. i \in 1 .. 13 /\ \A j \in 1 .. i - 1 : c \notin rows[j][1]
  BY DEF Found, EventEscape
<1>2. ansi = TRUE => i # 12
  <2>1. ansi = TRUE => rows[11][1] = AllChars
    BY DEF EventEscape
  <2>2. i = 12 => 11 \in 1 .. i - 1
    OBVIOUS
  <2> QED
    BY <1>1, <2>1, <2>2
<1>3. c \in rows[i][1]
  BY DEF Found
<1>4. LeadsIn(c, rows[i][2], rows[i][3])
  BY <1>1, <1>3 DEF EventEscape, LeadsIn, Stay, Attentive, DataKinds
<1>5. Leads("Escape", c, rows[i][2], rows[i][3])
  BY <1>4 DEF Leads, Reading, Attentive
<1> QED
  BY <1>1, <1>2, <1>5, StatesAre DEF EventEscape, Fits, Actions, Stay

\* The rows of _EventEscapeIntermediate
LEMMA RowsEscapeIntermediate ==
  ASSUME NEW ansi \in BOOLEAN, NEW c \in AllChars, NEW i,
         Found(EventEscapeIntermediate(ansi), c, i)
  PROVE  Fits(ansi, "EscapeIntermediate", c, EventEscapeIntermediate(ansi)[i][2],
              EventEscapeIntermediate(ansi)[i][3])
<1> DEFINE rows == EventEscapeIntermediate(ansi)
<1>1. i \in 1 .. 6 /\ \A j \in 1 .. i - 1 : c \notin rows[j][1]
  BY DEF Found, EventEscapeIntermediate
<1>2. ansi = TRUE => i # 5
  <2>1. ansi = TRUE => rows[4][1] = AllChars
    BY DEF EventEscapeIntermediate
  <2>2. i = 5 => 4 \in 1 .. i - 1
    OBVIOUS
  <2> QED
    BY <1>1, <2>1, <2>2
<1> QED
  BY <1>1, <1>2, StatesAre DEF EventEscapeIntermediate, Fits, Actions, Stay, Leads, LeadsOn, LeadsIn, Reading, Attentive, DataKinds

\* The rows of _EventGround
LEMMA RowsGround ==
  ASSUME NEW ansi \in BOOLEAN, NEW c \in AllChars, NEW i, Found(EventGround, c, i)
  PROVE  Fits(ansi, "Ground", c, EventGround[i][2], EventGround[i][3])
<1>1. i \in 1 .. 2 /\ \A j \in 1 .. i - 1 : c \notin EventGround[j][1]
  BY DEF Found, EventGround
<1>2. c \in EventGround[i][1]
  BY DEF Found
<1>3. i = 2 => c \notin EventGround[1][1]
  BY <1>1
<1> QED
  BY <1>1, <1>2, <1>3, StatesAre DEF EventGround, Fits, Actions, Stay, Leads, LeadsOn, LeadsIn, Reading, Attentive, DataKinds

\* The rows of _EventCsiEntry
LEMMA RowsCsiEntry ==
  ASSUME NEW ansi \in BOOLEAN, NEW c \in AllChars, NEW i, Found(EventCsiEntry, c, i)
  PROVE  Fits(ansi, "CsiEntry", c, EventCsiEntry[i][2], EventCsiEntry[i][3])
  BY StatesAre DEF Found, EventCsiEntry, Fits, Actions, Stay, Leads, LeadsOn, LeadsIn, Reading, Attentive, DataKinds

\* The rows of _EventCsiIntermediate
LEMMA RowsCsiIntermediate ==
  ASSUME NEW ansi \in BOOLEAN, NEW c \in AllChars, NEW i, Found(EventCsiIntermediate, c, i)
  PROVE  Fits(ansi, "CsiIntermediate", c, EventCsiIntermediate[i][2], EventCsiIntermediate[i][3])
  BY StatesAre DEF Found, EventCsiIntermediate, Fits, Actions, Stay, Leads, LeadsOn, LeadsIn, Reading, Attentive, DataKinds

\* The rows of _EventCsiIgnore
LEMMA RowsCsiIgnore ==
  ASSUME NEW ansi \in BOOLEAN, NEW c \in AllChars, NEW i, Found(EventCsiIgnore, c, i)
  PROVE  Fits(ansi, "CsiIgnore", c, EventCsiIgnore[i][2], EventCsiIgnore[i][3])
  BY StatesAre DEF Found, EventCsiIgnore, Fits, Actions, Stay, Leads, LeadsOn, LeadsIn, Reading, Attentive, DataKinds

\* The rows of _EventCsiParam
LEMMA RowsCsiParam ==
  ASSUME NEW ansi \in BOOLEAN, NEW c \in AllChars, NEW i, Found(EventCsiParam, c, i)
  PROVE  Fits(ansi, "CsiParam", c, EventCsiParam[i][2], EventCsiParam[i][3])
  BY StatesAre DEF Found, EventCsiParam, Fits, Actions, Stay, Leads, LeadsOn, LeadsIn, Reading, Attentive, DataKinds

\* The rows of _EventOscParam
LEMMA RowsOscParam ==
  ASSUME NEW ansi \in BOOLEAN, NEW c \in AllChars, NEW i, Found(EventOscParam, c, i)
  PROVE  Fits(ansi, "OscParam", c, EventOscParam[i][2], EventOscParam[i][3])
  BY StatesAre DEF Found, EventOscParam, Fits, Actions, Stay, Leads, LeadsOn, LeadsIn, Reading, Attentive, DataKinds

\* The rows of _EventOscString
LEMMA RowsOscString ==
  ASSUME NEW ansi \in BOOLEAN, NEW c \in AllChars, NEW i, Found(EventOscString, c, i)
  PROVE  Fits(ansi, "OscString", c, EventOscString[i][2], EventOscString[i][3])
  BY StatesAre DEF Found, EventOscString, Fits, Actions, Stay, Leads, LeadsOn, LeadsIn, Reading, Attentive, DataKinds

\* The rows of _EventOscTermination
LEMMA RowsOscTermination ==
  ASSUME NEW ansi \in BOOLEAN, NEW c \in AllChars, NEW i, Found(EventOscTermination, c, i)
  PROVE  Fits(ansi, "OscTermination", c, EventOscTermination[i][2], EventOscTermination[i][3])
  BY StatesAre DEF Found, EventOscTermination, Fits, Actions, Stay, Leads, LeadsOn, LeadsIn, Reading, Attentive, DataKinds

\* The rows of _EventSs3Entry
LEMMA RowsSs3Entry ==
  ASSUME NEW ansi \in BOOLEAN, NEW c \in AllChars, NEW i, Found(EventSs3Entry, c, i)
  PROVE  Fits(ansi, "Ss3Entry", c, EventSs3Entry[i][2], EventSs3Entry[i][3])
  BY StatesAre DEF Found, EventSs3Entry, Fits, Actions, Stay, Leads, LeadsOn, LeadsIn, Reading, Attentive, DataKinds

\* The rows of _EventSs3Param
LEMMA RowsSs3Param ==
  ASSUME NEW ansi \in BOOLEAN, NEW c \in AllChars, NEW i, Found(EventSs3Param, c, i)
  PROVE  Fits(ansi, "Ss3Param", c, EventSs3Param[i][2], EventSs3Param[i][3])
  BY StatesAre DEF Found, EventSs3Param, Fits, Actions, Stay, Leads, LeadsOn, LeadsIn, Reading, Attentive, DataKinds

\* The rows of _EventVt52Param
LEMMA RowsVt52Param ==
  ASSUME NEW ansi \in BOOLEAN, NEW c \in AllChars, NEW i, Found(EventVt52Param, c, i)
  PROVE  Fits(ansi, "Vt52Param", c, EventVt52Param[i][2], EventVt52Param[i][3])
  BY StatesAre DEF Found, EventVt52Param, Fits, Actions, Stay, Leads, LeadsOn, LeadsIn, Reading, Attentive, DataKinds

\* The rows of _EventDcsEntry
LEMMA RowsDcsEntry ==
  ASSUME NEW ansi \in BOOLEAN, NEW c \in AllChars, NEW i, Found(EventDcsEntry, c, i)
  PROVE  Fits(ansi, "DcsEntry", c, EventDcsEntry[i][2], EventDcsEntry[i][3])
  BY StatesAre DEF Found, EventDcsEntry, Fits, Actions, Stay, Leads, LeadsOn, LeadsIn, Reading, Attentive, DataKinds

\* The rows of _EventDcsIntermediate
LEMMA RowsDcsIntermediate ==
  ASSUME NEW ansi \in BOOLEAN, NEW c \in AllChars, NEW i, Found(EventDcsIntermediate, c, i)
  PROVE  Fits(ansi, "DcsIntermediate", c, EventDcsIntermediate[i][2], EventDcsIntermediate[i][3])
  BY StatesAre DEF Found, EventDcsIntermediate, Fits, Actions, Stay, Leads, LeadsOn, LeadsIn, Reading, Attentive, DataKinds

\* The rows of _EventDcsParam
LEMMA RowsDcsParam ==
  ASSUME NEW ansi \in BOOLEAN, NEW c \in AllChars, NEW i, Found(EventDcsParam, c, i)
  PROVE  Fits(ansi, "DcsParam", c, EventDcsParam[i][2], EventDcsParam[i][3])
  BY StatesAre DEF Found, EventDcsParam, Fits, Actions, Stay, Leads, LeadsOn, LeadsIn, Reading, Attentive, DataKinds

\* The rows of _EventDcsPassThrough
LEMMA RowsDcsPassThrough ==
  ASSUME NEW ansi \in BOOLEAN, NEW c \in AllChars, NEW i, Found(EventDcsPassThrough, c, i)
  PROVE  Fits(ansi, "DcsPassThrough", c, EventDcsPassThrough[i][2], EventDcsPassThrough[i][3])
  BY StatesAre DEF Found, EventDcsPassThrough, Fits, Actions, Stay, Leads, LeadsOn, LeadsIn, Reading, Attentive, DataKinds

\* The one row of the states that ignore everything
LEMMA RowsIgnoreAll ==
  ASSUME NEW ansi \in BOOLEAN, NEW c \in AllChars, NEW i, Found(EventIgnoreAll, c, i),
         NEW s \in {"DcsIgnore", "SosPmApcString"}
  PROVE  Fits(ansi, s, c, EventIgnoreAll[i][2], EventIgnoreAll[i][3])
  BY StatesAre DEF Found, EventIgnoreAll, Fits, Actions, Stay, Leads, LeadsOn, LeadsIn, Reading, Attentive, DataKinds

\* Whatever the state, the row that applies is one that fits it.
LEMMA TableFits ==
  ASSUME NEW ansi \in BOOLEAN, NEW s \in States, NEW c \in AllChars,
         s = "OscTermination" => c = "BACKSLASH",
         NEW rows, rows = Events(ansi)[s], NEW i, i = FirstRow(rows, c)
  PROVE  Fits(ansi, s, c, rows[i][2], rows[i][3])
<1>1. CASE s = "Ground"
  <2>1. rows = EventGround
    BY <1>1 DEF Events
  <2>2. 2 \in Nat /\ Covered(rows, c, 2)
    BY <1>1, <2>1 DEF EventGround, Covered
  <2>3. Found(rows, c, i)
    BY <2>2, FirstRowFound
  <2> QED
    BY <1>1, <2>1, <2>3, RowsGround
<1>2. CASE s = "Escape"
  <2>1. rows = EventEscape(ansi)
    BY <1>2 DEF Events
  <2>2. 13 \in Nat /\ Covered(rows, c, 13)
    BY <1>2, <2>1 DEF EventEscape, Covered
  <2>3. Found(rows, c, i)
    BY <2>2, FirstRowFound
  <2> QED
    BY <1>2, <2>1, <2>3, RowsEscape
<1>3. CASE s = "EscapeIntermediate"
  <2>1. rows = EventEscapeIntermediate(ansi)
    BY <1>3 DEF Events
  <2>2. 6 \in Nat /\ Covered(rows, c, 6)
    BY <1>3, <2>1 DEF EventEscapeIntermediate, Covered
  <2>3. Found(rows, c, i)
    BY <2>2, FirstRowFound
  <2> QED
    BY <1>3, <2>1, <2>3, RowsEscapeIntermediate
<1>4. CASE s = "CsiEntry"
  <2>1. rows = EventCsiEntry
    BY <1>4 DEF Events
  <2>2. 7 \in Nat /\ Covered(rows, c, 7)
    BY <1>4, <2>1 DEF EventCsiEntry, Covered
  <2>3. Found(rows, c, i)
    BY <2>2, FirstRowFound
  <2> QED
    BY <1>4, <2>1, <2>3, RowsCsiEntry
<1>5. CASE s = "CsiIntermediate"
  <2>1. rows = EventCsiIntermediate
    BY <1>5 DEF Events
  <2>2. 5 \in Nat /\ Covered(rows, c, 5)
    BY <1>5, <2>1 DEF EventCsiIntermediate, Covered
  <2>3. Found(rows, c, i)
    BY <2>2, FirstRowFound
  <2> QED
    BY <1>5, <2>1, <2>3, RowsCsiIntermediate
<1>6. CASE s = "CsiIgnore"
  <2>1. rows = EventCsiIgnore
    BY <1>6 DEF Events
  <2>2. 3 \in Nat /\ Covered(rows, c, 3)
    BY <1>6, <2>1 DEF EventCsiIgnore, Covered
  <2>3. Found(rows, c, i)
    BY <2>2, FirstRowFound
  <2> QED
    BY <1>6, <2>1, <2>3, RowsCsiIgnore
<1>7. CASE s = "CsiParam"
  <2>1. rows = EventCsiParam
    BY <1>7 DEF Events
  <2>2. 6 \in Nat /\ Covered(rows, c, 6)
    BY <1>7, <2>1 DEF EventCsiParam, Covered
  <2>3. Found(rows, c, i)
    BY <2>2, FirstRowFound
  <2> QED
    BY <1>7, <2>1, <2>3, RowsCsiParam
<1>8. CASE s = "OscParam"
  <2>1. rows = EventOscParam
    BY <1>8 DEF Events
  <2>2. 4 \in Nat /\ Covered(rows, c, 4)
    BY <1>8, <2>1 DEF EventOscParam, Covered
  <2>3. Found(rows, c, i)
    BY <2>2, FirstRowFound
  <2> QED
    BY <1>8, <2>1, <2>3, RowsOscParam
<1>9. CASE s = "OscString"
  <2>1. rows = EventOscString
    BY <1>9 DEF Events
  <2>2. 4 \in Nat /\ Covered(rows, c, 4)
    BY <1>9, <2>1 DEF EventOscString, Covered
  <2>3. Found(rows, c, i)
    BY <2>2, FirstRowFound
  <2> QED
    BY <1>9, <2>1, <2>3, RowsOscString
<1>10. CASE s = "OscTermination"
  <2>1. rows = EventOscTermination
    BY <1>10 DEF Events
  <2>2. 1 \in Nat /\ Covered(rows, c, 1)
    BY <1>10, <2>1 DEF EventOscTermination, Covered
  <2>3. Found(rows, c, i)
    BY <2>2, FirstRowFound
  <2> QED
    BY <1>10, <2>1, <2>3, RowsOscTermination
<1>11. CASE s = "Ss3Entry"
  <2>1. rows = EventSs3Entry
    BY <1>11 DEF Events
  <2>2. 5 \in Nat /\ Covered(rows, c, 5)
    BY <1>11, <2>1 DEF EventSs3Entry, Covered
  <2>3. Found(rows, c, i)
    BY <2>2, FirstRowFound
  <2> QED
    BY <1>11, <2>1, <2>3, RowsSs3Entry
<1>12. CASE s = "Ss3Param"
  <2>1. rows = EventSs3Param
    BY <1>12 DEF Events
  <2>2. 5 \in Nat /\ Covered(rows, c, 5)
    BY <1>12, <2>1 DEF EventSs3Param, Covered
  <2>3. Found(rows, c, i)
    BY <2>2, FirstRowFound
  <2> QED
    BY <1>12, <2>1, <2>3, RowsSs3Param
<1>13. CASE s = "Vt52Param"
  <2>1. rows = EventVt52Param
    BY <1>13 DEF Events
  <2>2. 3 \in Nat /\ Covered(rows, c, 3)
    BY <1>13, <2>1 DEF EventVt52Param, Covered
  <2>3. Found(rows, c, i)
    BY <2>2, FirstRowFound
  <2> QED
    BY <1>13, <2>1, <2>3, RowsVt52Param
<1>14. CASE s = "DcsEntry"
  <2>1. rows = EventDcsEntry
    BY <1>14 DEF Events
  <2>2. 5 \in Nat /\ Covered(rows, c, 5)
    BY <1>14, <2>1 DEF EventDcsEntry, Covered
  <2>3. Found(rows, c, i)
    BY <2>2, FirstRowFound
  <2> QED
    BY <1>14, <2>1, <2>3, RowsDcsEntry
<1>15. CASE s = "DcsIntermediate"
  <2>1. rows = EventDcsIntermediate
    BY <1>15 DEF Events
  <2>2. 4 \in Nat /\ Covered(rows, c, 4)
    BY <1>15, <2>1 DEF EventDcsIntermediate, Covered
  <2>3. Found(rows, c, i)
    BY <2>2, FirstRowFound
  <2> QED
    BY <1>15, <2>1, <2>3, RowsDcsIntermediate
<1>16. CASE s = "DcsParam"
  <2>1. rows = EventDcsParam
    BY <1>16 DEF Events
  <2>2. 4 \in Nat /\ Covered(rows, c, 4)
    BY <1>16, <2>1 DEF EventDcsParam, Covered
  <2>3. Found(rows, c, i)
    BY <2>2, FirstRowFound
  <2> QED
    BY <1>16, <2>1, <2>3, RowsDcsParam
<1>17. CASE s = "DcsPassThrough"
  <2>1. rows = EventDcsPassThrough
    BY <1>17 DEF Events
  <2>2. 2 \in Nat /\ Covered(rows, c, 2)
    BY <1>17, <2>1 DEF EventDcsPassThrough, Covered
  <2>3. Found(rows, c, i)
    BY <2>2, FirstRowFound
  <2> QED
    BY <1>17, <2>1, <2>3, RowsDcsPassThrough
<1>18. CASE s = "DcsIgnore"
  <2>1. rows = EventIgnoreAll
    BY <1>18 DEF Events
  <2>2. 1 \in Nat /\ Covered(rows, c, 1)
    BY <1>18, <2>1 DEF EventIgnoreAll, Covered
  <2>3. Found(rows, c, i)
    BY <2>2, FirstRowFound
  <2> QED
    BY <1>18, <2>1, <2>3, RowsIgnoreAll
<1>19. CASE s = "SosPmApcString"
  <2>1. rows = EventIgnoreAll
    BY <1>19 DEF Events
  <2>2. 1 \in Nat /\ Covered(rows, c, 1)
    BY <1>19, <2>1 DEF EventIgnoreAll, Covered
  <2>3. Found(rows, c, i)
    BY <2>2, FirstRowFound
  <2> QED
    BY <1>19, <2>1, <2>3, RowsIgnoreAll
<1> QED
  BY StatesAre, <1>1, <1>2, <1>3, <1>4, <1>5, <1>6, <1>7, <1>8, <1>9, <1>10, <1>11, <1>12, <1>13, <1>14, <1>15, <1>16, <1>17, <1>18, <1>19
-----------------------------------------------------------------------------
(***************************************************************************)
(* What a part of a step does: y is x after some calls to the engine       *)
(***************************************************************************)

Kept(x, y) == y.ansi = x.ansi /\ y.individually = x.individually /\ y.run = x.run

\* The calls from x to y are of the kinds K; what is passed through is what x has
\* of the sequence.
Told(x, y, K) ==
  /\ Len(x.calls) <= Len(y.calls)
  /\ \A i \in 1 .. Len(x.calls) : y.calls[i] = x.calls[i]
  /\ \A i \in Len(x.calls) + 1 .. Len(y.calls) :
       /\ y.calls[i].kind \in K
       /\ y.calls[i].kind = "pass" => y.calls[i].arg = x.cached \o x.run

Passed(x, y) == \E i \in Len(x.calls) + 1 .. Len(y.calls) : y.calls[i].kind = "pass"
Cleared(x, y) == y.cached = x.cached \/ (y.cached = <<>> /\ Passed(x, y))

Acted(x, y, K) == y \in Machine /\ Kept(x, y) /\ Told(x, y, K) /\ Cleared(x, y)

\* Everything but a text printed
Others == CallKinds \ {"print"}

\* The calls of a machine are a sequence.
LEMMA CallLengths ==
  ASSUME NEW x \in Machine
  PROVE  Len(x.calls) \in Nat /\ DOMAIN x.calls = 1 .. Len(x.calls) /\ x.calls \in Seq(Calls)
  BY DEF Machine

\* A machine with the same calls and the same cached part has called nothing.
LEMMA ActedNothing ==
  ASSUME NEW x \in Machine, NEW y \in Machine, Kept(x, y), y.cached = x.cached, y.calls = x.calls, NEW K
  PROVE  Acted(x, y, K)
<1>1. Len(x.calls) \in Nat
  BY CallLengths
<1>2. Len(x.calls) <= Len(y.calls) /\ Len(x.calls) + 1 .. Len(y.calls) = {}
  BY <1>1
<1>3. Told(x, y, K)
  BY <1>2 DEF Told
<1> QED
  BY <1>3 DEF Acted, Cleared

\* Two parts of a step, of which the first keeps the cached part, make one.
LEMMA ActedTwice ==
  ASSUME NEW x \in Machine, NEW y, NEW z, NEW K, Acted(x, y, K), y.cached = x.cached, Acted(y, z, K)
  PROVE  Acted(x, z, K)
<1>1. /\ y \in Machine /\ Len(x.calls) \in Nat /\ Len(y.calls) \in Nat /\ Len(z.calls) \in Nat
      /\ z \in Machine
  BY CallLengths DEF Acted
<1>2. Kept(x, z)
  BY DEF Acted, Kept
<1>3. Told(x, z, K)
  <2>0. x.cached \o x.run = y.cached \o y.run
    BY DEF Acted, Kept
  <2>1. Told(x, y, K) /\ Told(y, z, K)
    BY DEF Acted
  <2>2. Len(x.calls) <= Len(z.calls)
    BY <1>1, <2>1 DEF Told
  <2>3. ASSUME NEW i \in 1 .. Len(x.calls) PROVE z.calls[i] = x.calls[i]
    <3>1. i \in 1 .. Len(y.calls)
      BY <1>1, <2>1 DEF Told
    <3> QED
      BY <2>1, <3>1 DEF Told
  <2>4. ASSUME NEW i \in Len(x.calls) + 1 .. Len(z.calls)
        PROVE  /\ z.calls[i].kind \in K
               /\ z.calls[i].kind = "pass" => z.calls[i].arg = x.cached \o x.run
    <3>1. CASE i <= Len(y.calls)
      <4>1. i \in 1 .. Len(y.calls) /\ i \in Len(x.calls) + 1 .. Len(y.calls)
        BY <1>1, <3>1
      <4>2. z.calls[i] = y.calls[i]
        BY <2>1, <4>1 DEF Told
      <4> QED
        BY <2>1, <4>1, <4>2 DEF Told
    <3>2. CASE ~ (i <= Len(y.calls))
      <4>1. i \in Len(y.calls) + 1 .. Len(z.calls)
        BY <1>1, <3>2
      <4> QED
        BY <2>0, <2>1, <4>1 DEF Told
    <3> QED
      BY <3>1, <3>2
  <2> QED
    BY <2>2, <2>3, <2>4 DEF Told
<1>4. Passed(y, z) => Passed(x, z)
  BY <1>1 DEF Acted, Told, Passed
<1>5. Cleared(x, z)
  BY <1>4 DEF Acted, Cleared
<1> QED
  BY <1>1, <1>2, <1>3, <1>5 DEF Acted

\* One more call, which passes what x has if it passes anything
LEMMA ToldOne ==
  ASSUME NEW x \in Machine, NEW y, NEW K, NEW kind \in K, NEW arg,
         y.calls = Append(x.calls, [kind |-> kind, arg |-> arg]),
         kind = "pass" => arg = x.cached \o x.run
  PROVE  Told(x, y, K) /\ (kind = "pass" => Passed(x, y))
<1> DEFINE n == Len(x.calls)
           e == [kind |-> kind, arg |-> arg]
<1>1. n \in Nat /\ x.calls \in Seq(Calls)
  BY CallLengths
<1>2. e.kind = kind /\ e.arg = arg
  OBVIOUS
<1> HIDE DEF e
<1>3. Len(y.calls) = n + 1 /\ y.calls[n + 1] = e /\ \A i \in 1 .. n : y.calls[i] = x.calls[i]
  BY <1>1 DEF e
<1>4. ASSUME NEW i \in n + 1 .. Len(y.calls) PROVE y.calls[i] = e
  BY <1>1, <1>3, <1>4
<1>5. n <= Len(y.calls) /\ n + 1 \in n + 1 .. Len(y.calls)
  BY <1>1, <1>3
<1>6. Told(x, y, K)
  BY <1>2, <1>3, <1>4, <1>5 DEF Told
<1>7. kind = "pass" => Passed(x, y)
  BY <1>2, <1>4, <1>5 DEF Passed
<1> QED
  BY <1>6, <1>7

\* One call to the engine
LEMMA CallFields ==
  ASSUME NEW x \in Machine, NEW kind \in CallKinds, NEW arg \in Seq(AllChars),
         NEW y, y = Call(x, kind, arg)
  PROVE  /\ y \in Machine
         /\ y.state = x.state /\ y.ansi = x.ansi /\ y.params = x.params /\ y.id = x.id
         /\ y.handler = x.handler /\ y.individually = x.individually /\ y.run = x.run
         /\ y.cached = x.cached
         /\ y.calls = Append(x.calls, [kind |-> kind, arg |-> arg])
<1>1. [kind |-> kind, arg |-> arg] \in Calls
  BY DEF Calls
<1>2. Append(x.calls, [kind |-> kind, arg |-> arg]) \in Seq(Calls)
  BY <1>1 DEF Machine
<1>3. y \in Machine
  BY <1>2 DEF Call, Machine
<1>4. /\ y.state = x.state /\ y.ansi = x.ansi /\ y.params = x.params /\ y.id = x.id
      /\ y.handler = x.handler /\ y.individually = x.individually /\ y.run = x.run
      /\ y.cached = x.cached
  BY DEF Call, Machine
<1>5. y.calls = Append(x.calls, [kind |-> kind, arg |-> arg])
  BY DEF Call, Machine
<1> QED
  BY <1>3, <1>4, <1>5

\* A call that passes nothing through
LEMMA CallActs ==
  ASSUME NEW x \in Machine, NEW kind \in CallKinds \ {"pass"}, NEW arg \in Seq(AllChars),
         NEW y, y = Call(x, kind, arg), NEW K, kind \in K
  PROVE  Acted(x, y, K) /\ y.cached = x.cached
<1>1. /\ y \in Machine /\ Kept(x, y) /\ y.cached = x.cached
      /\ y.calls = Append(x.calls, [kind |-> kind, arg |-> arg])
  BY CallFields DEF Kept
<1>2. Told(x, y, K)
  BY <1>1, ToldOne
<1> QED
  BY <1>1, <1>2 DEF Acted, Cleared

\* The sequence so far is passed through, and forgotten.
LEMMA FlushActs ==
  ASSUME NEW x \in Machine, NEW y, y = FlushToTerminal(x), NEW K, "pass" \in K
  PROVE  /\ Acted(x, y, K)
         /\ y.state = x.state /\ y.params = x.params /\ y.id = x.id /\ y.handler = x.handler
<1> DEFINE arg == x.cached \o x.run
           w == Call(x, "pass", arg)
<1>1. arg \in Seq(AllChars)
  <2>1. x.cached \in Seq(AllChars) /\ x.run \in Seq(AllChars)
    BY ConstantsAssumption DEF Machine
  <2> QED
    BY <2>1
<1>2. "pass" \in CallKinds
  BY DEF CallKinds
<1>4. y = [w EXCEPT !.cached = <<>>]
  BY DEF FlushToTerminal
<1> HIDE DEF arg
<1>3. /\ w \in Machine
      /\ w.state = x.state /\ w.ansi = x.ansi /\ w.params = x.params /\ w.id = x.id
      /\ w.handler = x.handler /\ w.individually = x.individually /\ w.run = x.run
      /\ w.calls = Append(x.calls, [kind |-> "pass", arg |-> arg])
  BY <1>1, <1>2, CallFields
<1> HIDE DEF w
<1>5. /\ y \in Machine /\ y.cached = <<>>
      /\ y.state = w.state /\ y.ansi = w.ansi /\ y.params = w.params /\ y.id = w.id
      /\ y.handler = w.handler /\ y.individually = w.individually /\ y.run = w.run
      /\ y.calls = w.calls
  <2>0. <<>> \in Seq(Chars)
    OBVIOUS
  <2>1. y \in Machine
    BY <1>3, <1>4, <2>0 DEF Machine
  <2>2. /\ y.state = w.state /\ y.ansi = w.ansi /\ y.params = w.params /\ y.id = w.id
        /\ y.handler = w.handler /\ y.individually = w.individually /\ y.run = w.run
    BY <1>3, <1>4 DEF Machine
  <2>3. y.cached = <<>> /\ y.calls = w.calls
    BY <1>3, <1>4 DEF Machine
  <2> QED
    BY <2>1, <2>2, <2>3
<1>6. Told(x, y, K) /\ Passed(x, y)
  <2>1. y.calls = Append(x.calls, [kind |-> "pass", arg |-> arg])
    BY <1>3, <1>5
  <2>2. arg = x.cached \o x.run
    BY DEF arg
  <2> QED
    BY <2>1, <2>2, ToldOne
<1> QED
  BY <1>3, <1>5, <1>6 DEF Acted, Cleared, Kept

SameData(x, y) ==
  y.state = x.state /\ y.params = x.params /\ y.id = x.id /\ y.handler = x.handler

\* What y has read of a sequence is what x has.
SameBook(x, y) ==
  /\ y.params = x.params /\ y.limit = x.limit /\ y.id = x.id
  /\ y.osc = x.osc /\ y.oscParam = x.oscParam

\* The argument of most calls
LEMMA OneChar == ASSUME NEW c \in AllChars PROVE <<c>> \in Seq(AllChars)
  OBVIOUS

\* A call, and what the engine may want passed through behind it
LEMMA CallThenFlush ==
  ASSUME NEW x \in Machine, NEW kind \in Others \ {"pass"}, NEW c \in AllChars, NEW y,
         y = Call(x, kind, <<c>>) \/ y = FlushToTerminal(Call(x, kind, <<c>>))
  PROVE  Acted(x, y, Others) /\ SameData(x, y)
<1> DEFINE arg == <<c>>
           w == Call(x, kind, arg)
<1>0. kind \in CallKinds /\ kind \in CallKinds \ {"pass"} /\ "pass" \in Others
  BY DEF Others, CallKinds
<1>1. arg \in Seq(AllChars) /\ (y = w \/ y = FlushToTerminal(w))
  BY OneChar
<1> HIDE DEF arg
<1>2. w \in Machine /\ SameData(x, w) /\ Acted(x, w, Others) /\ w.cached = x.cached
  <2>1. Acted(x, w, Others) /\ w.cached = x.cached
    BY <1>0, <1>1, CallActs
  <2>2. SameData(x, w)
    BY DEF Call, Machine, SameData
  <2> QED
    BY <2>1, <2>2 DEF Acted
<1>3. CASE y = w
  BY <1>2, <1>3
<1>4. CASE y = FlushToTerminal(w)
  <2> HIDE DEF w
  <2>1. Acted(w, y, Others) /\ SameData(w, y)
    BY <1>0, <1>2, <1>4, FlushActs DEF SameData
  <2> QED
    BY <1>2, <2>1, ActedTwice DEF SameData
<1> QED
  BY <1>1, <1>3, <1>4

\* A dispatch, also one that the engine has passed through, leaves the data.
LEMMA DispatchActs ==
  ASSUME NEW x \in Machine, NEW kind \in Others \ {"pass"}, NEW c \in AllChars, NEW ok,
         NEW y, y = Dispatch(x, kind, c, ok)
  PROVE  Acted(x, y, Others) /\ SameData(x, y)
<1>1. y = Call(x, kind, <<c>>) \/ y = FlushToTerminal(Call(x, kind, <<c>>))
  BY DEF Dispatch
<1> QED
  BY <1>1, CallThenFlush

\* So does the execution of a control character.
LEMMA ExecuteActs ==
  ASSUME NEW x \in Machine, NEW c \in AllChars, NEW ok, NEW y, y = Execute(x, c, ok)
  PROVE  Acted(x, y, Others) /\ SameData(x, y)
<1>1. y = Call(x, "execute", <<c>>) \/ y = FlushToTerminal(Call(x, "execute", <<c>>))
  BY DEF Execute
<1>2. "execute" \in Others \ {"pass"}
  BY DEF Others, CallKinds
<1> QED
  BY <1>1, <1>2, CallThenFlush

\* The limits of a sequence's data
Bounded(x) == Len(x.params) <= MaxCount /\ Len(x.id) <= MaxCollect

\* What is not a call changes the data only.
Quiet(x, y) ==
  /\ y \in Machine /\ Kept(x, y) /\ y.cached = x.cached /\ y.calls = x.calls
  /\ y.state = x.state /\ y.handler = x.handler

\* AddIntermediate stays within the bytes of an identifier.
LEMMA CollectQuiet ==
  ASSUME NEW x \in Machine, Bounded(x), NEW c \in AllChars, NEW y, y = Collect(x, c)
  PROVE  Quiet(x, y) /\ Bounded(y) /\ y.params = x.params
<1> DEFINE D == AllChars \cup {"NUL"}
           id == IF Len(x.id) < MaxCollect THEN Append(x.id, c) ELSE [i \in DOMAIN x.id |-> "NUL"]
<1>1. x.id \in Seq(D) /\ Len(x.id) \in Nat /\ DOMAIN x.id = 1 .. Len(x.id) /\ MaxCollect \in Nat
      /\ c \in D /\ "NUL" \in D
  BY ConstantsAssumption DEF Machine
<1>2. y = [x EXCEPT !.id = id]
  BY DEF Collect, Machine
<1>3. id \in Seq(D) /\ Len(id) <= MaxCollect
  <2> HIDE DEF D
  <2>1. CASE Len(x.id) < MaxCollect
    BY <1>1, <2>1
  <2>2. CASE ~ (Len(x.id) < MaxCollect)
    <3>1. id = [i \in 1 .. Len(x.id) |-> "NUL"]
      BY <1>1, <2>2
    <3>2. id \in Seq(D) /\ Len(id) = Len(x.id)
      BY <1>1, <3>1
    <3> QED
      BY <3>2 DEF Bounded
  <2> QED
    BY <2>1, <2>2
<1> HIDE DEF id
<1>4. y \in Machine
  BY <1>2, <1>3 DEF Machine
<1>5. /\ y.ansi = x.ansi /\ y.individually = x.individually /\ y.run = x.run /\ y.cached = x.cached
      /\ y.calls = x.calls /\ y.state = x.state /\ y.handler = x.handler
  BY <1>2 DEF Machine
<1>6. y.params = x.params /\ y.id = id
  BY <1>2 DEF Machine
<1> QED
  BY <1>3, <1>4, <1>5, <1>6 DEF Quiet, Kept, Bounded

\* A number grows to the limit and not above it.
LEMMA AccumulateBounded ==
  ASSUME NEW v \in 0 .. MaxValue, NEW c \in Digits
  PROVE  Accumulate(v, c) \in 0 .. MaxValue
<1>1. DigitValue[c] = 9 /\ MaxValue \in Nat
  BY ConstantsAssumption DEF DigitValue
<1> QED
  BY <1>1 DEF Accumulate

\* _ActionParam stays within the limits on the number and the size of parameters.
LEMMA ParamQuiet ==
  ASSUME NEW x \in Machine, Bounded(x), NEW c \in Digits \cup Delimiter, NEW y, y = Param(x, c)
  PROVE  Quiet(x, y) /\ Bounded(y)
<1> DEFINE D == Default .. MaxValue
           ps == IF x.params = <<>> THEN <<Default>> ELSE x.params
           n == Len(ps)
           value == IF ps[n] = Default THEN 0 ELSE ps[n]
           more == [ps EXCEPT ![n] = Accumulate(value, c)]
<1>0. MaxValue \in Nat /\ MaxCount \in Nat /\ MaxCount >= 2 /\ Default \in D /\ Default = -1
  BY ConstantsAssumption DEF Default
<1>1. ps \in Seq(D) /\ n \in Nat /\ n >= 1 /\ n <= MaxCount /\ ps[n] \in D
  <2>1. x.params \in Seq(D) /\ Len(x.params) <= MaxCount
    BY DEF Machine, Bounded
  <2>2. CASE x.params = <<>>
    <3>1. ps = <<Default>>
      BY <2>2
    <3> HIDE DEF D, ps
    <3>2. ps \in Seq(D) /\ Len(ps) = 1 /\ ps[1] = Default
      BY <1>0, <3>1
    <3> QED
      BY <1>0, <3>2
  <2>3. CASE x.params # <<>>
    <3>1. ps = x.params
      BY <2>3
    <3> HIDE DEF D, ps
    <3>2. ps \in Seq(D) /\ ps # <<>> /\ Len(ps) <= MaxCount
      BY <2>1, <2>3, <3>1
    <3> QED
      BY <3>2
  <2> QED
    BY <2>2, <2>3
<1>2. /\ y = x \/ y = [x EXCEPT !.params = ps, !.limit = TRUE]
         \/ (c \in Digits /\ y = [x EXCEPT !.params = more])
         \/ (n < MaxCount /\ y = [x EXCEPT !.params = Append(ps, Default)])
  <2>1. c \notin Delimiter => c \in Digits
    OBVIOUS
  <2> QED
    BY <1>0, <1>1, <2>1 DEF Param, Last
<1> HIDE DEF ps, n
<1>3. ASSUME NEW qs \in Seq(D), Len(qs) <= MaxCount, NEW l \in BOOLEAN,
             NEW z, z = [x EXCEPT !.params = qs, !.limit = l]
      PROVE  Quiet(x, z) /\ Bounded(z)
  <2>1. z \in Machine
    BY <1>3 DEF Machine
  <2>2. /\ z.ansi = x.ansi /\ z.individually = x.individually /\ z.run = x.run /\ z.cached = x.cached
        /\ z.calls = x.calls /\ z.state = x.state /\ z.handler = x.handler
    BY <1>3 DEF Machine
  <2>3. z.params = qs /\ z.id = x.id
    BY <1>3 DEF Machine
  <2> QED
    BY <1>3, <2>1, <2>2, <2>3 DEF Quiet, Kept, Bounded
<1>4. x.limit \in BOOLEAN
  BY DEF Machine
<1>5. \A qs : [x EXCEPT !.params = qs] = [x EXCEPT !.params = qs, !.limit = x.limit]
  BY DEF Machine
<1>6. CASE y = x
  BY <1>6 DEF Quiet, Kept
<1>7. CASE y = [x EXCEPT !.params = ps, !.limit = TRUE]
  BY <1>1, <1>3, <1>7 DEF n
<1>8. CASE c \in Digits /\ y = [x EXCEPT !.params = more]
  <2>1. value \in 0 .. MaxValue
    BY <1>0, <1>1
  <2>2. Accumulate(value, c) \in D
    <3>1. Accumulate(value, c) \in 0 .. MaxValue
      BY <1>8, <2>1, AccumulateBounded
    <3> QED
      BY <1>0, <3>1
  <2> HIDE DEF value
  <2>3. more \in Seq(D) /\ Len(more) = n
    BY <1>1, <2>2 DEF n
  <2> HIDE DEF more
  <2> QED
    BY <1>1, <1>3, <1>4, <1>5, <1>8, <2>3
<1>9. CASE n < MaxCount /\ y = [x EXCEPT !.params = Append(ps, Default)]
  <2>1. Append(ps, Default) \in Seq(D) /\ Len(Append(ps, Default)) = n + 1
    BY <1>0, <1>1 DEF n
  <2>2. n + 1 <= MaxCount
    BY <1>0, <1>1, <1>9
  <2> QED
    BY <1>3, <1>4, <1>5, <1>9, <2>1, <2>2
<1> QED
  BY <1>2, <1>6, <1>7, <1>8, <1>9

\* A change of the data alone calls nothing.
LEMMA QuietActs ==
  ASSUME NEW x \in Machine, NEW y, Quiet(x, y), NEW K
  PROVE  Acted(x, y, K)
  BY ActedNothing DEF Quiet

\* _ActionOscParam and _ActionOscPut change their own data only.
LEMMA OscQuiet ==
  ASSUME NEW x \in Machine, Bounded(x), NEW c \in AllChars, NEW y,
         \/ c \in Digits /\ y = [x EXCEPT !.oscParam = Accumulate(@, c)]
         \/ y = [x EXCEPT !.osc = Append(@, c)]
  PROVE  Quiet(x, y) /\ Bounded(y) /\ y.params = x.params
<1>1. Append(x.osc, c) \in Seq(AllChars)
  BY DEF Machine
<1>2. c \in Digits => Accumulate(x.oscParam, c) \in 0 .. MaxValue
  BY AccumulateBounded DEF Machine
<1>3. y \in Machine
  <2>1. CASE y = [x EXCEPT !.osc = Append(@, c)]
    BY <1>1, <2>1 DEF Machine
  <2>2. CASE c \in Digits /\ y = [x EXCEPT !.oscParam = Accumulate(@, c)]
    <3>1. y = [x EXCEPT !.oscParam = Accumulate(x.oscParam, c)]
      BY <2>2 DEF Machine
    <3> QED
      BY <1>2, <2>2, <3>1 DEF Machine
  <2> QED
    BY <2>1, <2>2
<1>4. /\ y.ansi = x.ansi /\ y.individually = x.individually /\ y.run = x.run /\ y.cached = x.cached
      /\ y.calls = x.calls /\ y.state = x.state /\ y.handler = x.handler
  BY DEF Machine
<1>5. y.params = x.params /\ y.id = x.id
  BY DEF Machine
<1> QED
  BY <1>3, <1>4, <1>5 DEF Quiet, Kept, Bounded

\* The actions that enter no state by themselves
Stepped(x, y, K) == Acted(x, y, K) /\ Bounded(y) /\ y.state = x.state /\ y.handler = x.handler

\* _ActionPrint calls the engine for the text.
LEMMA PrintActs ==
  ASSUME NEW x \in Machine, NEW c \in AllChars, NEW y, y = Call(x, "print", <<c>>)
  PROVE  Acted(x, y, {"print"}) /\ SameData(x, y)
<1> DEFINE arg == <<c>>
<1>1. arg \in Seq(AllChars) /\ y = Call(x, "print", arg) /\ "print" \in CallKinds \ {"pass"}
  BY OneChar DEF CallKinds
<1> HIDE DEF arg
<1>2. Acted(x, y, {"print"})
  BY <1>1, CallActs
<1>3. SameData(x, y)
  BY <1>1 DEF Call, Machine, SameData
<1> QED
  BY <1>2, <1>3

\* A call leaves the data within its limits.
LEMMA SameDataBounded ==
  ASSUME NEW x, NEW y, Bounded(x), SameData(x, y)
  PROVE  Bounded(y) /\ y.state = x.state /\ y.handler = x.handler /\ y.params = x.params
  BY DEF Bounded, SameData

Entering == {"DcsPut", "Vt52Put", "dcs"}

\* Every action that enters no state of its own, in one statement
LEMMA ActSteps ==
  ASSUME NEW x \in Machine, Bounded(x), NEW c \in AllChars, NEW ok, NEW a \in Actions \ Entering,
         a = "Param" => c \in Digits \cup Delimiter, a = "OscParam" => c \in Digits,
         NEW y, y = Act(a, x, c, ok)
  PROVE  /\ Stepped(x, y, IF a = "Print" THEN {"print"} ELSE Others)
         /\ a # "Param" => y.params = x.params
<1>1. CASE a = "Ignore"
  <2>1. y = x
    BY <1>1 DEF Act
  <2>2. Quiet(x, y)
    BY <2>1 DEF Quiet, Kept
  <2> QED
    BY <1>1, <2>1, <2>2, QuietActs DEF Stepped
<1>2. CASE a = "Print"
  <2>1. y = Call(x, "print", <<c>>)
    BY <1>2 DEF Act
  <2>2. Acted(x, y, {"print"}) /\ SameData(x, y)
    BY <2>1, PrintActs
  <2> QED
    BY <1>2, <2>2, SameDataBounded DEF Stepped
<1>3. CASE a = "Execute"
  <2>1. y = Execute(x, c, ok)
    BY <1>3 DEF Act
  <2>2. Acted(x, y, Others) /\ SameData(x, y)
    BY <2>1, ExecuteActs
  <2> QED
    BY <1>3, <2>2, SameDataBounded DEF Stepped
<1>4. CASE a = "Collect"
  <2>1. y = Collect(x, c)
    BY <1>4 DEF Act
  <2>2. Quiet(x, y) /\ Bounded(y) /\ y.params = x.params
    BY <2>1, CollectQuiet
  <2> QED
    BY <1>4, <2>2, QuietActs DEF Stepped, Quiet
<1>5. CASE a = "Param"
  <2>1. y = Param(x, c)
    BY <1>5 DEF Act
  <2>2. Quiet(x, y) /\ Bounded(y)
    BY <1>5, <2>1, ParamQuiet
  <2> QED
    BY <1>5, <2>2, QuietActs DEF Stepped, Quiet
<1>6. CASE a \in {"OscParam", "OscPut"}
  <2>1. \/ c \in Digits /\ y = [x EXCEPT !.oscParam = Accumulate(@, c)]
        \/ y = [x EXCEPT !.osc = Append(@, c)]
    BY <1>6 DEF Act
  <2>2. Quiet(x, y) /\ Bounded(y) /\ y.params = x.params
    BY <2>1, OscQuiet
  <2> QED
    BY <1>6, <2>2, QuietActs DEF Stepped, Quiet
<1>7. CASE a \in {"executeEscape", "esc", "vt52", "csi", "osc", "ss3"}
  <2>1. y = Dispatch(x, a, c, ok)
    BY <1>7 DEF Act
  <2>2. a \in Others \ {"pass"}
    BY <1>7 DEF Others, CallKinds
  <2>3. Acted(x, y, Others) /\ SameData(x, y)
    BY <2>1, <2>2, DispatchActs
  <2> QED
    BY <1>7, <2>3, SameDataBounded DEF Stepped
<1> QED
  BY <1>1, <1>2, <1>3, <1>4, <1>5, <1>6, <1>7 DEF Actions, Entering
-----------------------------------------------------------------------------
(***************************************************************************)
(* Entering a state                                                        *)
(***************************************************************************)

Entries == {"Escape", "CsiEntry", "Ss3Entry", "DcsEntry"}

\* What _EnterXxx changes: the state, the data of an introducer, and at the ground the cached part
LEMMA EnterFields ==
  ASSUME NEW y \in Machine, Bounded(y), NEW s \in States, NEW z, z = Enter(y, s)
  PROVE  /\ z \in Machine /\ Bounded(z) /\ z.state = s /\ Kept(y, z) /\ z.calls = y.calls
         /\ z.cached = IF s = "Ground" THEN <<>> ELSE y.cached
         /\ s \in Entries => z.params = <<>>
         /\ s \notin Entries => z.params = y.params /\ z.handler = y.handler
<1> DEFINE w == IF s \in Entries THEN Clear(y) ELSE y
<1>0. <<>> \in Seq(Chars) /\ <<>> \in Seq(AllChars) /\ <<>> \in Seq(AllChars \cup {"NUL"})
      /\ <<>> \in Seq(Default .. MaxValue) /\ 0 \in 0 .. MaxValue /\ Len(<<>>) = 0
      /\ MaxCount \in Nat /\ MaxCollect \in Nat
  BY ConstantsAssumption
<1>1. w \in Machine
  BY <1>0 DEF Clear, Machine
<1>2. /\ w.ansi = y.ansi /\ w.individually = y.individually /\ w.run = y.run
      /\ w.calls = y.calls /\ w.cached = y.cached
  BY DEF Clear, Machine
<1>3. Bounded(w) /\ (s \in Entries => w.params = <<>>)
      /\ (s \notin Entries => w.params = y.params /\ w.handler = y.handler)
  <2>1. CASE s \in Entries
    <3>1. w.params = <<>> /\ w.id = <<>>
      BY <2>1 DEF Clear, Machine
    <3> QED
      BY <1>0, <2>1, <3>1 DEF Bounded
  <2> QED
    BY <2>1
<1>4. z = [w EXCEPT !.state = s, !.cached = IF s = "Ground" THEN <<>> ELSE w.cached]
  BY DEF Enter, Entries, Clear, Machine
<1> HIDE DEF w
<1>5. z \in Machine
  BY <1>0, <1>1, <1>4 DEF Machine
<1>6. /\ z.ansi = w.ansi /\ z.individually = w.individually /\ z.run = w.run /\ z.calls = w.calls
      /\ z.params = w.params /\ z.id = w.id /\ z.handler = w.handler
  BY <1>1, <1>4 DEF Machine
<1>7. z.state = s /\ z.cached = IF s = "Ground" THEN <<>> ELSE w.cached
  BY <1>1, <1>4 DEF Machine
<1>8. Kept(y, z) /\ z.calls = y.calls
  BY <1>2, <1>6 DEF Kept
<1>9. Bounded(z)
  BY <1>3, <1>6 DEF Bounded
<1>10. z.cached = IF s = "Ground" THEN <<>> ELSE y.cached
  BY <1>2, <1>7
<1> QED
  BY <1>3, <1>5, <1>6, <1>7, <1>8, <1>9, <1>10

\* What one character comes to: the calls, and a part of the sequence that is kept,
\* passed on, or done with on the ground
Effect(x, z, K) ==
  /\ z \in Machine /\ Kept(x, z) /\ Told(x, z, K)
  /\ Cleared(x, z) \/ (z.state = "Ground" /\ z.cached = <<>>)

\* A part of a step is an effect.
LEMMA ActedEffect ==
  ASSUME NEW x, NEW y, NEW K, Acted(x, y, K)
  PROVE  Effect(x, y, K)
  BY DEF Acted, Effect

\* Entering a state behind a part of a step is an effect as well.
LEMMA EnterEffect ==
  ASSUME NEW x \in Machine, NEW y, NEW K, Acted(x, y, K), Bounded(y), NEW s \in States,
         NEW z, z = Enter(y, s)
  PROVE  Effect(x, z, K)
<1>1. y \in Machine
  BY DEF Acted
<1>2. /\ z \in Machine /\ z.state = s /\ Kept(y, z) /\ z.calls = y.calls
      /\ z.cached = IF s = "Ground" THEN <<>> ELSE y.cached
  BY <1>1, EnterFields
<1>3. Kept(x, z)
  BY <1>2 DEF Acted, Kept
<1>4. Told(x, z, K)
  BY <1>2 DEF Acted, Told
<1>5. Cleared(x, z) \/ (z.state = "Ground" /\ z.cached = <<>>)
  BY <1>2 DEF Acted, Cleared, Passed
<1> QED
  BY <1>2, <1>3, <1>4, <1>5 DEF Effect

\* The state that is entered finds what it expects.
Expected(y, s) ==
  /\ s = "EscapeIntermediate" => y.params = <<>>
  /\ s = "Vt52Param" => y.params = <<>> /\ y.ansi = FALSE
  /\ s = "DcsPassThrough" => y.handler = TRUE

\* A state that is entered as expected is entered soundly.
LEMMA EnterSound ==
  ASSUME NEW y \in Machine, Bounded(y), NEW s \in States, Expected(y, s), NEW z, z = Enter(y, s)
  PROVE  Sound(z) /\ z.state = s
<1>1. /\ z \in Machine /\ Bounded(z) /\ z.state = s /\ Kept(y, z) /\ z.calls = y.calls
      /\ z.cached = IF s = "Ground" THEN <<>> ELSE y.cached
      /\ s \in Entries => z.params = <<>>
      /\ s \notin Entries => z.params = y.params /\ z.handler = y.handler
  BY EnterFields
<1>2. s \in {"Escape", "EscapeIntermediate"} => z.params = <<>>
  BY <1>1 DEF Expected, Entries
<1>3. s = "Vt52Param" => Len(z.params) <= 1 /\ ~z.ansi
  <2>1. s = "Vt52Param" => z.params = <<>> /\ z.ansi = FALSE
    BY <1>1 DEF Expected, Entries, Kept
  <2>2. Len(<<>>) = 0
    OBVIOUS
  <2> QED
    BY <2>1, <2>2
<1>4. s = "DcsPassThrough" => z.handler
  BY <1>1 DEF Expected, Entries
<1>5. s = "Ground" => z.cached = <<>>
  BY <1>1
<1> QED
  BY <1>1, <1>2, <1>3, <1>4, <1>5 DEF Sound, Bounded

\* ... and where the machine stays
LEMMA StaySound ==
  ASSUME NEW x, Sound(x), NEW y, NEW K, Stepped(x, y, K),
         x.state \in {"Escape", "EscapeIntermediate", "Vt52Param"} => y.params = x.params
  PROVE  Sound(y)
<1>1. y \in Machine /\ Bounded(y) /\ y.state = x.state /\ y.handler = x.handler /\ y.ansi = x.ansi
  BY DEF Stepped, Acted, Kept
<1>2. y.state = "Ground" => y.cached = <<>>
  BY <1>1 DEF Sound, Stepped, Acted, Cleared
<1> QED
  BY <1>1, <1>2 DEF Sound, Bounded

\* What the lemmas on actions want to know of a machine
LEMMA SoundBasics ==
  ASSUME NEW x, Sound(x)
  PROVE  x \in Machine /\ Bounded(x) /\ x.state \in States /\ x.ansi \in BOOLEAN
  BY DEF Sound, Bounded, Machine

\* A call in a sound machine leaves it sound.
LEMMA SameDataStepped ==
  ASSUME NEW x, Sound(x), NEW y, NEW K, Acted(x, y, K), SameData(x, y)
  PROVE  Stepped(x, y, K) /\ Sound(y)
<1>1. Stepped(x, y, K) /\ y.params = x.params
  BY SoundBasics, SameDataBounded DEF Stepped
<1> QED
  BY <1>1, StaySound

\* The strings of a DCS sequence, with a handler or without
DcsStrings == {"DcsPassThrough", "DcsIgnore"}

\* _ActionDcsDispatch runs through the string only with a handler.
LEMMA DcsDispatchEffect ==
  ASSUME NEW x, Sound(x), NEW c \in AllChars, NEW ok \in BOOLEAN, NEW y, y = DcsDispatch(x, c, ok)
  PROVE  Effect(x, y, Others) /\ Sound(y) /\ y.state \in DcsStrings
<1> DEFINE u == Call(x, "dcs", <<c>>)
           w == [u EXCEPT !.handler = ok]
           s == IF ok THEN "DcsPassThrough" ELSE "DcsIgnore"
<1>0. x \in Machine /\ Bounded(x) /\ "dcs" \in Others \ {"pass"}
  BY SoundBasics DEF Others, CallKinds
<1>1. Acted(x, u, Others) /\ SameData(x, u) /\ Bounded(u) /\ u \in Machine
  <2>1. Acted(x, u, Others) /\ SameData(x, u)
    BY <1>0, CallThenFlush
  <2> QED
    BY <1>0, <2>1, SameDataBounded DEF Acted
<1>2. y = Enter(w, s) /\ s \in States /\ s \in DcsStrings
  BY StatesAre DEF DcsDispatch, DcsStrings
<1> HIDE DEF u
<1>3. w \in Machine
  BY <1>1 DEF Machine
<1>4. /\ w.ansi = u.ansi /\ w.individually = u.individually /\ w.run = u.run /\ w.calls = u.calls
      /\ w.cached = u.cached
  BY <1>1 DEF Machine
<1>5. w.handler = ok /\ w.params = u.params /\ w.id = u.id
  BY <1>1 DEF Machine
<1> HIDE DEF w
<1>6. Bounded(w)
  BY <1>1, <1>5 DEF Bounded
<1>7. Acted(x, w, Others)
  <2>1. Kept(x, w)
    BY <1>1, <1>4 DEF Acted, Kept
  <2>2. Told(x, w, Others)
    BY <1>1, <1>4 DEF Acted, Told
  <2>3. Cleared(x, w)
    BY <1>1, <1>4 DEF Acted, Cleared, Passed
  <2> QED
    BY <1>3, <2>1, <2>2, <2>3 DEF Acted
<1>8. Expected(w, s)
  BY <1>5 DEF Expected
<1> HIDE DEF s
<1>9. Effect(x, y, Others)
  BY <1>0, <1>2, <1>6, <1>7, EnterEffect
<1>10. Sound(y) /\ y.state = s
  BY <1>2, <1>3, <1>6, <1>8, EnterSound
<1> QED
  BY <1>2, <1>9, <1>10

\* A handler that refuses the rest of a string has it ignored.
LEMMA DcsPutEffect ==
  ASSUME NEW x, Sound(x), NEW c \in AllChars, NEW ok \in BOOLEAN, x.state = "DcsPassThrough",
         NEW y, y = DcsPut(x, c, ok)
  PROVE  Effect(x, y, Others) /\ Sound(y) /\ y.state \in DcsStrings
<1> DEFINE u == Call(x, "dcsPut", <<c>>)
<1>0. x \in Machine /\ Bounded(x) /\ "dcsPut" \in Others \ {"pass"} /\ "DcsIgnore" \in States
  BY SoundBasics, StatesAre DEF Others, CallKinds
<1>1. Acted(x, u, Others) /\ SameData(x, u)
  BY <1>0, CallThenFlush
<1>2. y = u \/ y = Enter(u, "DcsIgnore")
  BY DEF DcsPut
<1> HIDE DEF u
<1>3. Stepped(x, u, Others) /\ Sound(u)
  BY <1>1, SameDataStepped
<1>4. CASE y = u
  BY <1>1, <1>3, <1>4, ActedEffect DEF Stepped, DcsStrings
<1>5. CASE y = Enter(u, "DcsIgnore")
  <2>1. u \in Machine /\ Bounded(u) /\ Expected(u, "DcsIgnore")
    BY <1>3, SoundBasics DEF Expected
  <2> QED
    BY <1>0, <1>1, <1>5, <2>1, EnterEffect, EnterSound DEF DcsStrings
<1> QED
  BY <1>2, <1>4, <1>5

\* The second parameter of a VT52 command dispatches it: there are never more than two.
LEMMA Vt52PutEffect ==
  ASSUME NEW x, Sound(x), NEW c \in AllChars, NEW ok \in BOOLEAN, x.state = "Vt52Param",
         NEW y, y = Vt52Put(x, c, ok)
  PROVE  Effect(x, y, Others) /\ Sound(y)
<1> DEFINE w == [x EXCEPT !.params = Append(x.params, 0)]
           n == Len(x.params)
           d == Dispatch(w, "vt52", "Y", ok)
<1>0. /\ x \in Machine /\ Bounded(x) /\ "vt52" \in Others \ {"pass"} /\ "Ground" \in States
      /\ "Y" \in AllChars /\ 0 \in Default .. MaxValue /\ MaxCount \in Nat /\ MaxCount >= 2
  BY SoundBasics, StatesAre, ConstantsAssumption DEF Others, CallKinds, AllChars, Unaddressed, Default
<1>1. n \in Nat /\ n <= 1 /\ x.params \in Seq(Default .. MaxValue) /\ x.ansi = FALSE
  BY <1>0 DEF Sound, Machine
<1>2. y = IF Len(w.params) = 2 THEN Enter(d, "Ground") ELSE w
  BY <1>0 DEF Vt52Put, Machine
<1>3. Append(x.params, 0) \in Seq(Default .. MaxValue) /\ Len(Append(x.params, 0)) = n + 1
  BY <1>0, <1>1
<1>4. w \in Machine
  BY <1>0, <1>3 DEF Machine
<1>5. /\ w.ansi = x.ansi /\ w.individually = x.individually /\ w.run = x.run /\ w.cached = x.cached
      /\ w.calls = x.calls /\ w.state = x.state /\ w.handler = x.handler
  BY <1>0 DEF Machine
<1>6. w.params = Append(x.params, 0) /\ w.id = x.id
  BY <1>0 DEF Machine
<1> HIDE DEF w, d
<1>7. Quiet(x, w) /\ Bounded(w) /\ Acted(x, w, Others)
  <2>1. Quiet(x, w)
    BY <1>4, <1>5 DEF Quiet, Kept
  <2>2. Bounded(w)
    BY <1>0, <1>1, <1>3, <1>6 DEF Bounded
  <2> QED
    BY <1>0, <2>1, <2>2, QuietActs
<1>8. CASE Len(w.params) = 2
  <2>1. Acted(w, d, Others) /\ SameData(w, d)
    BY <1>0, <1>4, DispatchActs DEF d
  <2>2. Acted(x, d, Others) /\ Bounded(d) /\ d \in Machine
    BY <1>0, <1>5, <1>7, <2>1, ActedTwice, SameDataBounded DEF Acted
  <2>3. y = Enter(d, "Ground") /\ Expected(d, "Ground")
    BY <1>2, <1>8 DEF Expected
  <2> QED
    BY <1>0, <2>2, <2>3, EnterEffect, EnterSound
<1>9. CASE Len(w.params) # 2
  <2>1. y = w /\ Len(w.params) <= 1
    BY <1>1, <1>2, <1>3, <1>6, <1>9
  <2>2. Sound(w)
    BY <1>0, <1>1, <1>4, <1>5, <1>7, <2>1 DEF Sound, Bounded
  <2> QED
    BY <1>7, <2>1, <2>2, ActedEffect
<1> QED
  BY <1>8, <1>9
-----------------------------------------------------------------------------
(***************************************************************************)
(* One character                                                           *)
(***************************************************************************)

Row(ansi, s, c) == LET rows == Events(ansi)[s] IN rows[FirstRow(rows, c)]

\* Where the row leads, up to what the engine answers to a DCS
Destination(ansi, s, c) ==
  IF Row(ansi, s, c)[3] # Stay THEN Row(ansi, s, c)[3]
  ELSE IF Row(ansi, s, c)[2] = "dcs" THEN "DcsIgnore" ELSE Alike(s)

\* Text is printed, and nothing else is.
KindsOf(x, c) == IF x.state = "Ground" /\ c \notin C0Codes \cup Delete THEN {"print"} ELSE Others

\* _EventXxx: the effect of a character, and where it goes
LEMMA EventEffect ==
  ASSUME NEW x, Sound(x), NEW c \in AllChars, NEW ok \in BOOLEAN,
         x.state = "OscTermination" => c = "BACKSLASH", NEW y, y = Event(x, c, ok)
  PROVE  /\ Effect(x, y, KindsOf(x, c)) /\ Sound(y)
         /\ x.state # "Vt52Param" => Alike(y.state) = Destination(x.ansi, x.state, c)
         /\ x.state = "Ground" => y.state = "Ground"
<1> DEFINE a == Row(x.ansi, x.state, c)[2]
           t == Row(x.ansi, x.state, c)[3]
           done == Act(a, x, c, ok)
<1>0. x \in Machine /\ Bounded(x) /\ x.state \in States /\ x.ansi \in BOOLEAN
  BY SoundBasics
<1>1. Fits(x.ansi, x.state, c, a, t)
  BY <1>0, TableFits DEF Row
<1>2. y = IF t = Stay THEN done ELSE Enter(done, t)
  BY DEF Event, Row
<1>3. Destination(x.ansi, x.state, c) = IF t # Stay THEN t ELSE IF a = "dcs" THEN "DcsIgnore" ELSE Alike(x.state)
  BY DEF Destination
<1> HIDE DEF a, t
<1>4. CASE a = "dcs"
  <2>1. t = Stay /\ x.state # "Ground" /\ done = DcsDispatch(x, c, ok)
    BY <1>1, <1>4 DEF Fits, Act
  <2>2. Effect(x, y, Others) /\ Sound(y) /\ y.state \in DcsStrings
    BY <1>2, <2>1, DcsDispatchEffect
  <2> QED
    BY <1>3, <1>4, <2>1, <2>2 DEF KindsOf, Alike, DcsStrings
<1>5. CASE a = "DcsPut"
  <2>1. t = Stay /\ x.state = "DcsPassThrough" /\ done = DcsPut(x, c, ok)
    BY <1>1, <1>5 DEF Fits, Act
  <2>2. Effect(x, y, Others) /\ Sound(y) /\ y.state \in DcsStrings
    BY <1>2, <2>1, DcsPutEffect
  <2> QED
    BY <1>3, <1>5, <2>1, <2>2 DEF KindsOf, Alike, DcsStrings
<1>6. CASE a = "Vt52Put"
  <2>1. t = Stay /\ x.state = "Vt52Param" /\ done = Vt52Put(x, c, ok)
    BY <1>1, <1>6 DEF Fits, Act
  <2>2. Effect(x, y, Others) /\ Sound(y)
    BY <1>2, <2>1, Vt52PutEffect
  <2> QED
    BY <2>1, <2>2 DEF KindsOf
<1>7. CASE a \in Actions \ Entering
  <2>1. /\ Stepped(x, done, IF a = "Print" THEN {"print"} ELSE Others)
        /\ a # "Param" => done.params = x.params
    <3>1. (a = "Param" => c \in Digits \cup Delimiter) /\ (a = "OscParam" => c \in Digits)
      BY <1>1 DEF Fits
    <3> QED
      BY <1>0, <1>7, <3>1, ActSteps
  <2>2. (IF a = "Print" THEN {"print"} ELSE Others) = KindsOf(x, c)
    BY <1>1 DEF Fits, KindsOf
  <2>3. Stepped(x, done, KindsOf(x, c))
    BY <2>1, <2>2
  <2> HIDE DEF done
  <2>4. done \in Machine /\ Bounded(done) /\ done.state = x.state /\ done.ansi = x.ansi
    BY <2>3 DEF Stepped, Acted, Kept
  <2>5. CASE t = Stay
    <3>1. x.state \in {"Escape", "EscapeIntermediate", "Vt52Param"} => done.params = x.params
      BY <1>1, <2>1 DEF Fits
    <3>2. y = done /\ Sound(y) /\ Effect(x, y, KindsOf(x, c))
      BY <1>2, <2>3, <2>5, <3>1, StaySound, ActedEffect DEF Stepped
    <3>3. Alike(y.state) = Destination(x.ansi, x.state, c)
      BY <1>3, <1>7, <2>4, <2>5, <3>2 DEF Entering
    <3> QED
      BY <2>4, <3>2, <3>3
  <2>6. CASE t # Stay
    <3>1. t \in States /\ t # "DcsPassThrough" /\ x.state # "Ground"
      BY <1>1, <2>6 DEF Fits
    <3>2. t \in {"EscapeIntermediate", "Vt52Param"} => done.params = <<>>
      <4>1. t \in {"EscapeIntermediate", "Vt52Param"} => x.state \in {"Escape", "EscapeIntermediate"} /\ a # "Param"
        BY <1>1 DEF Fits
      <4> QED
        BY <2>1, <4>1 DEF Sound
    <3>3. t = "Vt52Param" => done.ansi = FALSE
      BY <1>1, <2>4 DEF Fits
    <3>4. Expected(done, t)
      BY <3>1, <3>2, <3>3 DEF Expected
    <3>5. y = Enter(done, t) /\ Acted(x, done, KindsOf(x, c))
      BY <1>2, <2>3, <2>6 DEF Stepped
    <3>6. Effect(x, y, KindsOf(x, c)) /\ Sound(y) /\ y.state = t
      BY <1>0, <2>4, <3>1, <3>4, <3>5, EnterEffect, EnterSound
    <3>7. Alike(y.state) = t
      BY <3>1, <3>6 DEF Alike
    <3> QED
      BY <1>3, <2>6, <3>1, <3>6, <3>7
  <2> QED
    BY <2>5, <2>6
<1>8. a \in Actions
  BY <1>1 DEF Fits
<1> QED
  BY <1>4, <1>5, <1>6, <1>7, <1>8 DEF Entering

\* An effect behind a part that keeps the cached part is an effect of both.
LEMMA EffectAfter ==
  ASSUME NEW x \in Machine, NEW w, NEW y, NEW K, Acted(x, w, K), w.cached = x.cached, Effect(w, y, K)
  PROVE  Effect(x, y, K)
<1>1. CASE Cleared(w, y)
  <2>1. Acted(w, y, K)
    BY <1>1 DEF Effect, Acted
  <2> QED
    BY <2>1, ActedTwice, ActedEffect
<1>2. CASE y.state = "Ground" /\ y.cached = <<>>
  <2> DEFINE z == [y EXCEPT !.cached = w.cached]
  <2>0. y \in Machine /\ w \in Machine
    BY DEF Effect, Acted
  <2>1. z \in Machine
    BY <2>0 DEF Machine
  <2>2. z.ansi = y.ansi /\ z.individually = y.individually /\ z.run = y.run /\ z.calls = y.calls
    BY <2>0 DEF Machine
  <2>3. z.cached = w.cached
    BY <2>0 DEF Machine
  <2> HIDE DEF z
  <2>4. Acted(w, z, K)
    <3>1. Kept(w, z) /\ Told(w, z, K)
      BY <2>2 DEF Effect, Kept, Told
    <3> QED
      BY <2>1, <2>3, <3>1 DEF Acted, Cleared
  <2>5. Acted(x, z, K)
    BY <2>4, ActedTwice
  <2>6. Kept(x, y) /\ Told(x, y, K)
    BY <2>2, <2>5 DEF Acted, Kept, Told
  <2> QED
    BY <1>2, <2>0, <2>6 DEF Effect
<1> QED
  BY <1>1, <1>2 DEF Effect

\* A machine that only went to another state
LEMMA EnterActs ==
  ASSUME NEW y \in Machine, Bounded(y), NEW s \in States \ {"Ground"}, NEW z, z = Enter(y, s), NEW K
  PROVE  Acted(y, z, K) /\ z.cached = y.cached
<1>1. z \in Machine /\ Kept(y, z) /\ z.calls = y.calls /\ z.cached = y.cached
  BY EnterFields
<1> QED
  BY <1>1, ActedNothing

\* _ActionInterrupt tells a handler of the cut, and calls nothing else.
LEMMA InterruptActs ==
  ASSUME NEW x \in Machine, Bounded(x), NEW y, y = Interrupt(x)
  PROVE  Acted(x, y, Others) /\ y.cached = x.cached /\ Bounded(y) /\ y.state = x.state
<1> DEFINE u == Call(x, "dcsPut", <<"ESC">>)
<1>0. "ESC" \in AllChars /\ "dcsPut" \in Others \ {"pass"} /\ "dcsPut" \in CallKinds \ {"pass"}
      /\ "dcsPut" \in Others
  BY DEF AllChars, Others, CallKinds
<1>1. Acted(x, u, Others) /\ SameData(x, u) /\ Bounded(u) /\ u \in Machine
  <2>1. Acted(x, u, Others) /\ SameData(x, u)
    BY <1>0, CallThenFlush
  <2> QED
    BY <2>1, SameDataBounded DEF Acted
<1>2. u.cached = x.cached
  BY DEF Call, Machine
<1>3. y = x \/ y = [u EXCEPT !.handler = FALSE]
  BY DEF Interrupt
<1> HIDE DEF u
<1>4. CASE y = x
  BY <1>4, ActedNothing DEF Kept
<1>5. CASE y = [u EXCEPT !.handler = FALSE]
  <2>1. y \in Machine
    BY <1>1, <1>5 DEF Machine
  <2>2. /\ y.ansi = u.ansi /\ y.individually = u.individually /\ y.run = u.run /\ y.calls = u.calls
        /\ y.cached = u.cached
    BY <1>1, <1>5 DEF Machine
  <2>3. y.state = u.state /\ y.params = u.params /\ y.id = u.id
    BY <1>1, <1>5 DEF Machine
  <2>4. Acted(u, y, Others)
    BY <1>1, <2>1, <2>2, ActedNothing DEF Kept
  <2> QED
    BY <1>1, <1>2, <2>2, <2>3, <2>4, ActedTwice DEF Bounded, SameData
<1> QED
  BY <1>3, <1>4, <1>5

\* An escape cuts off what there was.
LEMMA EscapeEffect ==
  ASSUME NEW x, Sound(x), NEW y, y = Enter(Interrupt(x), "Escape")
  PROVE  Acted(x, y, Others) /\ y.cached = x.cached /\ Sound(y) /\ y.state = "Escape"
<1> DEFINE w == Interrupt(x)
<1>0. x \in Machine /\ Bounded(x) /\ "Escape" \in States \ {"Ground"} /\ "Escape" \in States
  BY SoundBasics, StatesAre
<1>1. Acted(x, w, Others) /\ w.cached = x.cached /\ Bounded(w) /\ w \in Machine
  BY <1>0, InterruptActs DEF Acted
<1>2. y = Enter(w, "Escape")
  OBVIOUS
<1> HIDE DEF w
<1>3. Acted(w, y, Others) /\ y.cached = w.cached
  BY <1>0, <1>1, <1>2, EnterActs
<1>4. Sound(y) /\ y.state = "Escape"
  <2>1. Expected(w, "Escape")
    BY DEF Expected
  <2> QED
    BY <1>0, <1>1, <1>2, <2>1, EnterSound
<1> QED
  BY <1>0, <1>1, <1>3, <1>4, ActedTwice

\* ... but in an OSC string it may begin the terminator.
LEMMA EscInOscString ==
  ASSUME NEW ansi
  PROVE  Row(ansi, "OscString", "ESC") = <<{"ESC"}, "Ignore", "OscTermination">>
<1> DEFINE rows == EventOscString
           i == FirstRow(rows, "ESC")
<1>1. Events(ansi)["OscString"] = rows
  BY DEF Events
<1>2. 4 \in Nat /\ Covered(rows, "ESC", 4)
  BY DEF EventOscString, Covered, AllChars
<1>3. Found(rows, "ESC", i)
  BY <1>2, FirstRowFound
<1> HIDE DEF i
<1>4. i \in 1 .. 4 /\ "ESC" \in rows[i][1] /\ \A j \in 1 .. i - 1 : "ESC" \notin rows[j][1]
  BY <1>3 DEF Found, EventOscString
<1>5. i # 1
  BY <1>4 DEF EventOscString
<1>6. "ESC" \in rows[2][1]
  BY DEF EventOscString
<1>7. ~ (i > 2)
  <2>1. i > 2 => 2 \in 1 .. i - 1
    BY <1>4
  <2> QED
    BY <1>4, <1>6, <2>1
<1>8. i = 2
  BY <1>4, <1>5, <1>7
<1>9. Row(ansi, "OscString", "ESC") = rows[2]
  BY <1>1, <1>8 DEF Row, i
<1> QED
  BY <1>9 DEF EventOscString

PlainTo(ansi, s, c) ==
  IF c = "CAN" /\ ~(s = "Escape" /\ engine = "input") THEN "Ground"
  ELSE IF c = "ESC" /\ s # "OscString" THEN "Escape"
  ELSE Destination(ansi, IF s = "OscTermination" /\ c # "BACKSLASH" THEN "Escape" ELSE s, c)

\* An ESC, of its own or as the first half of a C1 control
LEMMA EscEffect ==
  ASSUME NEW x, Sound(x), NEW ok, NEW y, y = ProcessPlain(x, "ESC", ok)
  PROVE  /\ Acted(x, y, Others) /\ y.cached = x.cached /\ Sound(y)
         /\ y.state = PlainTo(x.ansi, x.state, "ESC") /\ y.state \in {"Escape", "OscTermination"}
<1>1. CASE x.state # "OscString"
  <2>1. y = Enter(Interrupt(x), "Escape")
    BY <1>1 DEF ProcessPlain
  <2> QED
    BY <1>1, <2>1, EscapeEffect DEF PlainTo
<1>2. CASE x.state = "OscString"
  <2> DEFINE row == Row(x.ansi, "OscString", "ESC")
  <2>1. y = Event(x, "ESC", ok)
    BY <1>2 DEF ProcessPlain
  <2>2. row = <<{"ESC"}, "Ignore", "OscTermination">>
    BY EscInOscString
  <2>3. row[2] = "Ignore" /\ row[3] = "OscTermination" /\ "OscTermination" # Stay
    BY <2>2 DEF Stay
  <2>4. y = IF row[3] = Stay THEN Act(row[2], x, "ESC", ok) ELSE Enter(Act(row[2], x, "ESC", ok), row[3])
    BY <1>2, <2>1 DEF Event, Row
  <2> HIDE DEF row
  <2>5. y = Enter(x, "OscTermination")
    BY <2>3, <2>4 DEF Act
  <2>6. x \in Machine /\ Bounded(x) /\ "OscTermination" \in States \ {"Ground"} /\ "OscTermination" \in States
    BY SoundBasics, StatesAre
  <2>7. Acted(x, y, Others) /\ y.cached = x.cached
    BY <2>5, <2>6, EnterActs
  <2>8. Sound(y) /\ y.state = "OscTermination"
    <3>1. Expected(x, "OscTermination")
      BY DEF Expected
    <3> QED
      BY <2>5, <2>6, <3>1, EnterSound
  <2>9. PlainTo(x.ansi, x.state, "ESC") = "OscTermination"
    BY <1>2, <2>3 DEF PlainTo, Destination, row
  <2> QED
    BY <2>7, <2>8, <2>9
<1> QED
  BY <1>1, <1>2

\* Text is printed, and nothing else is.
Text(x, c) == x.state = "Ground" /\ c \notin ActionableFromGround
Kinds(x, c) == IF Text(x, c) THEN {"print"} ELSE Others

\* A character that is not a C1 control: its effect, and where it goes
LEMMA PlainEffect ==
  ASSUME NEW x, Sound(x), NEW c \in AllChars \ C1Controls, NEW ok \in BOOLEAN,
         NEW y, y = ProcessPlain(x, c, ok)
  PROVE  /\ Effect(x, y, Kinds(x, c)) /\ Sound(y)
         /\ x.state # "Vt52Param" => Alike(y.state) = PlainTo(x.ansi, x.state, c)
         /\ Text(x, c) => y.state = "Ground"
<1>0. x \in Machine /\ Bounded(x) /\ "Ground" \in States /\ "Escape" \in States /\ "Escape" \in States \ {"Ground"}
  BY SoundBasics, StatesAre
<1>1. CASE c = "CAN" /\ ~(x.state = "Escape" /\ engine = "input")
  <2> DEFINE w == Interrupt(x)
             d == Execute(w, c, ok)
  <2>1. y = Enter(d, "Ground")
    BY <1>1 DEF ProcessPlain
  <2>2. Acted(x, w, Others) /\ w.cached = x.cached /\ Bounded(w) /\ w \in Machine
    BY <1>0, InterruptActs DEF Acted
  <2> HIDE DEF w
  <2>3. Acted(w, d, Others) /\ SameData(w, d)
    BY <2>2, ExecuteActs
  <2> HIDE DEF d
  <2>4. Acted(x, d, Others) /\ Bounded(d) /\ d \in Machine /\ Expected(d, "Ground")
    BY <1>0, <2>2, <2>3, ActedTwice, SameDataBounded DEF Acted, Expected
  <2>5. Effect(x, y, Others) /\ Sound(y) /\ y.state = "Ground"
    BY <1>0, <2>1, <2>4, EnterEffect, EnterSound
  <2>6. ~Text(x, c)
    BY <1>1 DEF Text, ActionableFromGround
  <2> QED
    BY <1>1, <2>5, <2>6 DEF Kinds, PlainTo, Alike
<1>2. CASE c = "ESC"
  <2>1. /\ Acted(x, y, Others) /\ Sound(y) /\ y.state = PlainTo(x.ansi, x.state, "ESC")
        /\ y.state \in {"Escape", "OscTermination"}
    BY <1>2, EscEffect
  <2>2. ~Text(x, c) /\ Alike(y.state) = y.state
    BY <1>2, <2>1 DEF Text, ActionableFromGround, Alike
  <2> QED
    BY <1>2, <2>1, <2>2, ActedEffect DEF Kinds
<1>3. CASE ~(c = "CAN" /\ ~(x.state = "Escape" /\ engine = "input")) /\ c # "ESC"
  <2>1. CASE x.state = "OscTermination" /\ c # "BACKSLASH"
    <3> DEFINE w == Enter(x, "Escape")
    <3>1. y = Event(w, c, ok)
      BY <1>3, <2>1 DEF ProcessPlain
    <3>2. Acted(x, w, Others) /\ w.cached = x.cached
      BY <1>0, EnterActs
    <3>3. Sound(w) /\ w.state = "Escape"
      <4>1. Expected(x, "Escape")
        BY DEF Expected
      <4> QED
        BY <1>0, <4>1, EnterSound
    <3>4. w.ansi = x.ansi
      BY <3>2 DEF Acted, Kept
    <3> HIDE DEF w
    <3>5. Effect(w, y, Others) /\ Sound(y) /\ Alike(y.state) = Destination(x.ansi, "Escape", c)
      <4>1. KindsOf(w, c) = Others
        BY <3>3 DEF KindsOf
      <4> QED
        BY <3>1, <3>3, <3>4, <4>1, EventEffect
    <3>6. Effect(x, y, Others)
      BY <1>0, <3>2, <3>5, EffectAfter
    <3>7. ~Text(x, c) /\ PlainTo(x.ansi, x.state, c) = Destination(x.ansi, "Escape", c)
      BY <1>3, <2>1 DEF Text, PlainTo
    <3> QED
      BY <3>5, <3>6, <3>7 DEF Kinds
  <2>2. CASE ~(x.state = "OscTermination" /\ c # "BACKSLASH")
    <3>1. y = Event(x, c, ok)
      BY <1>3, <2>2 DEF ProcessPlain
    <3>2. KindsOf(x, c) = Kinds(x, c)
      BY <1>3 DEF KindsOf, Kinds, Text, ActionableFromGround
    <3>3. PlainTo(x.ansi, x.state, c) = Destination(x.ansi, x.state, c)
      BY <1>3, <2>2 DEF PlainTo
    <3> QED
      BY <2>2, <3>1, <3>2, <3>3, EventEffect DEF Text
  <2> QED
    BY <2>1, <2>2
<1> QED
  BY <1>1, <1>2, <1>3

CharTo(ansi, s, c) ==
  IF c \in C1Controls THEN PlainTo(ansi, PlainTo(ansi, s, "ESC"), C1To7Bit[c]) ELSE PlainTo(ansi, s, c)

\* ProcessCharacter: a C1 control is an escape and a 7 bit character.
LEMMA CharacterEffect ==
  ASSUME NEW x, Sound(x), NEW c \in AllChars, NEW ok \in BOOLEAN, NEW y, y = ProcessCharacter(x, c, ok)
  PROVE  /\ Effect(x, y, Kinds(x, c)) /\ Sound(y)
         /\ x.state # "Vt52Param" => Alike(y.state) = CharTo(x.ansi, x.state, c)
         /\ Text(x, c) => y.state = "Ground"
<1>1. CASE c \in C1Controls
  <2> DEFINE w == ProcessPlain(x, "ESC", ok)
             d == C1To7Bit[c]
  <2>1. y = ProcessPlain(w, d, ok)
    BY <1>1 DEF ProcessCharacter
  <2>2. /\ Acted(x, w, Others) /\ w.cached = x.cached /\ Sound(w)
        /\ w.state = PlainTo(x.ansi, x.state, "ESC") /\ w.state \in {"Escape", "OscTermination"}
    BY EscEffect
  <2>3. d \in AllChars \ C1Controls
    BY <1>1 DEF C1Controls, C1To7Bit, AllChars, Unaddressed
  <2> HIDE DEF w, d
  <2>4. w.ansi = x.ansi /\ x \in Machine
    BY <2>2, SoundBasics DEF Acted, Kept
  <2>5. Effect(w, y, Others) /\ Sound(y) /\ Alike(y.state) = PlainTo(x.ansi, w.state, d)
    <3>1. Kinds(w, d) = Others
      BY <2>2 DEF Kinds, Text
    <3> QED
      BY <2>1, <2>2, <2>3, <2>4, <3>1, PlainEffect
  <2>6. Effect(x, y, Others)
    BY <2>2, <2>4, <2>5, EffectAfter
  <2>7. ~Text(x, c)
    BY <1>1 DEF Text, ActionableFromGround
  <2>8. CharTo(x.ansi, x.state, c) = PlainTo(x.ansi, w.state, d)
    BY <1>1, <2>2 DEF CharTo, d
  <2> QED
    BY <2>5, <2>6, <2>7, <2>8 DEF Kinds
<1>2. CASE c \notin C1Controls
  <2>1. y = ProcessPlain(x, c, ok)
    BY <1>2 DEF ProcessCharacter
  <2>2. CharTo(x.ansi, x.state, c) = PlainTo(x.ansi, x.state, c)
    BY <1>2 DEF CharTo
  <2> QED
    BY <1>2, <2>1, <2>2, PlainEffect
<1> QED
  BY <1>1, <1>2
-----------------------------------------------------------------------------
(***************************************************************************)
(* Processing a run again                                                  *)
(***************************************************************************)

\* The states of a machine in ANSI mode, up to the answer to a DCS
Traced == States \ {"Vt52Param", "DcsPassThrough"}

\* A DCS string that is run through and one that is ignored end alike.
LEMMA AlikeTo ==
  ASSUME NEW s \in States \ {"Vt52Param"}, NEW c \in AllChars
  PROVE  CharTo(TRUE, s, c) = CharTo(TRUE, Alike(s), c)
<1>1. CASE s # "DcsPassThrough"
  BY <1>1 DEF Alike
<1>2. CASE s = "DcsPassThrough"
  <2>1. ASSUME NEW d \in AllChars, NEW t \in DcsStrings PROVE Destination(TRUE, t, d) = "DcsIgnore"
    <3>1. Fits(TRUE, t, d, Row(TRUE, t, d)[2], Row(TRUE, t, d)[3])
      <4>1. t \in States /\ t # "OscTermination"
        BY StatesAre DEF DcsStrings
      <4> QED
        BY <4>1, TableFits DEF Row
    <3>2. Row(TRUE, t, d)[3] = Stay /\ Row(TRUE, t, d)[2] # "dcs"
      BY <3>1 DEF Fits, DcsStrings
    <3> QED
      BY <3>2 DEF Destination, Alike, DcsStrings
  <2>2. ASSUME NEW d \in AllChars PROVE PlainTo(TRUE, "DcsPassThrough", d) = PlainTo(TRUE, "DcsIgnore", d)
    <3>1. Destination(TRUE, "DcsPassThrough", d) = Destination(TRUE, "DcsIgnore", d)
      BY <2>1 DEF DcsStrings
    <3> QED
      BY <3>1 DEF PlainTo
  <2>3. "ESC" \in AllChars
    BY DEF AllChars
  <2> QED
    BY <1>2, <2>2, <2>3 DEF CharTo, Alike
<1> QED
  BY <1>1, <1>2

\* The machine that Init starts with has its type.
LEMMA NewInMachine == NewMachine \in Machine
<1> DEFINE e == <<>>
<1>1. e \in Seq(Chars) /\ e \in Seq(AllChars) /\ e \in Seq(AllChars \cup {"NUL"})
      /\ e \in Seq(Default .. MaxValue) /\ e \in Seq(Calls)
  OBVIOUS
<1>2. 0 \in 0 .. MaxValue /\ "Ground" \in States
  BY ConstantsAssumption, StatesAre
<1>3. NewMachine = [state |-> "Ground", ansi |-> TRUE, params |-> e, limit |-> FALSE, id |-> e,
                    oscParam |-> 0, osc |-> e, handler |-> FALSE,
                    individually |-> FALSE, run |-> e, cached |-> e, calls |-> e]
  BY DEF NewMachine
<1> HIDE DEF e
<1> QED
  BY <1>1, <1>2, <1>3 DEF Machine

\* It is a sound machine in any state that Follow puts it in.
LEMMA NewSound ==
  ASSUME NEW s \in Traced, NEW x, x = [NewMachine EXCEPT !.state = s]
  PROVE  Sound(x) /\ x.state = s /\ x.ansi = TRUE
<1>0. Len(<<>>) = 0 /\ MaxCount \in Nat /\ MaxCollect \in Nat
  BY ConstantsAssumption
<1>1. s \in States /\ s # "Vt52Param" /\ s # "DcsPassThrough"
  BY DEF Traced
<1>2. x \in Machine
  BY <1>1, NewInMachine DEF Machine
<1>3. x.state = s /\ x.ansi = TRUE /\ x.params = <<>> /\ x.id = <<>> /\ x.cached = <<>>
  BY DEF NewMachine
<1> QED
  BY <1>0, <1>1, <1>2, <1>3 DEF Sound

\* Follow is where ProcessCharacter goes in ANSI mode.
LEMMA FollowIs ==
  ASSUME NEW s \in Traced, NEW c \in AllChars
  PROVE  Follow(s, c) = CharTo(TRUE, s, c) /\ Follow(s, c) \in Traced
<1> DEFINE x == [NewMachine EXCEPT !.state = s]
           y == ProcessCharacter(x, c, TRUE)
<1>1. Sound(x) /\ x.state = s /\ x.ansi = TRUE
  BY NewSound
<1> HIDE DEF x
<1>2. x.state # "Vt52Param"
  BY <1>1 DEF Traced
<1>3. Effect(x, y, Kinds(x, c)) /\ Sound(y) /\ Alike(y.state) = CharTo(TRUE, s, c)
  BY <1>1, <1>2, CharacterEffect
<1>4. Follow(s, c) = Alike(y.state)
  BY DEF Follow, x
<1> HIDE DEF y
<1>5. y.ansi = TRUE /\ y.state \in States
  BY <1>1, <1>3, SoundBasics DEF Effect, Kept
<1>6. y.state # "Vt52Param"
  BY <1>3, <1>5 DEF Sound
<1>7. Alike(y.state) \in Traced
  BY <1>5, <1>6, StatesAre DEF Traced, Alike
<1> QED
  BY <1>3, <1>4, <1>7

\* The recursive function of Retrace, unfolded once at every character
LEMMA RetraceWalk ==
  ASSUME NEW run \in Seq(Chars), NEW after, after = Retrace(run)
  PROVE  /\ after[0] = "Ground"
         /\ \A n \in 0 .. Len(run) : after[n] \in Traced
         /\ \A n \in 1 .. Len(run) : after[n] = Follow(after[n - 1], run[n])
<1> DEFINE N == Len(run)
           S == Traced
           K(s, n) == Follow(s, run[n])
           step == [n \in Nat |-> [s \in S |-> IF n \in 1 .. N THEN K(s, n) ELSE s]]
           G(f) == f = [n \in 0 .. N |-> IF n = 0 THEN "Ground" ELSE K(f[n - 1], n)]
<1>0. N \in Nat /\ "Ground" \in S /\ \A n \in 1 .. N : \A s \in S : K(s, n) \in S
  <2>1. \A n \in 1 .. N : run[n] \in AllChars
    BY ConstantsAssumption
  <2>2. "Ground" \in S
    BY StatesAre DEF Traced
  <2>3. ASSUME NEW n \in 1 .. N, NEW s \in S PROVE K(s, n) \in S
    <3>1. run[n] \in AllChars
      BY <2>1
    <3> QED
      BY <3>1, FollowIs
  <2>4. N \in Nat
    OBVIOUS
  <2> QED
    BY <2>2, <2>3, <2>4
<1> HIDE DEF N, S, K
<1>1. step \in [Nat -> [S -> S]] /\ \A n \in 1 .. N : \A s \in S : step[n][s] = K(s, n)
  BY <1>0
<1> HIDE DEF step
<1>2. PICK f : Computes(f, S, "Ground", step, N)
  BY <1>0, <1>1, RecursionUpTo
<1>3. ASSUME NEW n \in 1 .. N PROVE f[n] = K(f[n - 1], n)
  <2>1. n - 1 \in 0 .. N
    BY <1>0
  <2> QED
    BY <1>1, <1>2, <2>1 DEF Computes
<1>4. G(f)
  BY <1>0, <1>2, <1>3 DEF Computes
<1> DEFINE g == CHOOSE h : G(h)
<1>5. G(g)
  BY <1>4
<1>6. after = g
  BY DEF Retrace, N, K
<1> HIDE DEF g
<1>7. after[0] = "Ground" /\ \A n \in 1 .. N : after[n] = K(after[n - 1], n)
  BY <1>0, <1>5, <1>6
<1> DEFINE P == {n \in 0 .. N : after[n] \in S}
<1>8. 0 \in P
  BY <1>0, <1>7
<1>9. ASSUME NEW n \in 1 .. N, n - 1 \in P PROVE n \in P
  BY <1>0, <1>7, <1>9
<1> HIDE DEF P
<1>10. \A n \in 0 .. N : n \in P
  BY <1>0, <1>8, <1>9, SetInductionUpTo
<1> QED
  BY <1>7, <1>10 DEF N, K, P, S

\* The run so far has been followed to the state s, and never back to the ground.
Followed(run, s) ==
  LET after == Retrace(run) IN
    /\ after[Len(run)] = Alike(s)
    /\ \A n \in 1 .. Len(run) : after[n] # "Ground"

\* An empty run is at the ground.
LEMMA FollowedNothing == Followed(<<>>, "Ground")
<1> DEFINE run == <<>>
<1>1. run \in Seq(Chars) /\ Len(run) = 0 /\ 1 .. Len(run) = {}
  OBVIOUS
<1>2. Retrace(run)[0] = "Ground"
  BY <1>1, RetraceWalk
<1> HIDE DEF run
<1>3. Followed(run, "Ground")
  BY <1>1, <1>2 DEF Followed, Alike
<1> QED
  BY <1>3 DEF run

\* One more character that does not end at the ground
LEMMA FollowedFurther ==
  ASSUME NEW run \in Seq(Chars), NEW s \in States \ {"Vt52Param"}, Followed(run, s), NEW c \in Chars,
         NEW t \in States \ {"Ground"}, Alike(t) = CharTo(TRUE, s, c)
  PROVE  Followed(Append(run, c), t)
<1> DEFINE N == Len(run)
           more == Append(run, c)
           f == Retrace(run)
           g == Retrace(more)
<1>0. N \in Nat /\ more \in Seq(Chars) /\ Len(more) = N + 1 /\ more[N + 1] = c
      /\ \A n \in 1 .. N : more[n] = run[n]
  OBVIOUS
<1>1. /\ f[0] = "Ground" /\ \A n \in 1 .. N : f[n] = Follow(f[n - 1], run[n])
      /\ \A n \in 0 .. N : f[n] \in Traced
  BY RetraceWalk
<1>2. g[0] = "Ground" /\ \A n \in 1 .. N + 1 : g[n] = Follow(g[n - 1], more[n])
  BY <1>0, RetraceWalk
<1>3. f[N] = Alike(s) /\ \A n \in 1 .. N : f[n] # "Ground"
  BY DEF Followed
<1> HIDE DEF N, more, f, g
<1> DEFINE P == {n \in 0 .. N : g[n] = f[n]}
<1>4. 0 \in P
  BY <1>0, <1>1, <1>2
<1>5. ASSUME NEW n \in 1 .. N, n - 1 \in P PROVE n \in P
  <2>1. n \in 1 .. N + 1 /\ n \in 0 .. N /\ g[n - 1] = f[n - 1]
    BY <1>0, <1>5
  <2>2. g[n] = Follow(g[n - 1], more[n]) /\ f[n] = Follow(f[n - 1], run[n]) /\ more[n] = run[n]
    BY <1>0, <1>1, <1>2, <2>1
  <2> QED
    BY <2>1, <2>2
<1> HIDE DEF P
<1>6. \A n \in 0 .. N : n \in P
  BY <1>0, <1>4, <1>5, SetInductionUpTo
<1>7. \A n \in 0 .. N : g[n] = f[n]
  BY <1>6 DEF P
<1>8. g[N + 1] = Alike(t)
  <2>1. g[N + 1] = Follow(g[N], c) /\ g[N] = Alike(s)
    <3>1. N + 1 \in 1 .. N + 1 /\ (N + 1) - 1 = N /\ N \in 0 .. N
      BY <1>0
    <3>2. g[N + 1] = Follow(g[(N + 1) - 1], more[N + 1])
      BY <1>2, <3>1
    <3> QED
      BY <1>0, <1>3, <1>7, <3>1, <3>2
  <2>2. c \in AllChars /\ Alike(s) \in Traced
    BY ConstantsAssumption, StatesAre DEF Alike, Traced
  <2>3. Follow(Alike(s), c) = CharTo(TRUE, Alike(s), c)
    BY <2>2, FollowIs
  <2>4. CharTo(TRUE, s, c) = CharTo(TRUE, Alike(s), c)
    BY <2>2, AlikeTo
  <2> QED
    BY <2>1, <2>3, <2>4
<1>9. Alike(t) # "Ground"
  BY DEF Alike
<1>10. ASSUME NEW n \in 1 .. N + 1 PROVE g[n] # "Ground"
  <2>1. CASE n = N + 1
    BY <1>8, <1>9, <2>1
  <2>2. CASE n \in 1 .. N
    BY <1>0, <1>3, <1>7, <2>2
  <2> QED
    BY <1>0, <2>1, <2>2
<1> QED
  BY <1>0, <1>8, <1>10 DEF Followed, g, more
-----------------------------------------------------------------------------
(***************************************************************************)
(* The text that calls print                                               *)
(***************************************************************************)

\* A character behind two sequences
LEMMA Concatenations ==
  ASSUME NEW E, NEW a \in Seq(E), NEW b \in Seq(E), NEW e \in E
  PROVE  /\ <<>> \o a = a /\ a \o <<>> = a
         /\ a \o Append(b, e) = (a \o b) \o <<e>>
         /\ Append(a, e) = a \o <<e>>
<1>1. <<>> \o a = a /\ a \o <<>> = a
  BY ConcatEmptySeq
<1>2. <<e>> \in Seq(E)
  OBVIOUS
<1>3. Append(a, e) = a \o <<e>> /\ Append(b, e) = b \o <<e>>
  BY AppendIsConcat
<1>4. a \o (b \o <<e>>) = (a \o b) \o <<e>>
  BY <1>2, ConcatAssociative
<1> QED
  BY <1>1, <1>3, <1>4

\* The recursive function of TextOf, unfolded once at every call
LEMMA TextOfWalk ==
  ASSUME NEW calls \in Seq(Calls)
  PROVE  \E text : /\ TextOf(calls) = text[Len(calls)] /\ text[0] = <<>>
                   /\ \A n \in 1 .. Len(calls) :
                        text[n] = IF calls[n].kind = "print" THEN text[n - 1] \o calls[n].arg ELSE text[n - 1]
<1> DEFINE N == Len(calls)
           S == Seq(AllChars)
           empty == <<>>
           K(t, n) == IF calls[n].kind = "print" THEN t \o calls[n].arg ELSE t
           step == [n \in Nat |-> [t \in S |-> IF n \in 1 .. N THEN K(t, n) ELSE t]]
           G(f) == f = [n \in 0 .. N |-> IF n = 0 THEN empty ELSE K(f[n - 1], n)]
<1>0. N \in Nat /\ empty \in S /\ \A n \in 1 .. N : \A t \in S : K(t, n) \in S
  <2>1. ASSUME NEW n \in 1 .. N, NEW t \in S PROVE K(t, n) \in S
    <3>1. calls[n] \in Calls
      OBVIOUS
    <3>2. calls[n].arg \in S
      BY <3>1 DEF Calls
    <3> QED
      BY <3>2
  <2> QED
    BY <2>1
<1> HIDE DEF N, S, empty, K
<1>1. step \in [Nat -> [S -> S]] /\ \A n \in 1 .. N : \A t \in S : step[n][t] = K(t, n)
  BY <1>0
<1> HIDE DEF step
<1>2. PICK f : Computes(f, S, empty, step, N)
  BY <1>0, <1>1, RecursionUpTo
<1>3. ASSUME NEW n \in 1 .. N PROVE f[n] = K(f[n - 1], n)
  <2>1. n - 1 \in 0 .. N
    BY <1>0
  <2> QED
    BY <1>1, <1>2, <2>1 DEF Computes
<1>4. G(f)
  BY <1>0, <1>2, <1>3 DEF Computes
<1> DEFINE g == CHOOSE h : G(h)
<1>5. G(g)
  BY <1>4
<1>6. TextOf(calls) = g[N]
  BY DEF TextOf, N, K, empty
<1> HIDE DEF g
<1>7. g[0] = empty /\ \A n \in 1 .. N : g[n] = K(g[n - 1], n)
  BY <1>0, <1>5
<1> QED
  BY <1>6, <1>7 DEF N, K, empty

\* Only the first k calls print.
PrintsUpTo(calls, k) ==
  /\ k <= Len(calls)
  /\ \A i \in 1 .. Len(calls) : calls[i].kind = "print" <=> i <= k

\* Calls that print nothing print no text.
LEMMA TextOfNone ==
  ASSUME NEW calls \in Seq(Calls), PrintsUpTo(calls, 0)
  PROVE  TextOf(calls) = <<>>
<1> DEFINE N == Len(calls)
<1>0. N \in Nat /\ \A i \in 1 .. N : calls[i].kind # "print"
  BY DEF PrintsUpTo
<1>1. PICK text : /\ TextOf(calls) = text[N] /\ text[0] = <<>>
                  /\ \A n \in 1 .. N :
                       text[n] = IF calls[n].kind = "print" THEN text[n - 1] \o calls[n].arg ELSE text[n - 1]
  BY TextOfWalk
<1> DEFINE P == {n \in 0 .. N : text[n] = <<>>}
<1> HIDE DEF N
<1>2. 0 \in P
  BY <1>0, <1>1
<1>3. ASSUME NEW n \in 1 .. N, n - 1 \in P PROVE n \in P
  BY <1>0, <1>1, <1>3
<1> HIDE DEF P
<1>4. \A n \in 0 .. N : n \in P
  BY <1>0, <1>2, <1>3, SetInductionUpTo
<1>5. N \in P
  BY <1>0, <1>4
<1> QED
  BY <1>1, <1>5 DEF P

\* If only the first call prints, its argument is the text.
LEMMA TextOfFirst ==
  ASSUME NEW calls \in Seq(Calls), PrintsUpTo(calls, 1)
  PROVE  TextOf(calls) = calls[1].arg
<1> DEFINE N == Len(calls)
           arg == calls[1].arg
<1>0. N \in Nat /\ N >= 1 /\ calls[1].kind = "print" /\ \A i \in 2 .. N : calls[i].kind # "print"
  BY DEF PrintsUpTo
<1>1. PICK text : /\ TextOf(calls) = text[N] /\ text[0] = <<>>
                  /\ \A n \in 1 .. N :
                       text[n] = IF calls[n].kind = "print" THEN text[n - 1] \o calls[n].arg ELSE text[n - 1]
  BY TextOfWalk
<1>2. arg \in Seq(AllChars)
  <2>1. calls[1] \in Calls
    BY <1>0
  <2> QED
    BY <2>1 DEF Calls
<1>3. <<>> \o arg = arg
  <2> HIDE DEF arg
  <2> QED
    BY <1>2, ConcatEmptySeq
<1> HIDE DEF N
<1>4. text[1] = arg
  <2>0. 1 \in 1 .. N /\ 1 - 1 = 0
    BY <1>0
  <2>1. text[1] = text[0] \o calls[1].arg
    BY <1>0, <1>1, <2>0
  <2> QED
    BY <1>1, <1>3, <2>1
<1> HIDE DEF arg
<1> DEFINE P == {n \in 0 .. N : n >= 1 => text[n] = arg}
<1>5. 0 \in P
  BY <1>0
<1>6. ASSUME NEW n \in 1 .. N, n - 1 \in P PROVE n \in P
  <2>1. CASE n = 1
    BY <1>0, <1>4, <2>1
  <2>2. CASE n # 1
    <3>1. n \in 2 .. N /\ n - 1 >= 1
      BY <1>0, <2>2
    <3> QED
      BY <1>0, <1>1, <1>6, <3>1
  <2> QED
    BY <2>1, <2>2
<1> HIDE DEF P
<1>7. \A n \in 0 .. N : n \in P
  BY <1>0, <1>5, <1>6, SetInductionUpTo
<1>8. N \in P
  BY <1>0, <1>7
<1> QED
  BY <1>0, <1>1, <1>8 DEF P, arg
-----------------------------------------------------------------------------
(***************************************************************************)
(* The engine stays, and so does what its parser makes of a character      *)
(***************************************************************************)

\* The rows of Escape are the only ones that ask for the engine.
LEMMA EscapeSame ==
  ASSUME engine' = engine, NEW ansi
  PROVE  EventEscape(ansi)' = EventEscape(ansi)
  BY DEF EventEscape

\* The table of events
LEMMA EventsSame ==
  ASSUME engine' = engine, NEW ansi
  PROVE  Events(ansi)' = Events(ansi)
  BY EscapeSame DEF Events

\* The type of a machine, whose states are those of the table
LEMMA MachineSame == ASSUME engine' = engine PROVE Machine' = Machine
<1>1. States' = States
  BY EventsSame DEF States
<1> QED
  BY <1>1 DEF Machine

\* The invariant on a machine
LEMMA SoundSame ==
  ASSUME engine' = engine
  PROVE  Sound(m)' <=> Sound(m')
  BY MachineSame DEF Sound

\* The execution of a control character
LEMMA ExecuteSame ==
  ASSUME engine' = engine, NEW x, NEW c, NEW ok
  PROVE  Execute(x, c, ok)' = Execute(x, c, ok)
  BY DEF Execute

\* A dispatch
LEMMA DispatchSame ==
  ASSUME engine' = engine, NEW x, NEW k, NEW c, NEW ok
  PROVE  Dispatch(x, k, c, ok)' = Dispatch(x, k, c, ok)
  BY DEF Dispatch

\* The parameters of a VT52 command
LEMMA PutSame ==
  ASSUME engine' = engine, NEW x, NEW c, NEW ok
  PROVE  Vt52Put(x, c, ok)' = Vt52Put(x, c, ok)
  BY DispatchSame DEF Vt52Put

\* Every action
LEMMA ActSame ==
  ASSUME engine' = engine, NEW a, NEW x, NEW c, NEW ok
  PROVE  Act(a, x, c, ok)' = Act(a, x, c, ok)
  BY DispatchSame, PutSame, ExecuteSame DEF Act

\* An event
LEMMA EventSame ==
  ASSUME engine' = engine, NEW x, NEW c, NEW ok
  PROVE  Event(x, c, ok)' = Event(x, c, ok)
<1> DEFINE rows == Events(x.ansi)[x.state]
           row == rows[FirstRow(rows, c)]
<1>1. rows' = rows
  BY EventsSame
<1> HIDE DEF rows
<1>2. row' = row
  BY <1>1
<1>3. \A a : Act(a, x, c, ok)' = Act(a, x, c, ok)
  BY ActSame
<1> QED
  BY EventsSame, <1>3 DEF Event

\* A character that is not a C1 control
LEMMA PlainSame ==
  ASSUME engine' = engine, NEW x, NEW c, NEW ok
  PROVE  ProcessPlain(x, c, ok)' = ProcessPlain(x, c, ok)
  BY EventSame, ExecuteSame DEF ProcessPlain

\* Any character
LEMMA CharacterSame ==
  ASSUME engine' = engine, NEW x, NEW c, NEW ok
  PROVE  ProcessCharacter(x, c, ok)' = ProcessCharacter(x, c, ok)
  BY PlainSame DEF ProcessCharacter

\* Where a character goes
LEMMA FollowSame ==
  ASSUME engine' = engine, NEW s, NEW c
  PROVE  Follow(s, c)' = Follow(s, c)
  BY CharacterSame DEF Follow

\* Where a run goes
LEMMA RetraceSame ==
  ASSUME engine' = engine, NEW run
  PROVE  Retrace(run)' = Retrace(run)
  BY FollowSame DEF Retrace
-----------------------------------------------------------------------------
(***************************************************************************)
(* One character of a string                                               *)
(***************************************************************************)

\* Text that is processed character by character
LEMMA TextPrinted ==
  ASSUME NEW x, Sound(x), NEW c \in AllChars, NEW ok, Text(x, c)
  PROVE  ProcessCharacter(x, c, ok) = Call(x, "print", <<c>>)
<1> DEFINE row == Row(x.ansi, x.state, c)
<1>1. /\ c \notin C1Controls /\ c # "CAN" /\ c # "ESC" /\ c \notin C0Codes \cup Delete /\ x.state = "Ground"
  BY DEF Text, ActionableFromGround
<1>2. ProcessCharacter(x, c, ok) = Event(x, c, ok)
  BY <1>1 DEF ProcessCharacter, ProcessPlain
<1>3. Fits(x.ansi, x.state, c, row[2], row[3])
  BY <1>1, SoundBasics, TableFits DEF Row
<1>4. row[2] = "Print" /\ row[3] = Stay
  BY <1>1, <1>3 DEF Fits
<1>5. Event(x, c, ok) = IF row[3] = Stay THEN Act(row[2], x, c, ok) ELSE Enter(Act(row[2], x, c, ok), row[3])
  BY DEF Event, Row
<1> HIDE DEF row
<1>6. Event(x, c, ok) = Act("Print", x, c, ok)
  BY <1>4, <1>5
<1> QED
  BY <1>2, <1>6 DEF Act

\* A machine is sound if its data are those of a sound one.
LEMMA SameSound ==
  ASSUME NEW x, Sound(x), NEW y \in Machine, SameData(x, y), y.ansi = x.ansi, y.cached = x.cached
  PROVE  Sound(y)
  BY DEF Sound, SameData

\* What a character that is processed individually leaves
Outcome(x, z, K) ==
  /\ Sound(z) /\ z.ansi = x.ansi /\ Told(x, z, K)
  /\ z.state = "Ground" => z.individually = FALSE /\ z.run = <<>>
  /\ z.state # "Ground" => /\ z.individually = TRUE /\ z.run = x.run
                           /\ z.cached = x.cached \/ Passed(x, z)
  /\ x.cached = <<>> => z.cached = <<>>

\* A character that is processed individually; back at the ground the run is dropped.
LEMMA IndividuallyOutcome ==
  ASSUME NEW x, Sound(x), x.individually = TRUE, NEW c \in AllChars, NEW ok \in BOOLEAN,
         NEW z, z = ProcessIndividually(x, c, ok)
  PROVE  /\ Outcome(x, z, Kinds(x, c))
         /\ x.state # "Vt52Param" => Alike(z.state) = CharTo(x.ansi, x.state, c)
         /\ Text(x, c) => z.state = "Ground" /\ z.calls = Append(x.calls, [kind |-> "print", arg |-> <<c>>])
<1> DEFINE y == ProcessCharacter(x, c, ok)
           K == Kinds(x, c)
<1>1. /\ Effect(x, y, K) /\ Sound(y)
      /\ Text(x, c) => y.state = "Ground"
      /\ x.state # "Vt52Param" => Alike(y.state) = CharTo(x.ansi, x.state, c)
  BY CharacterEffect
<1>2. z = IF y.state = "Ground" THEN [y EXCEPT !.individually = FALSE, !.run = <<>>] ELSE y
  BY DEF ProcessIndividually
<1>3. Text(x, c) => y.calls = Append(x.calls, [kind |-> "print", arg |-> <<c>>])
  <2>1. ASSUME Text(x, c) PROVE y.calls = Append(x.calls, [kind |-> "print", arg |-> <<c>>])
    <3>1. y = Call(x, "print", <<c>>) /\ x \in Machine
      BY <2>1, TextPrinted, SoundBasics
    <3> HIDE DEF y
    <3> QED
      BY <3>1 DEF Call, Machine
  <2> QED
    BY <2>1
<1> HIDE DEF y, K
<1>4. y \in Machine /\ Kept(x, y) /\ Told(x, y, K)
  BY <1>1 DEF Effect
<1>5. CASE y.state = "Ground"
  <2>0. <<>> \in Seq(Chars) /\ z = [y EXCEPT !.individually = FALSE, !.run = <<>>]
    BY <1>2, <1>5
  <2>1. z \in Machine
    BY <1>4, <2>0 DEF Machine
  <2>2. z.state = y.state /\ z.params = y.params /\ z.id = y.id /\ z.handler = y.handler
        /\ z.ansi = y.ansi /\ z.cached = y.cached /\ z.calls = y.calls
    BY <1>4, <2>0 DEF Machine
  <2>3. z.individually = FALSE /\ z.run = <<>>
    BY <1>4, <2>0 DEF Machine
  <2>4. Sound(z)
    BY <1>1, <2>1, <2>2, SameSound DEF SameData
  <2>5. Told(x, z, K)
    BY <1>4, <2>2 DEF Told
  <2>6. z.cached = <<>> /\ z.ansi = x.ansi
    BY <1>1, <1>4, <1>5, <2>2 DEF Sound, Kept
  <2>7. Outcome(x, z, K)
    BY <1>5, <2>2, <2>3, <2>4, <2>5, <2>6 DEF Outcome
  <2> QED
    BY <1>1, <1>3, <1>5, <2>2, <2>7 DEF K
<1>6. CASE y.state # "Ground"
  <2>1. z = y
    BY <1>2, <1>6
  <2>2. y.individually = TRUE /\ y.run = x.run /\ y.ansi = x.ansi
    BY <1>4 DEF Kept
  <2>3. y.cached = x.cached \/ Passed(x, y)
    BY <1>1, <1>6 DEF Effect, Cleared
  <2>4. x.cached = <<>> => y.cached = <<>>
    BY <1>1, <1>6 DEF Effect, Cleared
  <2>5. Outcome(x, z, K)
    BY <1>1, <1>4, <1>6, <2>1, <2>2, <2>3, <2>4 DEF Outcome
  <2> QED
    BY <1>1, <1>6, <2>1, <2>5 DEF K
<1> QED
  BY <1>5, <1>6

\* The machine before the character: x is m with the run up to it.
Prepared(x, c) ==
  LET control == ~m.individually /\ c \in ActionableFromGround IN
    /\ x \in Machine /\ SameData(m, x) /\ x.ansi = m.ansi /\ x.cached = m.cached
    /\ x.individually = (m.individually \/ control)
    /\ x.run = IF control THEN <<c>> ELSE Append(m.run, c)
    /\ x.calls = IF control /\ m.run # <<>> THEN <<[kind |-> "print", arg |-> m.run]>> ELSE <<>>

\* A step begins without calls.
LEMMA NoCalls ==
  ASSUME NEW x \in Machine, NEW y, y = [x EXCEPT !.calls = <<>>]
  PROVE  /\ y \in Machine /\ SameData(x, y) /\ Kept(x, y) /\ y.cached = x.cached /\ y.calls = <<>>
<1>1. <<>> \in Seq(Calls)
  OBVIOUS
<1>2. y \in Machine
  BY <1>1 DEF Machine
<1>3. SameData(x, y) /\ Kept(x, y)
  BY DEF Machine, SameData, Kept
<1>4. y.cached = x.cached /\ y.calls = <<>>
  BY DEF Machine
<1> QED
  BY <1>2, <1>3, <1>4

\* ActionPrintString calls the engine for a string that is not empty.
LEMMA PrintStringFields ==
  ASSUME NEW x \in Machine, x.calls = <<>>, NEW string \in Seq(AllChars), NEW y, y = PrintString(x, string)
  PROVE  /\ y \in Machine /\ SameData(x, y) /\ Kept(x, y) /\ y.cached = x.cached
         /\ y.calls = IF string # <<>> THEN <<[kind |-> "print", arg |-> string]>> ELSE <<>>
<1>1. CASE string = <<>>
  BY <1>1 DEF PrintString, SameData, Kept
<1>2. CASE string # <<>>
  <2>1. y = Call(x, "print", string) /\ "print" \in CallKinds
    BY <1>2 DEF PrintString, CallKinds
  <2>2. /\ y \in Machine
        /\ y.state = x.state /\ y.ansi = x.ansi /\ y.params = x.params /\ y.id = x.id
        /\ y.handler = x.handler /\ y.individually = x.individually /\ y.run = x.run
        /\ y.cached = x.cached
        /\ y.calls = Append(x.calls, [kind |-> "print", arg |-> string])
    BY <2>1, CallFields
  <2>3. Append(<<>>, [kind |-> "print", arg |-> string]) = <<[kind |-> "print", arg |-> string]>>
    OBVIOUS
  <2> QED
    BY <1>2, <2>2, <2>3 DEF SameData, Kept
<1> QED
  BY <1>1, <1>2

\* ProcessNext in two parts: what precedes the character, and the character
LEMMA PrepareNext ==
  ASSUME m \in Machine, NEW c \in Chars, NEW ok
  PROVE  \E x : /\ Prepared(x, c) /\ SameBook(m, x)
                /\ ProcessNext(c, ok) = IF x.individually THEN ProcessIndividually(x, c, ok) ELSE x
<1> DEFINE control == ~m.individually /\ c \in ActionableFromGround
           silent == [m EXCEPT !.calls = <<>>]
           string == IF control THEN m.run ELSE <<>>
           before == PrintString(silent, string)
           run == IF control THEN <<c>> ELSE Append(m.run, c)
           x == [before EXCEPT !.individually = @ \/ control,
                               !.run = IF control THEN <<c>> ELSE Append(@, c)]
<1>1. ProcessNext(c, ok) = IF x.individually THEN ProcessIndividually(x, c, ok) ELSE x
  BY DEF ProcessNext
<1>2. m.run \in Seq(Chars) /\ m.individually \in BOOLEAN /\ Chars \subseteq AllChars
  BY ConstantsAssumption DEF Machine
<1>3. control \in BOOLEAN
  BY <1>2
<1>4. string \in Seq(AllChars) /\ (string # <<>> <=> control /\ m.run # <<>>) /\ (control => string = m.run)
  <2>1. <<>> \in Seq(AllChars) /\ m.run \in Seq(AllChars)
    BY <1>2
  <2> QED
    BY <1>3, <2>1
<1>5. run \in Seq(Chars)
  BY <1>2
<1> HIDE DEF control
<1>6. silent \in Machine /\ SameData(m, silent) /\ Kept(m, silent) /\ silent.cached = m.cached /\ silent.calls = <<>>
  BY NoCalls
<1>6a. SameBook(m, silent)
  BY DEF Machine, SameBook
<1> HIDE DEF silent, string
<1>7. /\ before \in Machine /\ SameData(silent, before) /\ Kept(silent, before) /\ before.cached = silent.cached
      /\ before.calls = IF string # <<>> THEN <<[kind |-> "print", arg |-> string]>> ELSE <<>>
  BY <1>4, <1>6, PrintStringFields
<1>7a. SameBook(silent, before)
  BY <1>6 DEF PrintString, Call, Machine, SameBook
<1> HIDE DEF before
<1>8. before.individually = m.individually /\ before.run = m.run /\ before.ansi = m.ansi
  BY <1>6, <1>7 DEF Kept
<1> DEFINE ind == m.individually \/ control
<1>9. x = [before EXCEPT !.individually = ind, !.run = run]
  BY <1>7, <1>8 DEF Machine
<1>10. ind \in BOOLEAN
  BY <1>2, <1>3
<1> HIDE DEF x, ind, run
<1>11. x \in Machine
  BY <1>5, <1>7, <1>9, <1>10 DEF Machine
<1>12. SameData(before, x)
  BY <1>7, <1>9 DEF Machine, SameData
<1>13. x.ansi = before.ansi /\ x.cached = before.cached /\ x.calls = before.calls
  BY <1>7, <1>9 DEF Machine
<1>14. x.individually = ind /\ x.run = run
  BY <1>7, <1>9 DEF Machine
<1>15. SameData(m, x)
  BY <1>6, <1>7, <1>12 DEF SameData
<1>16. x.ansi = m.ansi /\ x.cached = m.cached
  BY <1>6, <1>7, <1>8, <1>13
<1>17. x.calls = IF control /\ m.run # <<>> THEN <<[kind |-> "print", arg |-> m.run]>> ELSE <<>>
  BY <1>4, <1>7, <1>13
<1>18. Prepared(x, c)
  BY <1>11, <1>14, <1>15, <1>16, <1>17 DEF Prepared, control, ind, run
<1>19. SameBook(before, x)
  BY <1>7, <1>9 DEF Machine, SameBook
<1>20. SameBook(m, x)
  BY <1>6a, <1>7a, <1>19 DEF SameBook
<1> QED
  BY <1>1, <1>18, <1>20

\* The two ways a character goes: it is skipped over, or it is processed individually.
Skipped(c) ==
  /\ m.individually = FALSE /\ c \notin ActionableFromGround
  /\ m' \in Machine /\ SameData(m, m') /\ m'.ansi = m.ansi /\ m'.cached = m.cached
  /\ m'.individually = FALSE /\ m'.run = Append(m.run, c) /\ m'.calls = <<>>

Processed(x, c) ==
  /\ Prepared(x, c) /\ x.individually = TRUE /\ Sound(x)
  /\ Outcome(x, m', Kinds(x, c))
  /\ x.state # "Vt52Param" => Alike(m'.state) = CharTo(x.ansi, x.state, c)
  /\ Text(x, c) => m'.state = "Ground" /\ m'.calls = Append(x.calls, [kind |-> "print", arg |-> <<c>>])

\* A character is skipped over or processed individually.
LEMMA NextOutcome ==
  ASSUME Sound(m), NEW c \in Chars, NEW ok \in BOOLEAN, m' = ProcessNext(c, ok)
  PROVE  Skipped(c) \/ \E x : Processed(x, c)
<1>1. m \in Machine /\ c \in AllChars /\ m.individually \in BOOLEAN
  BY ConstantsAssumption, SoundBasics DEF Machine
<1>2. PICK x : /\ Prepared(x, c)
               /\ ProcessNext(c, ok) = IF x.individually THEN ProcessIndividually(x, c, ok) ELSE x
  BY <1>1, PrepareNext
<1>3. x \in Machine /\ SameData(m, x) /\ x.ansi = m.ansi /\ x.cached = m.cached
  BY <1>2 DEF Prepared
<1>4. x.individually \in BOOLEAN
  BY <1>3 DEF Machine
<1>5. CASE x.individually = FALSE
  <2>1. m' = x
    BY <1>2, <1>5
  <2>2. m.individually = FALSE /\ c \notin ActionableFromGround
    BY <1>1, <1>2, <1>5 DEF Prepared
  <2>3. x.run = Append(m.run, c) /\ x.calls = <<>>
    BY <1>2, <2>2 DEF Prepared
  <2> QED
    BY <1>3, <1>5, <2>1, <2>2, <2>3 DEF Skipped
<1>6. CASE x.individually = TRUE
  <2>1. m' = ProcessIndividually(x, c, ok)
    BY <1>2, <1>6
  <2>2. Sound(x)
    BY <1>3, SameSound
  <2>3. /\ Outcome(x, m', Kinds(x, c))
        /\ x.state # "Vt52Param" => Alike(m'.state) = CharTo(x.ansi, x.state, c)
        /\ Text(x, c) => m'.state = "Ground" /\ m'.calls = Append(x.calls, [kind |-> "print", arg |-> <<c>>])
    BY <1>1, <1>6, <2>1, <2>2, IndividuallyOutcome
  <2> QED
    BY <1>2, <1>6, <2>2, <2>3 DEF Processed
<1> QED
  BY <1>4, <1>5, <1>6

\* The history of the sequence and of the text, and the rest that a step leaves
LEMMA SequenceNoted ==
  ASSUME TypeOK, NEW arrived \in Seq(Chars), NoteSequence(arrived)
  PROVE  seq' \in Seq(Chars) /\ rung' \in BOOLEAN
<1>1. <<>> \in Seq(Chars) /\ seq \in Seq(Chars) /\ rung \in BOOLEAN
  BY DEF TypeOK
<1>2. seq' \in Seq(Chars)
  BY <1>1 DEF NoteSequence
<1>3. rung' \in BOOLEAN
  BY <1>1 DEF NoteSequence
<1> QED
  BY <1>2, <1>3

\* When everything that was received is printed the history of the text is empty.
LEMMA TextNoted ==
  ASSUME NEW arrived, NoteText(arrived), received \o arrived = printed \o TextOf(m'.calls)
  PROVE  received' = <<>> /\ printed' = <<>>
  BY DEF NoteText

\* Everything that was received is printed, by the first call if by any.
AllPrinted ==
  /\ received' = <<>> /\ printed' = <<>>
  /\ \E k \in {0, 1} : PrintsUpTo(m'.calls, k)

\* Nothing is a prefix of anything.
LEMMA EmptyIsPrefix == ASSUME NEW s \in Seq(Chars) PROVE IsPrefix(<<>>, s)
<1>1. Len(<<>>) = 0 /\ Len(s) \in Nat /\ SubSeq(s, 1, 0) = <<>>
  OBVIOUS
<1> QED
  BY <1>1 DEF IsPrefix

\* A step that leaves nothing to print has the text in order.
LEMMA AllPrintedInOrder ==
  ASSUME Sound(m'), AllPrinted
  PROVE  TextInOrder'
<1>1. DOMAIN m'.calls = 1 .. Len(m'.calls)
  BY SoundBasics, CallLengths DEF Sound
<1>2. IsPrefix(printed', received')
  <2>1. <<>> \in Seq(Chars)
    OBVIOUS
  <2> QED
    BY <2>1, EmptyIsPrefix DEF AllPrinted
<1>3. \A i \in DOMAIN m'.calls : m'.calls[i].kind = "print" => i = 1
  BY <1>1 DEF AllPrinted, PrintsUpTo
<1> QED
  BY <1>2, <1>3 DEF TextInOrder, AllPrinted

\* The type invariant follows from a sound machine and the types of the history.
LEMMA TypesAgain ==
  ASSUME Sound(m'), engine' = engine, engine \in Engines, ended' \in BOOLEAN, seq' \in Seq(Chars), rung' \in BOOLEAN,
         received' \in Seq(Chars), printed' = <<>>
  PROVE  TypeOK'
<1>1. <<>> \in Seq(AllChars)
  OBVIOUS
<1>2. Sound(m)'
  BY SoundSame
<1> QED
  BY <1>1, <1>2 DEF TypeOK, Sound

\* ReplayInv in the terms used here, before and after a step
LEMMA ReplayInvIs ==
  ReplayInv <=> (engine = "input" => m.ansi /\ m.cached = <<>> /\ (m.individually => Followed(m.run, m.state)))
  BY DEF ReplayInv, Followed

\* (the engine is the same, and so is the function that ReplayInv speaks of)
LEMMA ReplayInvNext ==
  ASSUME engine' = engine,
         engine = "input" => m'.ansi /\ m'.cached = <<>> /\ (m'.individually => Followed(m'.run, m'.state))
  PROVE  ReplayInv'
<1>1. Retrace(m.run)' = Retrace(m'.run)
  BY RetraceSame
<1> QED
  BY <1>1 DEF ReplayInv, Followed

\* The parts of the invariant together
LEMMA Conclude ==
  ASSUME Sound(m'), engine' = engine, engine \in Engines, ended' \in BOOLEAN, seq' \in Seq(Chars),
         rung' \in BOOLEAN, received' \in Seq(Chars), printed' = <<>>,
         RunInv', TextInv', SequenceInv', ReplayInv', TextInOrder', WholeSequencePassed'
  PROVE  IInv'
<1>1. TypeOK' /\ Sound(m)'
  BY TypesAgain, SoundSame
<1> QED
  BY <1>1 DEF IInv

\* What the history notes of a character
Noted(c) ==
  /\ NoteSequence(IF Text(m, c) THEN <<>> ELSE <<c>>)
  /\ NoteText(IF Text(m, c) THEN <<c>> ELSE <<>>)
  /\ ended' = FALSE /\ engine' = engine

\* The types of the history behind a character
LEMMA NotedTypes ==
  ASSUME IInv, NEW c \in Chars, Noted(c)
  PROVE  seq' \in Seq(Chars) /\ rung' \in BOOLEAN /\ ended' \in BOOLEAN /\ engine \in Engines
<1> DEFINE arrived == IF Text(m, c) THEN <<>> ELSE <<c>>
<1>1. arrived \in Seq(Chars) /\ NoteSequence(arrived) /\ TypeOK
  BY DEF Noted, IInv
<1> HIDE DEF arrived
<1>2. seq' \in Seq(Chars) /\ rung' \in BOOLEAN
  BY <1>1, SequenceNoted
<1> QED
  BY <1>1, <1>2 DEF Noted, TypeOK

\* Text that is skipped over joins the run, and waits to be printed.
LEMMA SkippedStep ==
  ASSUME IInv, NEW c \in Chars, Skipped(c), Noted(c)
  PROVE  IInv'
<1>1. /\ m.individually = FALSE /\ c \notin ActionableFromGround
      /\ m' \in Machine /\ SameData(m, m') /\ m'.ansi = m.ansi /\ m'.cached = m.cached
      /\ m'.individually = FALSE /\ m'.run = Append(m.run, c) /\ m'.calls = <<>>
  BY DEF Skipped
<1>2. Sound(m') /\ engine' = engine
  BY <1>1, SameSound DEF IInv, Noted
<1>3. m.state = "Ground" /\ m'.state = "Ground" /\ Text(m, c)
  BY <1>1 DEF IInv, RunInv, SameData, Text
<1>4. received = m.run /\ printed = <<>> /\ m.run \in Seq(Chars) /\ m'.run \in Seq(Chars)
  BY <1>1 DEF IInv, TextInv, Sound, Machine
<1>5. received' = m'.run /\ printed' = <<>>
  <2> DEFINE calls == <<>>
             got == received \o <<c>>
             put == printed \o TextOf(m'.calls)
  <2>1. calls \in Seq(Calls) /\ PrintsUpTo(calls, 0)
    BY DEF PrintsUpTo
  <2>2. TextOf(calls) = <<>>
    <3> HIDE DEF calls
    <3> QED
      BY <2>1, TextOfNone
  <2>3. put = <<>>
    BY <1>1, <1>4, <2>2
  <2>4. got = m'.run /\ got # <<>>
    BY <1>1, <1>4
  <2>5. received' = (IF got = put THEN <<>> ELSE got) /\ printed' = (IF got = put THEN <<>> ELSE put)
    BY <1>3 DEF Noted, NoteText
  <2> QED
    BY <2>3, <2>4, <2>5
<1>6. RunInv' /\ TextInv'
  BY <1>1, <1>3, <1>5 DEF RunInv, TextInv, Noted
<1>7. SequenceInv' /\ WholeSequencePassed'
  BY <1>1, <1>3 DEF SequenceInv, WholeSequencePassed
<1>8. ReplayInv'
  BY <1>1, <1>2, ReplayInvIs, ReplayInvNext DEF IInv
<1>9. TextInOrder'
  <2>1. IsPrefix(printed', received')
    BY <1>4, <1>5, EmptyIsPrefix
  <2> QED
    BY <1>1, <2>1 DEF TextInOrder, Noted
<1> QED
  BY <1>2, <1>4, <1>5, <1>6, <1>7, <1>8, <1>9, NotedTypes, Conclude

\* The sequence with this character is what x would pass through.
LEMMA SequenceGrows ==
  ASSUME IInv, NEW c \in Chars, NEW x, Prepared(x, c), ~Text(m, c), Noted(c)
  PROVE  (m.state # "Ground" /\ rung) \/ seq' = x.cached \o x.run
<1>0. m.run \in Seq(Chars) /\ m.cached \in Seq(Chars) /\ <<>> \in Seq(Chars) /\ seq \in Seq(Chars)
      /\ m.individually \in BOOLEAN
  BY DEF IInv, Sound, Machine, TypeOK
<1>1. seq' = (IF m.state # "Ground" THEN seq ELSE <<>>) \o <<c>>
  BY DEF Noted, NoteSequence
<1>2. x.cached = m.cached
  BY DEF Prepared
<1>3. CASE m.state # "Ground"
  <2>1. m.individually /\ (rung \/ seq = m.cached \o m.run)
    BY <1>3 DEF IInv, RunInv, SequenceInv
  <2>2. x.run = Append(m.run, c)
    BY <2>1 DEF Prepared
  <2>3. m.cached \o Append(m.run, c) = (m.cached \o m.run) \o <<c>>
    <3> DEFINE a == m.cached
               b == m.run
    <3>1. a \in Seq(Chars) /\ b \in Seq(Chars)
      BY <1>0
    <3> HIDE DEF a, b
    <3>2. a \o Append(b, c) = (a \o b) \o <<c>>
      BY <3>1, Concatenations, SMT
    <3> QED
      BY <3>2 DEF a, b
  <2> QED
    BY <1>1, <1>2, <1>3, <2>1, <2>2, <2>3
<1>4. CASE m.state = "Ground"
  <2>1. m.cached = <<>> /\ c \in ActionableFromGround
    BY <1>4 DEF IInv, Sound, Text
  <2>2. x.run = <<c>>
    <3>1. CASE m.individually = TRUE
      <4>1. m.run = <<>> /\ x.run = Append(m.run, c)
        BY <1>4, <3>1 DEF IInv, RunInv, Prepared
      <4> QED
        BY <4>1
    <3>2. CASE m.individually = FALSE
      BY <2>1, <3>2 DEF Prepared
    <3> QED
      BY <1>0, <3>1, <3>2
  <2> QED
    BY <1>1, <1>2, <1>4, <2>1, <2>2
<1> QED
  BY <1>3, <1>4

\* What x has printed already, and what the machine prints for the character
LEMMA PrintedBefore ==
  ASSUME IInv, NEW c \in Chars, NEW x, Prepared(x, c), m.individually = FALSE, c \in ActionableFromGround,
         NEW z \in Machine, Told(x, z, Others)
  PROVE  TextOf(z.calls) = m.run /\ \E k \in {0, 1} : PrintsUpTo(z.calls, k)
<1>0. x \in Machine /\ x.calls \in Seq(Calls) /\ z.calls \in Seq(Calls)
      /\ Len(x.calls) \in Nat /\ Len(z.calls) \in Nat /\ m.run \in Seq(Chars)
  BY CallLengths DEF Prepared, IInv, Sound, Machine
<1>1. /\ Len(x.calls) <= Len(z.calls)
      /\ \A i \in 1 .. Len(x.calls) : z.calls[i] = x.calls[i]
      /\ \A i \in Len(x.calls) + 1 .. Len(z.calls) : z.calls[i].kind # "print"
  BY DEF Told, Others
<1>2. CASE m.run = <<>>
  <2>1. x.calls = <<>>
    BY <1>2 DEF Prepared
  <2>2. Len(x.calls) = 0
    BY <2>1
  <2>3. PrintsUpTo(z.calls, 0)
    BY <1>0, <1>1, <2>2 DEF PrintsUpTo
  <2> QED
    BY <1>0, <1>2, <2>3, TextOfNone
<1>3. CASE m.run # <<>>
  <2> DEFINE first == [kind |-> "print", arg |-> m.run]
  <2>1. x.calls = <<first>> /\ first.kind = "print" /\ first.arg = m.run
    BY <1>3 DEF Prepared
  <2> HIDE DEF first
  <2>2. Len(x.calls) = 1 /\ x.calls[1] = first
    BY <2>1
  <2>3. z.calls[1] = first
    BY <1>1, <2>2
  <2>4. PrintsUpTo(z.calls, 1)
    BY <1>0, <1>1, <2>1, <2>2, <2>3 DEF PrintsUpTo
  <2> QED
    BY <1>0, <2>1, <2>3, <2>4, TextOfFirst
<1> QED
  BY <1>2, <1>3

\* A character that is processed leaves no text waiting.
LEMMA ProcessedPrinted ==
  ASSUME IInv, NEW c \in Chars, NEW x, Processed(x, c), Noted(c)
  PROVE  AllPrinted
<1>0. /\ m.run \in Seq(Chars) /\ m.individually \in BOOLEAN /\ printed = <<>> /\ x \in Machine
      /\ m' \in Machine /\ Told(x, m', Kinds(x, c)) /\ x.state = m.state /\ Prepared(x, c)
  BY DEF IInv, Sound, Machine, TextInv, Processed, Prepared, Outcome, SameData
<1>1. Text(x, c) <=> Text(m, c)
  BY <1>0 DEF Text
<1>2. m'.calls \in Seq(Calls) /\ Len(m'.calls) \in Nat
  BY <1>0, CallLengths
<1> DEFINE arrived == IF Text(m, c) THEN <<c>> ELSE <<>>
<1>3. NoteText(arrived)
  BY DEF Noted
<1> SUFFICES /\ received \o arrived = TextOf(m'.calls) /\ received \o arrived \in Seq(Chars)
             /\ \E k \in {0, 1} : PrintsUpTo(m'.calls, k)
  <2>1. printed \o (received \o arrived) = received \o arrived
    <3> DEFINE got == received \o arrived
    <3>1. got \in Seq(Chars)
      OBVIOUS
    <3> HIDE DEF got
    <3>2. <<>> \o got = got
      BY <3>1, ConcatEmptySeq
    <3> QED
      BY <1>0, <3>2 DEF got
  <2>2. received' = <<>> /\ printed' = <<>>
    <3> HIDE DEF arrived
    <3> QED
      BY <1>3, <2>1, TextNoted
  <2> QED
    BY <2>2 DEF AllPrinted
<1>4. CASE m.individually = FALSE
  <2>1. c \in ActionableFromGround
    BY <1>4 DEF Processed, Prepared
  <2>2. ~Text(m, c) /\ Kinds(x, c) = Others /\ received = m.run
    BY <1>1, <1>4, <2>1 DEF Text, Kinds, IInv, TextInv
  <2>3. TextOf(m'.calls) = m.run /\ \E k \in {0, 1} : PrintsUpTo(m'.calls, k)
    BY <1>0, <1>4, <2>1, <2>2, PrintedBefore
  <2>4. received \o arrived = m.run
    BY <1>0, <2>2
  <2> QED
    BY <1>0, <2>3, <2>4
<1>5. CASE m.individually = TRUE /\ ~Text(m, c)
  <2>1. received = <<>> /\ x.calls = <<>> /\ Kinds(x, c) = Others
    BY <1>1, <1>5 DEF IInv, TextInv, Processed, Prepared, Kinds
  <2>2. Len(x.calls) = 0
    BY <2>1
  <2>3. PrintsUpTo(m'.calls, 0)
    <3>0. Told(x, m', Others) /\ 1 = Len(x.calls) + 1
      BY <1>0, <2>1, <2>2
    <3>1. \A i \in 1 .. Len(m'.calls) : m'.calls[i].kind \in Others
      BY <3>0 DEF Told
    <3>2. "print" \notin Others
      BY DEF Others
    <3> QED
      BY <1>2, <3>1, <3>2 DEF PrintsUpTo
  <2>4. TextOf(m'.calls) = <<>>
    BY <1>2, <2>3, TextOfNone
  <2>5. received \o arrived = <<>> /\ <<>> \in Seq(Chars)
    BY <1>5, <2>1
  <2> QED
    BY <2>3, <2>4, <2>5
<1>6. CASE m.individually = TRUE /\ Text(m, c)
  <2> DEFINE first == [kind |-> "print", arg |-> <<c>>]
  <2>1. received = <<>> /\ x.calls = <<>> /\ m'.calls = Append(x.calls, first)
    BY <1>1, <1>6 DEF IInv, TextInv, Processed, Prepared
  <2>2. first.kind = "print" /\ first.arg = <<c>>
    OBVIOUS
  <2> HIDE DEF first
  <2>3. Len(m'.calls) = 1 /\ m'.calls[1] = first
    BY <2>1
  <2>4. PrintsUpTo(m'.calls, 1)
    BY <2>2, <2>3 DEF PrintsUpTo
  <2>5. TextOf(m'.calls) = <<c>>
    BY <1>2, <2>2, <2>3, <2>4, TextOfFirst
  <2>6. received \o arrived = <<c>> /\ <<c>> \in Seq(Chars)
    BY <1>6, <2>1
  <2> QED
    BY <2>4, <2>5, <2>6
<1> QED
  BY <1>0, <1>4, <1>5, <1>6

\* What is passed through for it is the whole sequence; what is not is still there.
LEMMA ProcessedPasses ==
  ASSUME IInv, NEW c \in Chars, NEW x, Processed(x, c), Noted(c)
  PROVE  SequenceInv' /\ WholeSequencePassed'
<1>0. /\ x \in Machine /\ m' \in Machine /\ Told(x, m', Kinds(x, c)) /\ x.state = m.state
      /\ Prepared(x, c)
  BY DEF Processed, Prepared, Outcome, SameData, Sound
<1>1. /\ Len(x.calls) \in Nat /\ Len(m'.calls) \in Nat /\ DOMAIN m'.calls = 1 .. Len(m'.calls)
  BY <1>0, CallLengths
<1>2. Text(x, c) <=> Text(m, c)
  BY <1>0 DEF Text
<1>3. \A i \in 1 .. Len(x.calls) : x.calls[i].kind = "print"
  <2> DEFINE first == [kind |-> "print", arg |-> m.run]
  <2>1. first.kind = "print"
    OBVIOUS
  <2>2. x.calls = <<>> \/ x.calls = <<first>>
    BY <1>0 DEF Prepared
  <2> HIDE DEF first
  <2> QED
    BY <2>1, <2>2
<1>4. ASSUME NEW i \in DOMAIN m'.calls, m'.calls[i].kind = "pass"
      PROVE  i \in Len(x.calls) + 1 .. Len(m'.calls) /\ m'.calls[i].arg = x.cached \o x.run /\ ~Text(m, c)
  <2>1. ~ (i \in 1 .. Len(x.calls))
    <3>1. SUFFICES ASSUME i \in 1 .. Len(x.calls) PROVE FALSE
      OBVIOUS
    <3>2. m'.calls[i].kind = "print"
      BY <1>0, <1>3, <3>1 DEF Told
    <3> QED
      BY <1>4, <3>2
  <2>2. i \in Len(x.calls) + 1 .. Len(m'.calls)
    BY <1>1, <2>1
  <2>3. "pass" \in Kinds(x, c) /\ m'.calls[i].arg = x.cached \o x.run
    BY <1>0, <1>4, <2>2 DEF Told
  <2>4. ~Text(x, c)
    BY <2>3 DEF Kinds
  <2> QED
    BY <1>2, <2>2, <2>3, <2>4
<1>5. ~Text(m, c) => (m.state # "Ground" /\ rung) \/ seq' = x.cached \o x.run
  BY <1>0, SequenceGrows
<1>6. m.state # "Ground" /\ rung => rung'
  BY DEF Noted, NoteSequence
<1>7. WholeSequencePassed'
  BY <1>4, <1>5, <1>6 DEF WholeSequencePassed
<1>8. SequenceInv'
  <2> SUFFICES ASSUME m'.state # "Ground" PROVE rung' \/ seq' = m'.cached \o m'.run
    BY DEF SequenceInv
  <2>1. ~Text(m, c)
    BY <1>2 DEF Processed
  <2>2. m'.run = x.run /\ (m'.cached = x.cached \/ Passed(x, m'))
    BY DEF Processed, Outcome
  <2>3. CASE m'.cached = x.cached
    BY <1>5, <1>6, <2>1, <2>2, <2>3
  <2>4. CASE Passed(x, m')
    <3>1. \E i \in DOMAIN m'.calls : m'.calls[i].kind = "pass"
      BY <1>1, <2>4 DEF Passed
    <3> QED
      BY <3>1 DEF Noted, NoteSequence
  <2> QED
    BY <2>2, <2>3, <2>4
<1> QED
  BY <1>7, <1>8

\* The run of an input engine still leads to the state it is in.
LEMMA ProcessedReplay ==
  ASSUME IInv, NEW c \in Chars, NEW x, Processed(x, c), Noted(c)
  PROVE  ReplayInv'
<1> SUFFICES ASSUME engine = "input"
             PROVE  m'.ansi /\ m'.cached = <<>> /\ (m'.individually => Followed(m'.run, m'.state))
  BY ReplayInvNext DEF Noted
<1>1. m.ansi /\ m.cached = <<>> /\ (m.individually => Followed(m.run, m.state))
  BY ReplayInvIs DEF IInv
<1>2. /\ x.ansi = m.ansi /\ x.cached = <<>> /\ x.state = m.state /\ Prepared(x, c) /\ Outcome(x, m', Kinds(x, c))
      /\ m.run \in Seq(Chars) /\ m.individually \in BOOLEAN /\ m.ansi \in BOOLEAN
  BY <1>1 DEF Processed, Prepared, SameData, IInv, Sound, Machine
<1>3. m'.ansi /\ m'.cached = <<>>
  BY <1>1, <1>2 DEF Outcome
<1>4. ASSUME m'.individually PROVE Followed(m'.run, m'.state)
  <2>1. m'.state # "Ground" /\ m'.run = x.run
    BY <1>2, <1>4 DEF Outcome
  <2>2. m.state \in States \ {"Vt52Param"} /\ m'.state \in States \ {"Ground"}
    BY <1>1, <1>2, <2>1 DEF IInv, Outcome, Sound, Machine
  <2>3. Alike(m'.state) = CharTo(TRUE, m.state, c)
    <3>1. x.ansi = TRUE
      BY <1>1, <1>2
    <3> QED
      BY <1>2, <2>2, <3>1 DEF Processed
  <2>4. CASE m.individually = TRUE
    <3>1. x.run = Append(m.run, c)
      BY <1>2, <2>4 DEF Prepared
    <3> QED
      BY <1>1, <1>2, <2>1, <2>2, <2>3, <2>4, <3>1, FollowedFurther
  <2>5. CASE m.individually = FALSE
    <3> DEFINE none == <<>>
    <3>1. m.state = "Ground" /\ c \in ActionableFromGround
      BY <2>5 DEF IInv, RunInv, Processed, Prepared
    <3>2. x.run = <<c>>
      BY <1>2, <2>5, <3>1 DEF Prepared
    <3>3. none \in Seq(Chars) /\ Followed(none, m.state) /\ x.run = Append(none, c)
      BY <3>1, <3>2, FollowedNothing
    <3> HIDE DEF none
    <3> QED
      BY <2>1, <2>2, <2>3, <3>3, FollowedFurther
  <2> QED
    BY <1>2, <2>4, <2>5
<1> QED
  BY <1>3, <1>4

\* So a character that is processed keeps the invariant.
LEMMA ProcessedStep ==
  ASSUME IInv, NEW c \in Chars, NEW x, Processed(x, c), Noted(c)
  PROVE  IInv'
<1>1. Sound(m') /\ Outcome(x, m', Kinds(x, c)) /\ engine' = engine /\ ended' = FALSE
  BY DEF Processed, Outcome, Noted
<1>2. AllPrinted
  BY ProcessedPrinted
<1>3. received' = <<>> /\ printed' = <<>> /\ received' \in Seq(Chars)
  BY <1>2 DEF AllPrinted
<1>4. TextInOrder'
  BY <1>1, <1>2, AllPrintedInOrder
<1>5. RunInv'
  BY <1>1 DEF RunInv, Outcome
<1>6. TextInv'
  <2>1. (IF m'.individually THEN <<>> ELSE m'.run) = <<>>
    BY <1>1 DEF Outcome
  <2> QED
    BY <1>3, <2>1 DEF TextInv
<1>7. SequenceInv' /\ WholeSequencePassed' /\ ReplayInv'
  BY ProcessedPasses, ProcessedReplay
<1> QED
  BY <1>1, <1>3, <1>4, <1>5, <1>6, <1>7, NotedTypes, Conclude

\* Any character does.
LEMMA CharacterStep ==
  ASSUME IInv, NEW c \in Chars, Character(c)
  PROVE  IInv'
<1>1. PICK ok \in BOOLEAN : m' = ProcessNext(c, ok)
  BY DEF Character
<1>2. Noted(c)
  BY DEF Character, Noted, Text
<1>3. Skipped(c) \/ \E x : Processed(x, c)
  BY <1>1, NextOutcome DEF IInv
<1> QED
  BY <1>2, <1>3, SkippedStep, ProcessedStep
-----------------------------------------------------------------------------
(***************************************************************************)
(* The end of a string                                                     *)
(***************************************************************************)

\* FlushAtEndOfString behind the run that was processed again
Ending(replayed, last, ok) ==
  LET s == replayed.state IN
    CASE s = "Ground" -> Execute(replayed, last, ok)
      [] s \in {"Escape", "EscapeIntermediate"} -> Dispatch(replayed, "esc", last, ok)
      [] s \in {"CsiEntry", "CsiIntermediate", "CsiIgnore", "CsiParam"} ->
           Dispatch(replayed, "csi", last, ok)
      [] s \in {"OscParam", "OscString", "OscTermination"} -> Dispatch(replayed, "osc", last, ok)
      [] s \in {"Ss3Entry", "Ss3Param"} -> Dispatch(replayed, "ss3", last, ok)
      [] OTHER -> replayed

\* The last character is executed or dispatched as a call like any other.
LEMMA EndingActs ==
  ASSUME NEW x \in Machine, NEW last \in AllChars, NEW ok, NEW y, y = Ending(x, last, ok)
  PROVE  Acted(x, y, Others) /\ SameData(x, y)
<1>1. \A kind \in {"esc", "csi", "osc", "ss3"} : kind \in Others \ {"pass"}
  BY DEF Others, CallKinds
<1>2. y = x \/ y = Execute(x, last, ok) \/ \E kind \in {"esc", "csi", "osc", "ss3"} : y = Dispatch(x, kind, last, ok)
  BY DEF Ending
<1>3. CASE y = x
  BY <1>3, ActedNothing DEF SameData, Kept
<1>4. CASE y = Execute(x, last, ok)
  BY <1>4, ExecuteActs
<1>5. CASE \E kind \in {"esc", "csi", "osc", "ss3"} : y = Dispatch(x, kind, last, ok)
  BY <1>1, <1>5, DispatchActs
<1> QED
  BY <1>2, <1>3, <1>4, <1>5

\* The machines that FlushAtEndOfString goes through
Replays(r, x, ok) ==
  /\ r[0] = Enter(x, "Ground")
  /\ \A n \in 1 .. Len(x.run) : r[n] = ProcessCharacter(r[n - 1], x.run[n], ok)

\* The recursive function of FlushAtEndOfString, unfolded once at every character
LEMMA ReplayWalk ==
  ASSUME NEW x, Sound(x), NEW last, NEW ok \in BOOLEAN
  PROVE  \E r : /\ Replays(r, x, ok)
                /\ FlushAtEndOfString(x, last, ok)
                     = Enter(Ending(r[IF x.run = <<>> THEN 0 ELSE Len(x.run) - 1], last, ok), "Ground")
<1> DEFINE N == Len(x.run)
           S == {y \in Machine : Sound(y)}
           base == Enter(x, "Ground")
           K(y, n) == ProcessCharacter(y, x.run[n], ok)
           step == [n \in Nat |-> [y \in S |-> IF n \in 1 .. N THEN K(y, n) ELSE y]]
           G(f) == f = [n \in 0 .. N |-> IF n = 0 THEN base ELSE K(f[n - 1], n)]
<1>0. N \in Nat /\ base \in S /\ \A n \in 1 .. N : \A y \in S : K(y, n) \in S
  <2>0. x \in Machine /\ Bounded(x) /\ x.run \in Seq(Chars) /\ "Ground" \in States /\ Expected(x, "Ground")
    BY SoundBasics, StatesAre DEF Machine, Expected
  <2>1. Sound(base)
    BY <2>0, EnterSound
  <2>2. ASSUME NEW n \in 1 .. N, NEW y \in S PROVE K(y, n) \in S
    <3>1. x.run[n] \in AllChars
      BY <2>0, ConstantsAssumption
    <3>2. Sound(K(y, n))
      BY <3>1, CharacterEffect
    <3> QED
      BY <3>2, SoundBasics
  <2>3. base \in S
    BY <2>1, SoundBasics
  <2>4. N \in Nat
    BY <2>0
  <2> QED
    BY <2>2, <2>3, <2>4
<1> HIDE DEF N, S, K, base
<1>1. step \in [Nat -> [S -> S]] /\ \A n \in 1 .. N : \A y \in S : step[n][y] = K(y, n)
  BY <1>0
<1> HIDE DEF step
<1>2. PICK f : Computes(f, S, base, step, N)
  BY <1>0, <1>1, RecursionUpTo
<1>3. ASSUME NEW n \in 1 .. N PROVE f[n] = K(f[n - 1], n)
  <2>1. n - 1 \in 0 .. N
    BY <1>0
  <2> QED
    BY <1>1, <1>2, <2>1 DEF Computes
<1>4. G(f)
  BY <1>0, <1>2, <1>3 DEF Computes
<1> DEFINE g == CHOOSE h : G(h)
<1>5. G(g)
  BY <1>4
<1>6. FlushAtEndOfString(x, last, ok)
        = Enter(Ending(g[IF x.run = <<>> THEN 0 ELSE Len(x.run) - 1], last, ok), "Ground")
  BY DEF FlushAtEndOfString, Ending, N, K, base
<1> HIDE DEF g
<1>7. g[0] = base /\ \A n \in 1 .. N : g[n] = K(g[n - 1], n)
  BY <1>0, <1>5
<1>8. Replays(g, x, ok)
  BY <1>7 DEF Replays, N, K, base
<1> QED
  BY <1>6, <1>8

\* Processing the run again comes to where it went, and prints nothing on the way.
Again(x, y, s) == Sound(y) /\ Acted(x, y, Others) /\ y.cached = <<>> /\ Alike(y.state) = s

\* One more character of the run: it is no text, for text would end at the ground.
LEMMA AgainFurther ==
  ASSUME NEW x \in Machine, x.ansi = TRUE, x.cached = <<>>, NEW w, NEW s \in Traced, Again(x, w, s),
         NEW c \in AllChars, NEW ok \in BOOLEAN, NEW y, y = ProcessCharacter(w, c, ok),
         Follow(s, c) # "Ground"
  PROVE  Again(x, y, Follow(s, c))
<1>1. Sound(w) /\ Acted(x, w, Others) /\ w.cached = <<>> /\ Alike(w.state) = s
  BY DEF Again
<1>2. w.ansi = TRUE /\ w.state \in States \ {"Vt52Param"}
  <2>1. w.ansi = TRUE
    BY <1>1 DEF Acted, Kept
  <2> QED
    BY <1>1, <2>1, SoundBasics DEF Sound
<1>3. /\ Effect(w, y, Kinds(w, c)) /\ Sound(y)
      /\ Alike(y.state) = CharTo(w.ansi, w.state, c)
      /\ Text(w, c) => y.state = "Ground"
  BY <1>1, <1>2, CharacterEffect
<1>4. Alike(y.state) = Follow(s, c)
  <2>1. CharTo(TRUE, w.state, c) = CharTo(TRUE, s, c)
    BY <1>1, <1>2, AlikeTo
  <2>2. Follow(s, c) = CharTo(TRUE, s, c)
    BY FollowIs
  <2> QED
    BY <1>2, <1>3, <2>1, <2>2
<1>5. Kinds(w, c) = Others
  <2>1. y.state # "Ground"
    BY <1>4 DEF Alike
  <2> QED
    BY <1>3, <2>1 DEF Kinds
<1>6. Effect(x, y, Others)
  BY <1>1, <1>3, <1>5, EffectAfter
<1>7. y.cached = <<>> /\ Acted(x, y, Others)
  BY <1>6 DEF Effect, Acted, Cleared
<1> QED
  BY <1>3, <1>4, <1>7 DEF Again

\* FlushAtEndOfString: by induction along the run, the effect of one character
LEMMA FlushEffect ==
  ASSUME NEW x, Sound(x), x.ansi = TRUE, x.cached = <<>>, NEW s, Followed(x.run, s),
         NEW last \in AllChars, NEW ok \in BOOLEAN, NEW y, y = FlushAtEndOfString(x, last, ok)
  PROVE  Effect(x, y, Others) /\ Sound(y) /\ y.state = "Ground"
<1> DEFINE N == Len(x.run)
           after == Retrace(x.run)
           k == IF x.run = <<>> THEN 0 ELSE Len(x.run) - 1
<1>0. /\ x \in Machine /\ Bounded(x) /\ x.run \in Seq(Chars) /\ N \in Nat /\ k \in 0 .. N
      /\ "Ground" \in States /\ Expected(x, "Ground")
  <2>1. x \in Machine /\ Bounded(x) /\ x.run \in Seq(Chars) /\ "Ground" \in States
    BY SoundBasics, StatesAre DEF Machine
  <2>2. Expected(x, "Ground")
    BY DEF Expected
  <2>3. N \in Nat /\ (x.run # <<>> => N >= 1)
    BY <2>1
  <2> QED
    BY <2>1, <2>2, <2>3
<1>1. PICK r : Replays(r, x, ok) /\ y = Enter(Ending(r[k], last, ok), "Ground")
  BY ReplayWalk
<1>2. /\ after[0] = "Ground"
      /\ \A n \in 0 .. N : after[n] \in Traced
      /\ \A n \in 1 .. N : after[n] = Follow(after[n - 1], x.run[n])
  BY <1>0, RetraceWalk
<1>3. \A n \in 1 .. N : after[n] # "Ground"
  BY DEF Followed
<1>4. \A n \in 1 .. N : x.run[n] \in AllChars
  BY <1>0, ConstantsAssumption
<1>5. r[0] = Enter(x, "Ground") /\ \A n \in 1 .. N : r[n] = ProcessCharacter(r[n - 1], x.run[n], ok)
  BY <1>1 DEF Replays
<1> HIDE DEF N, after, k
<1> DEFINE P == {n \in 0 .. N : Again(x, r[n], after[n])}
<1>6. 0 \in P
  <2> DEFINE z == Enter(x, "Ground")
  <2>1. z \in Machine /\ Kept(x, z) /\ z.calls = x.calls /\ z.cached = <<>>
    BY <1>0, EnterFields
  <2>2. Sound(z) /\ z.state = "Ground"
    BY <1>0, EnterSound
  <2> HIDE DEF z
  <2>3. Acted(x, z, Others)
    BY <1>0, <2>1, ActedNothing
  <2>4. Again(x, z, "Ground")
    BY <2>1, <2>2, <2>3 DEF Again, Alike
  <2> QED
    BY <1>0, <1>2, <1>5, <2>4 DEF z
<1>7. ASSUME NEW n \in 1 .. N, n - 1 \in P PROVE n \in P
  <2>1. n - 1 \in 0 .. N /\ n \in 0 .. N
    BY <1>0
  <2>2. Again(x, r[n - 1], after[n - 1]) /\ after[n - 1] \in Traced
    BY <1>2, <1>7, <2>1
  <2>3. r[n] = ProcessCharacter(r[n - 1], x.run[n], ok) /\ x.run[n] \in AllChars
    BY <1>4, <1>5
  <2>4. after[n] = Follow(after[n - 1], x.run[n]) /\ after[n] # "Ground"
    BY <1>2, <1>3
  <2>5. Again(x, r[n], after[n])
    <3> DEFINE w == r[n - 1]
               t == after[n - 1]
               c == x.run[n]
               z == r[n]
    <3>1. /\ Again(x, w, t) /\ t \in Traced /\ z = ProcessCharacter(w, c, ok) /\ c \in AllChars
          /\ after[n] = Follow(t, c) /\ Follow(t, c) # "Ground"
      BY <2>2, <2>3, <2>4
    <3> HIDE DEF w, t, c, z
    <3>2. Again(x, z, Follow(t, c))
      BY <1>0, <3>1, AgainFurther
    <3> QED
      BY <3>1, <3>2 DEF z
  <2> QED
    BY <2>1, <2>5
<1> HIDE DEF P
<1>8. \A n \in 0 .. N : n \in P
  BY <1>0, <1>6, <1>7, SetInductionUpTo
<1> DEFINE w == r[k]
           d == Ending(w, last, ok)
<1>9. Sound(w) /\ Acted(x, w, Others) /\ w.cached = x.cached
  BY <1>0, <1>8 DEF P, Again
<1> HIDE DEF w
<1>10. Acted(w, d, Others) /\ SameData(w, d)
  BY <1>9, SoundBasics, EndingActs
<1>11. y = Enter(d, "Ground")
  BY <1>1 DEF w
<1> HIDE DEF d
<1>12. Acted(x, d, Others) /\ Bounded(d) /\ d \in Machine /\ Expected(d, "Ground")
  <2>1. Acted(x, d, Others) /\ Bounded(d)
    BY <1>0, <1>9, <1>10, ActedTwice, SameDataBounded, SoundBasics
  <2> QED
    BY <2>1 DEF Acted, Expected
<1> QED
  BY <1>0, <1>11, <1>12, EnterEffect, EnterSound

\* ProcessString returns without a run.
LEMMA DropRun ==
  ASSUME NEW x \in Machine, NEW y, y = [x EXCEPT !.run = <<>>]
  PROVE  /\ y \in Machine /\ SameData(x, y) /\ y.ansi = x.ansi /\ y.cached = x.cached
         /\ y.individually = x.individually /\ y.calls = x.calls /\ y.run = <<>>
<1>1. <<>> \in Seq(Chars)
  OBVIOUS
<1>2. y \in Machine
  BY <1>1 DEF Machine
<1>3. SameData(x, y)
  BY DEF Machine, SameData
<1>4. y.ansi = x.ansi /\ y.cached = x.cached /\ y.individually = x.individually /\ y.calls = x.calls
  BY DEF Machine
<1>5. y.run = <<>>
  BY DEF Machine
<1> QED
  BY <1>2, <1>3, <1>4, <1>5

EndNoted == NoteSequence(<<>>) /\ NoteText(<<>>) /\ ended' = TRUE /\ engine' = engine

\* The types of the history behind a string, and the sequence that it leaves
LEMMA EndTypes ==
  ASSUME IInv, EndNoted
  PROVE  /\ seq' \in Seq(Chars) /\ rung' \in BOOLEAN /\ ended' \in BOOLEAN /\ engine \in Engines
         /\ seq' = IF m.state # "Ground" THEN seq ELSE <<>>
<1> DEFINE arrived == <<>>
<1>1. arrived \in Seq(Chars) /\ NoteSequence(arrived) /\ TypeOK
  BY DEF EndNoted, IInv
<1> HIDE DEF arrived
<1>2. seq' \in Seq(Chars) /\ rung' \in BOOLEAN
  BY <1>1, SequenceNoted
<1>3. seq \in Seq(Chars) /\ <<>> \in Seq(Chars)
  BY <1>1 DEF TypeOK
<1>4. seq' = IF m.state # "Ground" THEN seq ELSE <<>>
  BY <1>3 DEF EndNoted, NoteSequence
<1> QED
  BY <1>1, <1>2, <1>4 DEF EndNoted, TypeOK

\* What is left to show for the end of a string
LEMMA EndConcluded ==
  ASSUME IInv, EndNoted, Sound(m'), m'.run = <<>>, m'.individually = m.individually,
         m'.state # "Ground" => m.state # "Ground",
         TextOf(m'.calls) = received, \E k \in {0, 1} : PrintsUpTo(m'.calls, k),
         SequenceInv', WholeSequencePassed', ReplayInv'
  PROVE  IInv'
<1>0. received \in Seq(Chars) /\ printed = <<>>
  BY DEF IInv, TypeOK, TextInv
<1>1. AllPrinted
  <2> DEFINE arrived == <<>>
  <2>1. received \o arrived = received /\ printed \o received = received
    BY <1>0, ConcatEmptySeq
  <2>2. NoteText(arrived)
    BY DEF EndNoted
  <2> HIDE DEF arrived
  <2>3. received' = <<>> /\ printed' = <<>>
    BY <2>1, <2>2, TextNoted
  <2> QED
    BY <2>3 DEF AllPrinted
<1>2. received' = <<>> /\ printed' = <<>> /\ received' \in Seq(Chars) /\ engine' = engine
  BY <1>1 DEF AllPrinted, EndNoted
<1>3. TextInOrder'
  BY <1>1, AllPrintedInOrder
<1>4. RunInv' /\ TextInv'
  BY <1>2 DEF RunInv, TextInv, IInv
<1> QED
  BY <1>2, <1>3, <1>4, EndTypes, Conclude

\* Nothing was called.
LEMMA SilentText ==
  ASSUME NEW calls, calls = <<>>
  PROVE  TextOf(calls) = <<>> /\ PrintsUpTo(calls, 0)
<1>1. calls \in Seq(Calls) /\ PrintsUpTo(calls, 0)
  BY DEF PrintsUpTo
<1> QED
  BY <1>1, TextOfNone

\* The string ended in text: what was skipped over is printed.
LEMMA EndOfText ==
  ASSUME IInv, EndNoted, m.individually = FALSE,
         m' = [PrintString([m EXCEPT !.calls = <<>>], m.run) EXCEPT !.run = <<>>]
  PROVE  IInv' /\ m'.state = "Ground"
<1> DEFINE x == [m EXCEPT !.calls = <<>>]
           y == PrintString(x, m.run)
<1>0. m \in Machine /\ m.run \in Seq(Chars) /\ m.run \in Seq(AllChars)
  BY ConstantsAssumption DEF IInv, Sound, Machine
<1>1. x \in Machine /\ SameData(m, x) /\ Kept(m, x) /\ x.cached = m.cached /\ x.calls = <<>>
  BY <1>0, NoCalls
<1> HIDE DEF x
<1>2. /\ y \in Machine /\ SameData(x, y) /\ Kept(x, y) /\ y.cached = x.cached
      /\ y.calls = IF m.run # <<>> THEN <<[kind |-> "print", arg |-> m.run]>> ELSE <<>>
  BY <1>0, <1>1, PrintStringFields
<1>3. m' = [y EXCEPT !.run = <<>>]
  BY DEF x
<1> HIDE DEF y
<1>4. /\ m' \in Machine /\ SameData(y, m') /\ m'.ansi = y.ansi /\ m'.cached = y.cached
      /\ m'.individually = y.individually /\ m'.calls = y.calls /\ m'.run = <<>>
  BY <1>2, <1>3, DropRun
<1>5. /\ SameData(m, m') /\ m'.ansi = m.ansi /\ m'.cached = m.cached
      /\ m'.individually = m.individually
  BY <1>1, <1>2, <1>4 DEF SameData, Kept
<1>6. Sound(m')
  BY <1>4, <1>5, SameSound DEF IInv
<1>7. m.state = "Ground" /\ m'.state = "Ground" /\ received = m.run
  BY <1>5 DEF IInv, RunInv, TextInv, SameData
<1>8. /\ TextOf(m'.calls) = received
      /\ \E k \in {0, 1} : PrintsUpTo(m'.calls, k)
      /\ \A i \in DOMAIN m'.calls : m'.calls[i].kind # "pass"
  <2>1. CASE m.run = <<>>
    BY <1>2, <1>4, <1>7, <2>1, SilentText
  <2>2. CASE m.run # <<>>
    <3> DEFINE first == [kind |-> "print", arg |-> m.run]
    <3>1. m'.calls = <<first>> /\ first.kind = "print" /\ first.arg = m.run
      BY <1>2, <1>4, <2>2
    <3> HIDE DEF first
    <3>2. m'.calls \in Seq(Calls) /\ Len(m'.calls) = 1 /\ m'.calls[1] = first /\ DOMAIN m'.calls = 1 .. 1
      <4>1. m'.calls \in Seq(Calls) /\ DOMAIN m'.calls = 1 .. Len(m'.calls)
        BY <1>4, CallLengths
      <4>2. \A calls : calls = <<first>> => Len(calls) = 1 /\ calls[1] = first
        OBVIOUS
      <4> QED
        BY <3>1, <4>1, <4>2
    <3>3. PrintsUpTo(m'.calls, 1)
      BY <3>1, <3>2 DEF PrintsUpTo
    <3>4. TextOf(m'.calls) = m.run
      BY <3>1, <3>2, <3>3, TextOfFirst
    <3> QED
      BY <1>7, <3>1, <3>2, <3>3, <3>4
  <2> QED
    BY <2>1, <2>2
<1>9. SequenceInv' /\ WholeSequencePassed'
  BY <1>7, <1>8 DEF SequenceInv, WholeSequencePassed
<1>10. ReplayInv'
  BY <1>5, ReplayInvIs, ReplayInvNext DEF IInv, EndNoted
<1> QED
  BY <1>4, <1>5, <1>6, <1>7, <1>8, <1>9, <1>10, EndConcluded

\* The string ended inside a sequence: an output engine keeps it for the next string.
LEMMA EndOfOutput ==
  ASSUME IInv, EndNoted, m.individually = TRUE, engine # "input",
         NEW x, x = [m EXCEPT !.calls = <<>>],
         m' = [[x EXCEPT !.cached = @ \o x.run] EXCEPT !.run = <<>>]
  PROVE  IInv' /\ m'.state = m.state /\ SameBook(m, m')
<1> DEFINE cached == m.cached \o m.run
           y == [x EXCEPT !.cached = cached]
<1>0. m \in Machine /\ m.run \in Seq(Chars) /\ m.cached \in Seq(Chars) /\ cached \in Seq(Chars)
  BY DEF IInv, Sound, Machine
<1>1. x \in Machine /\ SameData(m, x) /\ Kept(m, x) /\ x.cached = m.cached /\ x.calls = <<>>
  BY <1>0, NoCalls
<1>2. m' = [y EXCEPT !.run = <<>>]
  BY <1>1 DEF Kept, Machine
<1> HIDE DEF cached
<1>3. y \in Machine
  BY <1>0, <1>1 DEF Machine
<1>4. SameData(x, y)
  BY <1>1 DEF Machine, SameData
<1>5. y.ansi = x.ansi /\ y.individually = x.individually /\ y.calls = x.calls /\ y.cached = cached
  BY <1>1 DEF Machine
<1> HIDE DEF y
<1>6. /\ m' \in Machine /\ SameData(y, m') /\ m'.ansi = y.ansi /\ m'.cached = y.cached
      /\ m'.individually = y.individually /\ m'.calls = y.calls /\ m'.run = <<>>
  BY <1>2, <1>3, DropRun
<1>7. /\ SameData(m, m') /\ m'.ansi = m.ansi /\ m'.cached = cached
      /\ m'.individually = m.individually /\ m'.calls = <<>> /\ m'.state = m.state
  BY <1>1, <1>4, <1>5, <1>6 DEF SameData, Kept
<1>8. m'.state = "Ground" => m'.cached = <<>>
  <2>1. ASSUME m.state = "Ground" PROVE cached = <<>>
    <3>1. m.run = <<>> /\ m.cached = <<>>
      BY <2>1 DEF IInv, RunInv, Sound
    <3> QED
      BY <3>1 DEF cached
  <2> QED
    BY <1>7, <2>1
<1>9. Sound(m')
  BY <1>6, <1>7, <1>8 DEF IInv, Sound, SameData
<1>10. TextOf(m'.calls) = received /\ \E k \in {0, 1} : PrintsUpTo(m'.calls, k)
  <2>1. received = <<>>
    BY DEF IInv, TextInv
  <2> QED
    BY <1>7, <2>1, SilentText
<1>11. WholeSequencePassed'
  BY <1>7 DEF WholeSequencePassed
<1>12. SequenceInv'
  <2> SUFFICES ASSUME m'.state # "Ground" PROVE rung' \/ seq' = m'.cached \o m'.run
    BY DEF SequenceInv
  <2>1. (rung \/ seq = cached) /\ seq' = seq /\ (rung => rung')
    BY <1>7, EndTypes DEF IInv, SequenceInv, cached, EndNoted, NoteSequence
  <2>2. cached \o <<>> = cached
    BY <1>0, ConcatEmptySeq
  <2> QED
    BY <1>6, <1>7, <2>1, <2>2
<1>13. ReplayInv'
  BY ReplayInvNext DEF EndNoted
<1>14. SameBook(m, m')
  BY <1>0 DEF Machine, SameBook
<1> QED
  BY <1>6, <1>7, <1>9, <1>10, <1>11, <1>12, <1>13, <1>14, EndConcluded

\* ... and an input engine dispatches what it has of it.
LEMMA EndOfInput ==
  ASSUME IInv, EndNoted, m.individually = TRUE, engine = "input",
         NEW x, x = [m EXCEPT !.calls = <<>>], NEW last \in AllChars, NEW ok \in BOOLEAN,
         m' = [FlushAtEndOfString(x, last, ok) EXCEPT !.run = <<>>]
  PROVE  IInv' /\ m'.state = "Ground"
<1> DEFINE y == FlushAtEndOfString(x, last, ok)
<1>0. m \in Machine /\ m.run \in Seq(Chars) /\ Sound(m) /\ m.ansi \in BOOLEAN
  BY DEF IInv, Sound, Machine
<1>1. x \in Machine /\ SameData(m, x) /\ Kept(m, x) /\ x.cached = m.cached /\ x.calls = <<>>
  BY <1>0, NoCalls
<1>2. m.ansi /\ m.cached = <<>> /\ Followed(m.run, m.state)
  BY ReplayInvIs DEF IInv
<1>3. x.run = m.run /\ x.ansi = TRUE /\ x.cached = <<>> /\ x.individually = TRUE
  BY <1>0, <1>1, <1>2 DEF Kept
<1>4. Sound(x)
  BY <1>0, <1>1, SameSound DEF Kept
<1>5. Effect(x, y, Others) /\ Sound(y) /\ y.state = "Ground"
  BY <1>2, <1>3, <1>4, FlushEffect
<1> HIDE DEF y
<1>6. y \in Machine /\ Kept(x, y) /\ Told(x, y, Others)
  BY <1>5 DEF Effect
<1>7. /\ m' \in Machine /\ SameData(y, m') /\ m'.ansi = y.ansi /\ m'.cached = y.cached
      /\ m'.individually = y.individually /\ m'.calls = y.calls /\ m'.run = <<>>
  BY <1>6, DropRun DEF y
<1>8. Sound(m') /\ m'.state = "Ground" /\ m'.cached = <<>>
  <2>1. Sound(m') /\ m'.state = "Ground"
    BY <1>5, <1>7, SameSound DEF SameData
  <2> QED
    BY <2>1 DEF Sound
<1>9. m'.individually = TRUE /\ m'.ansi = TRUE
  BY <1>3, <1>6, <1>7 DEF Kept
<1>10. /\ Len(m'.calls) \in Nat /\ DOMAIN m'.calls = 1 .. Len(m'.calls) /\ m'.calls \in Seq(Calls)
  BY <1>7, CallLengths
<1>11. \A i \in 1 .. Len(m'.calls) :
         m'.calls[i].kind \in Others /\ (m'.calls[i].kind = "pass" => m'.calls[i].arg = <<>> \o m.run)
  <2>1. Len(x.calls) + 1 = 1
    BY <1>1
  <2>2. \A i \in Len(x.calls) + 1 .. Len(y.calls) :
          y.calls[i].kind \in Others /\ (y.calls[i].kind = "pass" => y.calls[i].arg = x.cached \o x.run)
    BY <1>6 DEF Told
  <2>3. m'.calls = y.calls /\ x.cached = <<>> /\ x.run = m.run
    BY <1>3, <1>7
  <2> QED
    BY <2>1, <2>2, <2>3, Zenon
<1>12. TextOf(m'.calls) = received /\ \E k \in {0, 1} : PrintsUpTo(m'.calls, k)
  <2>1. received = <<>> /\ "print" \notin Others
    BY DEF IInv, TextInv, Others
  <2>2. PrintsUpTo(m'.calls, 0)
    BY <1>10, <1>11, <2>1 DEF PrintsUpTo
  <2> QED
    BY <1>10, <2>1, <2>2, TextOfNone
<1>13. SequenceInv'
  BY <1>8 DEF SequenceInv
<1>14. WholeSequencePassed'
  <2>1. <<>> \o m.run = m.run
    BY <1>0, ConcatEmptySeq
  <2>2. rung' \/ seq' = m.run
    <3>1. CASE m.state # "Ground"
      BY <1>2, <2>1, <3>1, EndTypes DEF IInv, SequenceInv, EndNoted, NoteSequence
    <3>2. CASE m.state = "Ground"
      BY <3>2, EndTypes DEF IInv, RunInv
    <3> QED
      BY <3>1, <3>2
  <2> QED
    BY <1>10, <1>11, <2>1, <2>2 DEF WholeSequencePassed
<1>15. ReplayInv'
  BY <1>7, <1>8, <1>9, FollowedNothing, ReplayInvNext DEF EndNoted
<1> QED
  BY <1>7, <1>8, <1>9, <1>12, <1>13, <1>14, <1>15, EndConcluded

\* The end of a string keeps the invariant, and what was read of a sequence or nothing.
LEMMA EndOfStringStep ==
  ASSUME IInv, EndOfString
  PROVE  IInv' /\ (m'.state = "Ground" \/ (m'.state = m.state /\ SameBook(m, m')))
<1> DEFINE lasts == IF m.run = <<>> THEN Chars ELSE {Last(m.run)}
           x == [m EXCEPT !.calls = <<>>]
<1>0. m \in Machine /\ m.run \in Seq(Chars) /\ m.individually \in BOOLEAN
  BY DEF IInv, Sound, Machine
<1>1. EndNoted
  BY DEF EndOfString, EndNoted
<1>2. PICK last \in lasts, ok \in BOOLEAN : m' = ProcessRest(last, ok)
  BY DEF EndOfString
<1>3. last \in AllChars
  <2>1. CASE m.run = <<>>
    BY <2>1, ConstantsAssumption
  <2>2. CASE m.run # <<>>
    <3>1. last = m.run[Len(m.run)] /\ Len(m.run) \in 1 .. Len(m.run)
      BY <1>0, <2>2 DEF Last
    <3> QED
      BY <1>0, <3>1, ConstantsAssumption
  <2> QED
    BY <2>1, <2>2
<1>4. x.individually = m.individually /\ x.run = m.run
  BY <1>0 DEF Machine
<1>5. CASE m.individually = FALSE
  <2>1. m' = [PrintString(x, m.run) EXCEPT !.run = <<>>]
    BY <1>2, <1>4, <1>5 DEF ProcessRest
  <2> QED
    BY <1>1, <1>5, <2>1, EndOfText
<1>6. CASE m.individually = TRUE /\ engine # "input"
  <2>1. m' = [[x EXCEPT !.cached = @ \o x.run] EXCEPT !.run = <<>>]
    BY <1>2, <1>4, <1>6 DEF ProcessRest
  <2> QED
    BY <1>1, <1>6, <2>1, EndOfOutput
<1>7. CASE m.individually = TRUE /\ engine = "input"
  <2>1. m' = [FlushAtEndOfString(x, last, ok) EXCEPT !.run = <<>>]
    BY <1>2, <1>4, <1>7 DEF ProcessRest
  <2> QED
    BY <1>1, <1>3, <1>7, <2>1, EndOfInput
<1> QED
  BY <1>0, <1>5, <1>6, <1>7
-----------------------------------------------------------------------------
(***************************************************************************)
(* The other steps, and the theorems                                       *)
(***************************************************************************)

\* ResetState, between two strings of an output engine
LEMMA ResetStep ==
  ASSUME IInv, ResetState
  PROVE  IInv' /\ m'.state = "Ground"
<1> DEFINE y == Enter(m, "Ground")
<1>0. m \in Machine /\ Bounded(m) /\ "Ground" \in States /\ Expected(m, "Ground")
  <2>1. Expected(m, "Ground")
    BY DEF Expected
  <2> QED
    BY <2>1, SoundBasics, StatesAre DEF IInv
<1>1. y \in Machine /\ Kept(m, y) /\ Sound(y) /\ y.state = "Ground"
  BY <1>0, EnterFields, EnterSound
<1>2. m' = [y EXCEPT !.calls = <<>>]
  BY DEF ResetState
<1> HIDE DEF y
<1>3. m' \in Machine /\ SameData(y, m') /\ Kept(y, m') /\ m'.cached = y.cached /\ m'.calls = <<>>
  BY <1>1, <1>2, NoCalls
<1>4. Sound(m') /\ m'.state = "Ground" /\ Kept(m, m')
  BY <1>1, <1>3, SameSound DEF Kept, SameData
<1>5. /\ ended /\ engine = "output" /\ engine' = engine /\ ended' = ended
      /\ seq' = seq /\ rung' = rung /\ received' = received /\ printed' = printed
  BY DEF ResetState, history
<1>6. m.run = <<>> /\ m'.run = <<>> /\ m'.individually = m.individually
  BY <1>4, <1>5 DEF IInv, RunInv, Kept
<1>7. RunInv' /\ TextInv' /\ SequenceInv' /\ WholeSequencePassed'
  BY <1>3, <1>4, <1>5, <1>6 DEF IInv, RunInv, TextInv, SequenceInv, WholeSequencePassed
<1>8. ReplayInv'
  BY <1>5, ReplayInvNext
<1>9. TextInOrder'
  BY <1>3, <1>5 DEF IInv, TextInOrder
<1>10. /\ engine \in Engines /\ ended' \in BOOLEAN /\ seq' \in Seq(Chars)
       /\ rung' \in BOOLEAN /\ received' \in Seq(Chars) /\ printed' = <<>>
  BY <1>5 DEF IInv, TypeOK, TextInv
<1> QED
  BY <1>4, <1>5, <1>7, <1>8, <1>9, <1>10, Conclude

\* SetAnsiMode, at the ground
LEMMA ModeStep ==
  ASSUME IInv, NEW ansi \in BOOLEAN, SetAnsiMode(ansi)
  PROVE  IInv' /\ m'.state = "Ground" /\ m'.calls = <<>>
<1>0. m \in Machine /\ m.state = "Ground" /\ engine = "output"
  BY DEF IInv, Sound, SetAnsiMode
<1>1. m' = [m EXCEPT !.ansi = ansi, !.calls = <<>>]
  BY DEF SetAnsiMode
<1>2. <<>> \in Seq(Calls)
  OBVIOUS
<1>3. m' \in Machine
  BY <1>0, <1>1, <1>2 DEF Machine
<1>4. SameData(m, m')
  BY <1>0, <1>1 DEF Machine, SameData
<1>5. m'.individually = m.individually /\ m'.run = m.run /\ m'.cached = m.cached /\ m'.calls = <<>>
  BY <1>0, <1>1 DEF Machine
<1>6. Sound(m') /\ m'.state = "Ground"
  BY <1>0, <1>3, <1>4, <1>5 DEF IInv, Sound, SameData
<1>7. engine' = engine /\ ended' = ended /\ received' = received /\ printed' = printed
  BY DEF SetAnsiMode
<1>8. seq' \in Seq(Chars) /\ rung' \in BOOLEAN
  <2> DEFINE arrived == <<>>
  <2>1. arrived \in Seq(Chars) /\ NoteSequence(arrived) /\ TypeOK
    BY DEF SetAnsiMode, IInv
  <2> HIDE DEF arrived
  <2> QED
    BY <2>1, SequenceNoted
<1>9. RunInv' /\ TextInv' /\ SequenceInv' /\ WholeSequencePassed'
  BY <1>5, <1>6, <1>7, <1>0 DEF IInv, RunInv, TextInv, SequenceInv, WholeSequencePassed
<1>10. ReplayInv'
  BY <1>0, <1>7, ReplayInvNext
<1>11. TextInOrder'
  BY <1>5, <1>7 DEF IInv, TextInOrder
<1>12. engine \in Engines /\ ended' \in BOOLEAN /\ received' \in Seq(Chars) /\ printed' = <<>>
  BY <1>7 DEF IInv, TypeOK, TextInv
<1> QED
  BY <1>5, <1>6, <1>7, <1>8, <1>9, <1>10, <1>11, <1>12, Conclude

\* The invariant holds at first ...
LEMMA InitInv == Init => IInv
<1> SUFFICES ASSUME Init PROVE IInv
  OBVIOUS
<1> DEFINE none == <<>>
<1>0. /\ m = NewMachine /\ engine \in Engines /\ ended = TRUE /\ seq = none /\ rung = FALSE
      /\ received = none /\ printed = none
  BY DEF Init
<1>1. none \in Seq(Chars) /\ none \in Seq(AllChars) /\ Len(none) = 0 /\ MaxCount \in Nat /\ MaxCollect \in Nat
      /\ DOMAIN none = {} /\ IsPrefix(none, none)
  <2>1. none \in Seq(Chars) /\ none \in Seq(AllChars) /\ Len(none) = 0 /\ DOMAIN none = {}
    OBVIOUS
  <2>2. MaxCount \in Nat /\ MaxCollect \in Nat
    BY ConstantsAssumption
  <2>3. \A s \in Seq(Chars) : IsPrefix(<<>>, s)
    BY EmptyIsPrefix
  <2> QED
    BY <2>1, <2>2, <2>3
<1>2. /\ m.state = "Ground" /\ m.ansi = TRUE /\ m.params = none /\ m.id = none
      /\ m.individually = FALSE /\ m.run = none /\ m.cached = none /\ m.calls = none
  BY <1>0 DEF NewMachine
<1>3. m \in Machine
  BY <1>0, NewInMachine
<1>4. Sound(m) /\ TypeOK
  <2> HIDE DEF none
  <2>1. m.cached = <<>> /\ m.params = <<>>
    BY <1>2 DEF none
  <2>2. Sound(m)
    BY <1>1, <1>2, <1>3, <2>1 DEF Sound
  <2> QED
    BY <1>0, <1>1, <2>2 DEF TypeOK, Sound
<1>5. RunInv /\ TextInv /\ SequenceInv /\ WholeSequencePassed
  BY <1>0, <1>1, <1>2 DEF RunInv, TextInv, SequenceInv, WholeSequencePassed
<1>6. ReplayInv
  BY <1>2, ReplayInvIs
<1>7. TextInOrder
  BY <1>0, <1>1, <1>2 DEF TextInOrder
<1> QED
  BY <1>4, <1>5, <1>6, <1>7 DEF IInv

\* ... in a step that changes nothing ...
LEMMA StutterInv ==
  ASSUME IInv, UNCHANGED vars
  PROVE  IInv'
<1>1. /\ m' = m /\ engine' = engine /\ ended' = ended /\ seq' = seq /\ rung' = rung
      /\ received' = received /\ printed' = printed
  BY DEF vars, history
<1>2. Sound(m')
  BY <1>1 DEF IInv
<1>3. RunInv' /\ TextInv' /\ SequenceInv' /\ WholeSequencePassed'
  BY <1>1 DEF IInv, RunInv, TextInv, SequenceInv, WholeSequencePassed
<1>4. ReplayInv'
  BY <1>1, ReplayInvIs, ReplayInvNext DEF IInv
<1>5. TextInOrder'
  BY <1>1 DEF IInv, TextInOrder
<1>6. /\ engine \in Engines /\ ended' \in BOOLEAN /\ seq' \in Seq(Chars)
      /\ rung' \in BOOLEAN /\ received' \in Seq(Chars) /\ printed' = <<>>
  BY <1>1 DEF IInv, TypeOK, TextInv
<1> QED
  BY <1>1, <1>2, <1>3, <1>4, <1>5, <1>6, Conclude

\* ... and behind every step.
LEMMA NextInv == IInv /\ [Next]_vars => IInv'
  BY CharacterStep, EndOfStringStep, ResetStep, ModeStep, StutterInv DEF Next

\* The parser is always in a state of the inductive invariant: text is skipped over
\* on the ground only, a sequence is in the parts kept of the earlier strings and in
\* the run of this one, and processing the run of an input engine again comes back to
\* the same state.
THEOREM Invariance == Spec => []IInv
  BY InitInv, NextInv, PTL DEF Spec

\* Every member of the machine has its type, the parameters and the identifier stay
\* within their limits, and a DCS string is run through with a handler only.
THEOREM TypeCorrect == Spec => []TypeOK
<1>1. IInv => TypeOK
  BY DEF IInv
<1> QED
  BY <1>1, Invariance, PTL

\* ProcessString prints the text that arrives, whole and in its order, before it
\* executes or dispatches what follows and before it returns, wherever strings end
\* and whatever the engine answers.
THEOREM TextStaysInOrder == Spec => []TextInOrder
<1>1. IInv => TextInOrder
  BY DEF IInv
<1> QED
  BY <1>1, Invariance, PTL

\* What FlushToTerminal passes through is the whole sequence since the ground, also
\* when it came in several strings or FlushAtEndOfString processed it again.
THEOREM SequencesPassedWhole == Spec => []WholeSequencePassed
<1>1. IInv => WholeSequencePassed
  BY DEF IInv
<1> QED
  BY <1>1, Invariance, PTL
-----------------------------------------------------------------------------
(*****************************************************************************)
(* What the characters of a sequence say, character by character            *)
(*****************************************************************************)

\* The recursive function of Only, unfolded once at every character
Keeps(kept, s, S, E) ==
  /\ kept \in [0 .. Len(s) -> Seq(E)]
  /\ Only(s, S) = kept[Len(s)] /\ kept[0] = <<>>
  /\ \A n \in 1 .. Len(s) :
       kept[n] = IF s[n] \in S THEN Append(kept[n - 1], s[n]) ELSE kept[n - 1]

\* There is such a function: Only is what it comes to.
LEMMA OnlyWalk ==
  ASSUME NEW E, NEW s \in Seq(E), NEW S
  PROVE  \E kept : Keeps(kept, s, S, E)
<1> DEFINE N == Len(s)
           Q == Seq(E)
           empty == <<>>
           K(t, n) == IF s[n] \in S THEN Append(t, s[n]) ELSE t
           step == [n \in Nat |-> [t \in Q |-> IF n \in 1 .. N THEN K(t, n) ELSE t]]
           G(f) == f = [n \in 0 .. N |-> IF n = 0 THEN empty ELSE K(f[n - 1], n)]
<1>0. N \in Nat /\ empty \in Q /\ \A n \in 1 .. N : \A t \in Q : K(t, n) \in Q
  OBVIOUS
<1> HIDE DEF N, Q, empty, K
<1>1. step \in [Nat -> [Q -> Q]] /\ \A n \in 1 .. N : \A t \in Q : step[n][t] = K(t, n)
  BY <1>0
<1> HIDE DEF step
<1>2. PICK f : Computes(f, Q, empty, step, N)
  BY <1>0, <1>1, RecursionUpTo
<1>3. ASSUME NEW n \in 1 .. N PROVE f[n] = K(f[n - 1], n)
  <2>1. n - 1 \in 0 .. N
    BY <1>0
  <2> QED
    BY <1>1, <1>2, <2>1 DEF Computes
<1>4. G(f)
  BY <1>0, <1>2, <1>3 DEF Computes
<1> DEFINE g == CHOOSE h : G(h)
<1>5. G(g)
  BY <1>4
<1>6. Only(s, S) = g[N]
  BY DEF Only, N, K, empty
<1> HIDE DEF g
<1>7. g[0] = empty /\ \A n \in 1 .. N : g[n] = K(g[n - 1], n)
  BY <1>0, <1>5
<1>8. DOMAIN g = 0 .. N /\ g = [n \in 0 .. N |-> g[n]]
  BY <1>5
<1> DEFINE P == {n \in 0 .. N : g[n] \in Q}
<1>9. 0 \in P
  BY <1>0, <1>7
<1>10. ASSUME NEW n \in 1 .. N, n - 1 \in P PROVE n \in P
  BY <1>0, <1>7, <1>10
<1> HIDE DEF P
<1>11. \A n \in 0 .. N : n \in P
  BY <1>0, <1>9, <1>10, SetInductionUpTo
<1>12. g \in [0 .. N -> Q]
  BY <1>8, <1>11 DEF P
<1> QED
  BY <1>6, <1>7, <1>12 DEF N, Q, K, empty, Keeps

\* Nothing is kept of nothing.
LEMMA OnlyNothing ==
  ASSUME NEW S
  PROVE  Only(<<>>, S) = <<>>
<1> DEFINE empty == <<>>
           E == {}
<1>1. empty \in Seq(E) /\ Len(empty) = 0
  OBVIOUS
<1> HIDE DEF E, empty
<1>2. PICK kept : Keeps(kept, empty, S, E)
  BY <1>1, OnlyWalk
<1> QED
  BY <1>1, <1>2 DEF empty, Keeps

\* One more character is kept, or not.
LEMMA OnlyFurther ==
  ASSUME NEW E, NEW s \in Seq(E), NEW c \in E, NEW S
  PROVE  /\ Only(s, S) \in Seq(E)
         /\ Only(Append(s, c), S) = IF c \in S THEN Append(Only(s, S), c) ELSE Only(s, S)
<1> DEFINE N == Len(s)
           t == Append(s, c)
<1>0. N \in Nat /\ t \in Seq(E) /\ Len(t) = N + 1 /\ t[N + 1] = c /\ \A n \in 1 .. N : t[n] = s[n]
  OBVIOUS
<1> HIDE DEF t
<1>b. PICK f : Keeps(f, s, S, E)
  BY OnlyWalk
<1>c. PICK g : Keeps(g, t, S, E)
  BY <1>0, OnlyWalk
<1>1. /\ f \in [0 .. Len(s) -> Seq(E)] /\ Only(s, S) = f[Len(s)] /\ f[0] = <<>>
      /\ \A n \in 1 .. Len(s) : f[n] = IF s[n] \in S THEN Append(f[n - 1], s[n]) ELSE f[n - 1]
  BY <1>b DEF Keeps
<1>2. /\ Only(t, S) = g[Len(t)] /\ g[0] = <<>>
      /\ \A n \in 1 .. Len(t) : g[n] = IF t[n] \in S THEN Append(g[n - 1], t[n]) ELSE g[n - 1]
  BY <1>c DEF Keeps
<1> HIDE DEF N
<1>a. N = Len(s)
  BY DEF N
<1> DEFINE P == {n \in 0 .. N : f[n] = g[n]}
<1>3. 0 \in P
  BY <1>0, <1>1, <1>2
<1>4. ASSUME NEW n \in 1 .. N, n - 1 \in P PROVE n \in P
  <2>1. n \in 1 .. N + 1 /\ t[n] = s[n] /\ f[n - 1] = g[n - 1]
    BY <1>0, <1>4
  <2>2. f[n] = g[n]
    BY <1>0, <1>1, <1>2, <1>a, <2>1
  <2> QED
    BY <2>2
<1> HIDE DEF P
<1>5. \A n \in 0 .. N : n \in P
  BY <1>0, <1>3, <1>4, SetInductionUpTo
<1>6. f[N] = g[N] /\ f[N] \in Seq(E)
  BY <1>0, <1>5, <1>1, <1>a DEF P
<1>7. N + 1 \in 1 .. N + 1 /\ (N + 1) - 1 = N
  BY <1>0
<1>8. g[N + 1] = IF c \in S THEN Append(g[N], c) ELSE g[N]
  BY <1>0, <1>2, <1>7
<1> QED
  BY <1>0, <1>1, <1>2, <1>6, <1>8, <1>a DEF t

\* (for characters)
LEMMA OnlyMore ==
  ASSUME NEW s \in Seq(AllChars), NEW c \in AllChars, NEW S
  PROVE  Only(Append(s, c), S) = IF c \in S THEN Append(Only(s, S), c) ELSE Only(s, S)
  BY OnlyFurther

\* The smaller and the larger of two numbers
LEMMA MinMaxOfTwo ==
  ASSUME NEW a \in Int, NEW b \in Int
  PROVE  Min({a, b}) = (IF a <= b THEN a ELSE b) /\ Max({a, b}) = (IF a >= b THEN a ELSE b)
<1>1. \E x \in {a, b} : \A y \in {a, b} : x <= y
  <2>1. CASE a <= b
    BY <2>1
  <2>2. CASE ~(a <= b)
    BY <2>2
  <2> QED
    BY <2>1, <2>2
<1>2. \E x \in {a, b} : \A y \in {a, b} : x >= y
  <2>1. CASE a <= b
    BY <2>1
  <2>2. CASE ~(a <= b)
    BY <2>2
  <2> QED
    BY <2>1, <2>2
<1>3. Min({a, b}) \in {a, b} /\ \A y \in {a, b} : Min({a, b}) <= y
  BY <1>1 DEF Min
<1>4. Max({a, b}) \in {a, b} /\ \A y \in {a, b} : Max({a, b}) >= y
  BY <1>2 DEF Max
<1> HIDE DEF Min, Max
<1> QED
  BY <1>3, <1>4

\* The delimiters in front of a character are counted.
LEMMA BeforeCounts ==
  ASSUME NEW E, NEW s \in Seq(E), NEW i \in 1 .. Len(s) + 1
  PROVE  /\ Before(s, i) \in Nat /\ Before(s, 1) = 0
         /\ Before(s, i) <= Before(s, Len(s) + 1)
<1> DEFINE T(k) == {j \in 1 .. k - 1 : s[j] \in Delimiter}
<1>0. Len(s) \in Nat
  OBVIOUS
<1>1. \A k \in 1 .. Len(s) + 1 : IsFiniteSet(T(k))
  <2> TAKE k \in 1 .. Len(s) + 1
  <2>1. IsFiniteSet(1 .. k - 1)
    BY FS_Interval
  <2>2. T(k) \subseteq 1 .. k - 1
    OBVIOUS
  <2> QED
    BY <2>1, <2>2, FS_Subset
<1>2. T(1) = {} /\ T(i) \subseteq T(Len(s) + 1)
  BY <1>0
<1>3. Cardinality(T(i)) \in Nat /\ Cardinality(T(i)) <= Cardinality(T(Len(s) + 1)) /\ Cardinality(T(1)) = 0
  BY <1>0, <1>1, <1>2, FS_CardinalityType, FS_Subset, FS_EmptySet
<1> QED
  BY <1>3 DEF Before

\* One more character adds to what is behind it only.
LEMMA BeforeFurther ==
  ASSUME NEW E, NEW s \in Seq(E), NEW c \in E, NEW t, t = Append(s, c)
  PROVE  /\ \A i \in 1 .. Len(s) + 1 : Before(t, i) = Before(s, i)
         /\ Before(t, Len(t) + 1) = Before(s, Len(s) + 1) + IF c \in Delimiter THEN 1 ELSE 0
<1> DEFINE N == Len(s)
           T(r, k) == {j \in 1 .. k - 1 : r[j] \in Delimiter}
<1>0. N \in Nat /\ Len(t) = N + 1 /\ t[N + 1] = c /\ \A n \in 1 .. N : t[n] = s[n]
  OBVIOUS
<1>1. \A i \in 1 .. N + 1 : T(t, i) = T(s, i)
  BY <1>0
<1>2. IsFiniteSet(T(s, N + 1)) /\ N + 1 \notin T(s, N + 1)
  <2>1. IsFiniteSet(1 .. (N + 1) - 1)
    BY <1>0, FS_Interval
  <2>2. T(s, N + 1) \subseteq 1 .. (N + 1) - 1
    OBVIOUS
  <2> QED
    BY <1>0, <2>1, <2>2, FS_Subset
<1>3. T(t, (N + 1) + 1) = IF c \in Delimiter THEN T(s, N + 1) \cup {N + 1} ELSE T(s, N + 1)
  BY <1>0
<1>4. Cardinality(T(t, (N + 1) + 1)) = Cardinality(T(s, N + 1)) + IF c \in Delimiter THEN 1 ELSE 0
  <2> HIDE DEF T
  <2>1. Cardinality(T(s, N + 1)) \in Nat
    BY <1>2, FS_CardinalityType
  <2>2. Cardinality(T(s, N + 1) \cup {N + 1}) = Cardinality(T(s, N + 1)) + 1
    BY <1>2, FS_AddElement
  <2> QED
    BY <1>3, <2>1, <2>2
<1> QED
  BY <1>0, <1>1, <1>4 DEF Before

\* The recursive function of Field, unfolded once at every character
Numbers(number, s, k) ==
  /\ Field(s, k) = Min({number[Len(s)], MaxValue}) /\ number[0] = Default
  /\ \A n \in 0 .. Len(s) : number[n] \in Int /\ number[n] >= Default
  /\ \A n \in 1 .. Len(s) :
       number[n] = IF s[n] \in Digits /\ Before(s, n) = k - 1
                     THEN 10 * (IF number[n - 1] = Default THEN 0 ELSE number[n - 1]) + DigitValue[s[n]]
                     ELSE number[n - 1]

\* There is such a function: Field is what it comes to.
LEMMA FieldWalk ==
  ASSUME NEW E, NEW s \in Seq(E), NEW k
  PROVE  \E number : Numbers(number, s, k)
<1> DEFINE N == Len(s)
           Q == {v \in Int : v >= Default}
           K(v, n) == IF s[n] \in Digits /\ Before(s, n) = k - 1
                        THEN 10 * (IF v = Default THEN 0 ELSE v) + DigitValue[s[n]]
                        ELSE v
           step == [n \in Nat |-> [v \in Q |-> IF n \in 1 .. N THEN K(v, n) ELSE v]]
           G(f) == f = [n \in 0 .. N |-> IF n = 0 THEN Default ELSE K(f[n - 1], n)]
<1>0. N \in Nat /\ Default \in Q /\ \A n \in 1 .. N : \A v \in Q : K(v, n) \in Q
  <2>1. \A d \in Digits : DigitValue[d] = 9
    BY DEF DigitValue
  <2> QED
    BY <2>1 DEF Default
<1> HIDE DEF N, K
<1>a. \A v \in Q : v \in Int /\ v >= Default
  OBVIOUS
<1> HIDE DEF Q
<1>1. step \in [Nat -> [Q -> Q]] /\ \A n \in 1 .. N : \A v \in Q : step[n][v] = K(v, n)
  BY <1>0
<1> HIDE DEF step
<1>2. PICK f : Computes(f, Q, Default, step, N)
  BY <1>0, <1>1, RecursionUpTo
<1>3. ASSUME NEW n \in 1 .. N PROVE f[n] = K(f[n - 1], n)
  <2>1. n - 1 \in 0 .. N
    BY <1>0
  <2> QED
    BY <1>1, <1>2, <2>1 DEF Computes
<1>4. G(f)
  BY <1>0, <1>2, <1>3 DEF Computes
<1> DEFINE g == CHOOSE h : G(h)
<1>5. G(g)
  BY <1>4
<1>6. Field(s, k) = Min({g[N], MaxValue})
  BY DEF Field, N, K
<1> HIDE DEF g
<1>7. g[0] = Default /\ \A n \in 1 .. N : g[n] = K(g[n - 1], n)
  BY <1>0, <1>5
<1> DEFINE P == {n \in 0 .. N : g[n] \in Q}
<1>9. 0 \in P
  BY <1>0, <1>7
<1>10. ASSUME NEW n \in 1 .. N, n - 1 \in P PROVE n \in P
  BY <1>0, <1>7, <1>10
<1> HIDE DEF P
<1>11. \A n \in 0 .. N : n \in P
  BY <1>0, <1>9, <1>10, SetInductionUpTo
<1>12. \A n \in 0 .. N : g[n] \in Int /\ g[n] >= Default
  BY <1>a, <1>11 DEF P
<1> QED
  BY <1>6, <1>7, <1>12 DEF N, K, Numbers

\* A field without characters is not given; a field is a parameter.
LEMMA FieldType ==
  ASSUME NEW E, NEW s \in Seq(E), NEW k \in Int
  PROVE  /\ Field(s, k) \in Default .. MaxValue
         /\ s = <<>> \/ Before(s, Len(s) + 1) < k - 1 => Field(s, k) = Default
<1> DEFINE N == Len(s)
<1>0. N \in Nat /\ MaxValue \in Nat /\ Default = -1 /\ (s = <<>> => N = 0)
  BY ConstantsAssumption DEF Default
<1>1. PICK f : Numbers(f, s, k)
  BY FieldWalk
<1>2. f[N] \in Int /\ f[N] >= Default
  BY <1>0, <1>1 DEF Numbers
<1>3. Field(s, k) = IF f[N] <= MaxValue THEN f[N] ELSE MaxValue
  BY <1>0, <1>1, <1>2, MinMaxOfTwo DEF Numbers
<1>4. Field(s, k) \in Default .. MaxValue
  BY <1>0, <1>2, <1>3
<1>5. ASSUME s = <<>> \/ Before(s, N + 1) < k - 1 PROVE f[N] = Default
  <2> DEFINE P == {n \in 0 .. N : f[n] = Default}
  <2>1. 0 \in P
    BY <1>0, <1>1 DEF Numbers
  <2>2. ASSUME NEW n \in 1 .. N, n - 1 \in P PROVE n \in P
    <3>1. n \in 1 .. N + 1 /\ N + 1 \in 1 .. N + 1 /\ s # <<>>
      BY <1>0
    <3>2. /\ Before(s, n) \in Nat /\ Before(s, n) <= Before(s, N + 1)
          /\ Before(s, N + 1) \in Nat
      BY <3>1, BeforeCounts
    <3>3. Before(s, n) # k - 1
      BY <1>5, <3>1, <3>2
    <3>4. f[n] = f[n - 1]
      BY <1>1, <3>3 DEF Numbers
    <3> QED
      BY <2>2, <3>4
  <2> HIDE DEF P
  <2>3. \A n \in 0 .. N : n \in P
    BY <1>0, <2>1, <2>2, SetInductionUpTo
  <2> QED
    BY <1>0, <2>3 DEF P
<1>6. s = <<>> \/ Before(s, N + 1) < k - 1 => Field(s, k) = Default
  BY <1>0, <1>3, <1>5
<1> QED
  BY <1>4, <1>6

\* One more digit is added to the field it belongs to as _AccumulateTo adds it: a
\* number beyond the limit stays at it.
LEMMA FieldFurther ==
  ASSUME NEW E, NEW s \in Seq(E), NEW c \in E, NEW t, t = Append(s, c), NEW k \in Int
  PROVE  Field(t, k) = IF c \in Digits /\ Before(s, Len(s) + 1) = k - 1
                         THEN Accumulate(IF Field(s, k) = Default THEN 0 ELSE Field(s, k), c)
                         ELSE Field(s, k)
<1> DEFINE N == Len(s)
<1>0. /\ N \in Nat /\ t \in Seq(E) /\ Len(t) = N + 1 /\ t[N + 1] = c /\ \A n \in 1 .. N : t[n] = s[n]
      /\ MaxValue \in Nat /\ Default = -1
  BY ConstantsAssumption DEF Default
<1>1. PICK f : Numbers(f, s, k)
  BY FieldWalk
<1>2. PICK g : Numbers(g, t, k)
  BY <1>0, FieldWalk
<1>3. \A i \in 1 .. N + 1 : Before(t, i) = Before(s, i)
  BY BeforeFurther
<1>4. f[N] = g[N]
  <2> DEFINE P == {n \in 0 .. N : f[n] = g[n]}
  <2>1. 0 \in P
    BY <1>0, <1>1, <1>2 DEF Numbers
  <2>2. ASSUME NEW n \in 1 .. N, n - 1 \in P PROVE n \in P
    <3>1. n \in 1 .. N + 1 /\ t[n] = s[n] /\ f[n - 1] = g[n - 1] /\ Before(t, n) = Before(s, n)
      BY <1>0, <1>3, <2>2
    <3>2. f[n] = g[n]
      BY <1>0, <1>1, <1>2, <3>1 DEF Numbers
    <3> QED
      BY <3>2
  <2> HIDE DEF P
  <2>3. \A n \in 0 .. N : n \in P
    BY <1>0, <2>1, <2>2, SetInductionUpTo
  <2> QED
    BY <1>0, <2>3 DEF P
<1> DEFINE v == f[N]
           w == g[N + 1]
<1>5. N + 1 \in 1 .. N + 1 /\ (N + 1) - 1 = N /\ N \in 0 .. N /\ N + 1 \in 0 .. N + 1
  BY <1>0
<1>6. w = IF c \in Digits /\ Before(s, N + 1) = k - 1
            THEN 10 * (IF v = Default THEN 0 ELSE v) + DigitValue[c] ELSE v
  BY <1>0, <1>2, <1>3, <1>4, <1>5 DEF Numbers
<1>7. v \in Int /\ v >= Default /\ w \in Int
  BY <1>0, <1>1, <1>2, <1>5 DEF Numbers
<1>8. /\ Field(s, k) = IF v <= MaxValue THEN v ELSE MaxValue
      /\ Field(t, k) = IF w <= MaxValue THEN w ELSE MaxValue
  <2>1. Field(s, k) = Min({v, MaxValue}) /\ Field(t, k) = Min({w, MaxValue})
    BY <1>0, <1>1, <1>2 DEF Numbers
  <2> HIDE DEF v, w
  <2> QED
    BY <1>0, <1>7, <2>1, MinMaxOfTwo
<1> HIDE DEF v, w
<1>9. CASE c \in Digits /\ Before(s, N + 1) = k - 1
  <2>1. DigitValue[c] = 9
    BY <1>9 DEF DigitValue
  <2>2. w = 10 * (IF v = Default THEN 0 ELSE v) + 9
    BY <1>6, <1>9, <2>1
  <2> DEFINE u == IF Field(s, k) = Default THEN 0 ELSE Field(s, k)
  <2>3. u \in Int /\ u = IF v = Default THEN 0 ELSE IF v <= MaxValue THEN v ELSE MaxValue
    BY <1>0, <1>7, <1>8
  <2> HIDE DEF u
  <2>4. Accumulate(u, c) = IF u * 10 + 9 > MaxValue THEN MaxValue ELSE u * 10 + 9
    BY <2>1 DEF Accumulate
  <2>5. Field(t, k) = Accumulate(u, c)
    BY <1>0, <1>7, <1>8, <2>2, <2>3, <2>4
  <2> QED
    BY <1>9, <2>5 DEF u
<1>10. CASE ~(c \in Digits /\ Before(s, N + 1) = k - 1)
  BY <1>6, <1>8, <1>10
<1> QED
  BY <1>9, <1>10

\* The parameters, of which there is always one to fill
Filled(s) == [k \in 1 .. Min({Before(s, Len(s) + 1) + 1, MaxCount}) |-> Field(s, k)]

\* Their number
LEMMA FilledLength ==
  ASSUME NEW E, NEW s \in Seq(E), NEW d, d = Before(s, Len(s) + 1)
  PROVE  /\ d \in Nat /\ MaxCount \in Nat /\ MaxCount >= 2
         /\ Filled(s) = [k \in 1 .. (IF d + 1 <= MaxCount THEN d + 1 ELSE MaxCount) |-> Field(s, k)]
         /\ Filled(s) # <<>>
         /\ s # <<>> => Fields(s) = Filled(s)
<1>1. MaxCount \in Nat /\ MaxCount >= 2 /\ Len(s) + 1 \in 1 .. Len(s) + 1
  BY ConstantsAssumption
<1>2. d \in Nat
  BY <1>1, BeforeCounts
<1>3. Min({d + 1, MaxCount}) = IF d + 1 <= MaxCount THEN d + 1 ELSE MaxCount
  BY <1>1, <1>2, MinMaxOfTwo
<1>4. Filled(s) = [k \in 1 .. (IF d + 1 <= MaxCount THEN d + 1 ELSE MaxCount) |-> Field(s, k)]
  BY <1>3 DEF Filled
<1>5. 1 \in DOMAIN Filled(s)
  BY <1>1, <1>2, <1>4
<1>6. Filled(s) # <<>>
  BY <1>5
<1>7. s # <<>> => Fields(s) = Filled(s)
  BY DEF Fields, Filled
<1> QED
  BY <1>1, <1>2, <1>4, <1>6, <1>7

\* What one more digit or delimiter makes of the parameters
FilledWith(ps, d, t, c) ==
  /\ Before(t, Len(t) + 1) = d + IF c \in Delimiter THEN 1 ELSE 0
  /\ ps \in Seq(Default .. MaxValue)
  /\ Len(ps) = IF d + 1 <= MaxCount THEN d + 1 ELSE MaxCount
  /\ d >= MaxCount \/ (c \in Delimiter /\ d + 1 = MaxCount) => Filled(t) = ps
  /\ d < MaxCount /\ c \in Digits =>
       Filled(t) = [ps EXCEPT ![d + 1] = Accumulate(IF ps[d + 1] = Default THEN 0 ELSE ps[d + 1], c)]
  /\ d + 1 < MaxCount /\ c \in Delimiter => Filled(t) = Append(ps, Default)

\* One more digit or delimiter changes the fields as _ActionParam does.
LEMMA FilledFurther ==
  ASSUME NEW p \in Seq(AllChars), NEW c \in Digits \cup Delimiter, NEW t, t = Append(p, c),
         NEW d, d = Before(p, Len(p) + 1), NEW ps, ps = Filled(p)
  PROVE  FilledWith(ps, d, t, c)
<1> DEFINE C == MaxCount
           e == IF c \in Delimiter THEN 1 ELSE 0
           n == IF d + 1 <= C THEN d + 1 ELSE C
           d2 == d + e
           n2 == IF d2 + 1 <= C THEN d2 + 1 ELSE C
<1>a. c \in AllChars /\ (c \in Digits <=> c \notin Delimiter)
  BY DEF AllChars, Digits, Delimiter
<1>b. t \in Seq(AllChars)
  BY <1>a
<1>0. d \in Nat /\ C \in Nat /\ C >= 2 /\ ps = [k \in 1 .. n |-> Field(p, k)]
  BY FilledLength
<1>1. Before(t, Len(t) + 1) = d2
  <2>1. Before(t, Len(t) + 1) = Before(p, Len(p) + 1) + IF c \in Delimiter THEN 1 ELSE 0
    BY <1>a, BeforeFurther, Zenon
  <2> QED
    BY <2>1
<1>2. Filled(t) = [k \in 1 .. n2 |-> Field(t, k)]
  BY <1>1, <1>b, FilledLength
<1>3. \A k \in Int : Field(p, k) \in Default .. MaxValue /\ (d < k - 1 => Field(p, k) = Default)
  BY FieldType
<1>4. ps \in Seq(Default .. MaxValue) /\ Len(ps) = n
  <2> DEFINE D == Default .. MaxValue
  <2>0. \A k \in Int : Field(p, k) \in D
    BY <1>3
  <2> HIDE DEF D
  <2>1. n \in Nat /\ \A k \in 1 .. n : Field(p, k) \in D
    BY <1>0, <2>0
  <2> HIDE DEF n
  <2>2. ps \in Seq(D) /\ Len(ps) = n
    BY <1>0, <2>1
  <2> QED
    BY <2>2 DEF D
<1> DEFINE A(k) == Accumulate(IF Field(p, k) = Default THEN 0 ELSE Field(p, k), c)
<1>5. \A k \in Int : Field(t, k) = IF c \in Digits /\ d = k - 1 THEN A(k) ELSE Field(p, k)
  BY <1>a, FieldFurther
<1> HIDE DEF A
<1>6. ASSUME d >= C \/ (c \in Delimiter /\ d + 1 = C) PROVE Filled(t) = ps
  <2>1. n2 = n /\ \A k \in 1 .. n : ~(c \in Digits /\ d = k - 1)
    BY <1>0, <1>a, <1>6
  <2>2. \A k \in 1 .. n : Field(t, k) = Field(p, k)
    BY <1>0, <1>5, <2>1
  <2> QED
    BY <1>0, <1>2, <2>1, <2>2
<1>7. ASSUME d < C, c \in Digits
      PROVE  Filled(t) = [ps EXCEPT ![d + 1] = Accumulate(IF ps[d + 1] = Default THEN 0 ELSE ps[d + 1], c)]
  <2>1. n2 = d + 1 /\ n = d + 1
    BY <1>0, <1>a, <1>7
  <2>2. ps[d + 1] = Field(p, d + 1)
    BY <1>0, <2>1
  <2>3. ASSUME NEW k \in 1 .. d + 1 PROVE Field(t, k) = IF k = d + 1 THEN A(d + 1) ELSE ps[k]
    <3>0. k \in Int /\ ps[k] = Field(p, k)
      BY <1>0, <2>1
    <3>1. CASE k = d + 1
      <4>1. d = k - 1
        BY <1>0, <3>1
      <4> QED
        BY <1>5, <1>7, <3>0, <3>1, <4>1
    <3>2. CASE k # d + 1
      <4>1. d # k - 1
        BY <1>0, <3>2
      <4> QED
        BY <1>5, <3>0, <3>2, <4>1
    <3> QED
      BY <3>1, <3>2
  <2>4. Filled(t) = [ps EXCEPT ![d + 1] = A(d + 1)]
    <3>1. DOMAIN ps = 1 .. d + 1
      BY <1>0, <2>1
    <3>2. Filled(t) = [k \in 1 .. d + 1 |-> IF k = d + 1 THEN A(d + 1) ELSE ps[k]]
      BY <1>2, <2>1, <2>3
    <3> HIDE DEF n, n2, d2
    <3> QED
      BY <1>0, <3>1, <3>2
  <2> QED
    BY <2>2, <2>4 DEF A
<1>8. ASSUME d + 1 < C, c \in Delimiter PROVE Filled(t) = Append(ps, Default)
  <2>1. n2 = d + 2 /\ n = d + 1
    BY <1>0, <1>8
  <2>2. \A k \in 1 .. d + 2 : Field(t, k) = IF k = d + 2 THEN Default ELSE Field(p, k)
    BY <1>0, <1>3, <1>5, <1>8, <1>a
  <2> DEFINE r == Filled(t)
  <2>3. r \in Seq(Default .. MaxValue) /\ Len(r) = d + 2 /\ r[d + 2] = Default
    <3> DEFINE D == Default .. MaxValue
    <3>1. d + 2 \in Nat /\ \A k \in 1 .. d + 2 : Field(t, k) \in D
      <4>1. \A k \in Int : Field(t, k) \in D
        BY <1>b, FieldType
      <4> HIDE DEF D
      <4> QED
        BY <1>0, <4>1
    <3>2. r = [k \in 1 .. d + 2 |-> Field(t, k)] /\ d + 2 \in 1 .. d + 2
      BY <1>0, <1>2, <2>1
    <3>3. Field(t, d + 2) = Default
      BY <2>2, <3>2
    <3> HIDE DEF D, r
    <3>4. r \in Seq(D) /\ Len(r) = d + 2 /\ r[d + 2] = Default
      BY <3>1, <3>2, <3>3
    <3> QED
      BY <3>4 DEF D
  <2>4. \A k \in 1 .. d + 1 : r[k] = ps[k]
    BY <1>0, <1>2, <2>1, <2>2
  <2>5. Default \in Default .. MaxValue
    BY ConstantsAssumption DEF Default
  <2> DEFINE q == Append(ps, Default)
  <2>6. q \in Seq(Default .. MaxValue) /\ Len(q) = d + 2 /\ q[d + 2] = Default /\ \A k \in 1 .. d + 1 : q[k] = ps[k]
    BY <1>0, <1>4, <2>1, <2>5
  <2> HIDE DEF r, q
  <2>7. ASSUME NEW k \in 1 .. d + 2 PROVE r[k] = q[k]
    <3>1. k = d + 2 \/ k \in 1 .. d + 1
      BY <1>0
    <3> QED
      BY <2>3, <2>4, <2>6, <3>1
  <2>8. r = q
    BY <1>0, <2>3, <2>6, <2>7, SeqEqual
  <2> QED
    BY <2>8 DEF r, q
<1> QED
  BY <1>1, <1>4, <1>6, <1>7, <1>8 DEF FilledWith

\* The parameters that the digits and delimiters p give, and whether they are too many
ParamsHold(x, p) == x.params = Fields(p) /\ x.limit = (Before(p, Len(p) + 1) >= MaxCount)

\* _ActionParam reads one more digit or delimiter.
LEMMA ParamReads ==
  ASSUME NEW x \in Machine, NEW p \in Seq(AllChars), NEW c \in Digits \cup Delimiter,
         ParamsHold(x, p), NEW y, y = Param(x, c), NEW t, t = Append(p, c)
  PROVE  ParamsHold(y, t)
<1> SUFFICES y.params = Fields(t) /\ y.limit = (Before(t, Len(t) + 1) >= MaxCount)
  BY DEF ParamsHold
<1> x.params = Fields(p) /\ x.limit = (Before(p, Len(p) + 1) >= MaxCount)
  BY DEF ParamsHold
<1> DEFINE d == Before(p, Len(p) + 1)
           C == MaxCount
           ps == Filled(p)
           qs == IF x.params = <<>> THEN <<Default>> ELSE x.params
           value == IF ps[d + 1] = Default THEN 0 ELSE ps[d + 1]
<1>0. d \in Nat /\ C \in Nat /\ C >= 2 /\ ps # <<>> /\ (p # <<>> => Fields(p) = ps)
      /\ ps = [k \in 1 .. (IF d + 1 <= C THEN d + 1 ELSE C) |-> Field(p, k)]
  BY FilledLength
<1>a. c \in AllChars /\ (c \in Digits <=> c \notin Delimiter)
  BY DEF AllChars, Digits, Delimiter
<1>b. t \in Seq(AllChars) /\ t # <<>>
  BY <1>a
<1>1. Fields(t) = Filled(t)
  BY <1>b, FilledLength
<1>c. d = Before(p, Len(p) + 1) /\ ps = Filled(p) /\ C = MaxCount
  OBVIOUS
<1> HIDE DEF d, ps, C
<1>2. /\ Before(t, Len(t) + 1) = d + IF c \in Delimiter THEN 1 ELSE 0
      /\ ps \in Seq(Default .. MaxValue)
      /\ Len(ps) = IF d + 1 <= C THEN d + 1 ELSE C
      /\ d >= C \/ (c \in Delimiter /\ d + 1 = C) => Filled(t) = ps
      /\ d < C /\ c \in Digits => Filled(t) = [ps EXCEPT ![d + 1] = Accumulate(value, c)]
      /\ d + 1 < C /\ c \in Delimiter => Filled(t) = Append(ps, Default)
  <2>1. FilledWith(ps, d, t, c)
    BY <1>c, FilledFurther
  <2> QED
    BY <1>c, <2>1 DEF FilledWith
<1>3. qs = ps
  <2>1. CASE p = <<>>
    <3>1. d = 0
      <4>1. 1 \in 1 .. Len(p) + 1 /\ Len(p) + 1 = 1
        BY <2>1
      <4> QED
        BY <1>c, <4>1, BeforeCounts
    <3>2. Field(p, 1) = Default
      <4>1. \A k \in Int : p = <<>> => Field(p, k) = Default
        BY FieldType
      <4> QED
        BY <2>1, <4>1
    <3>3. ps = [k \in 1 .. 1 |-> Field(p, k)]
      BY <1>0, <3>1
    <3>4. Len(ps) = 1 /\ ps[1] = Default
      BY <1>2, <3>2, <3>3
    <3>5. ps = <<Default>>
      <4>1. <<Default>> = [k \in 1 .. 1 |-> Default]
        OBVIOUS
      <4>2. [k \in 1 .. 1 |-> Field(p, k)] = [k \in 1 .. 1 |-> Default]
        BY <3>2
      <4> QED
        BY <3>3, <4>1, <4>2
    <3>6. x.params = <<>>
      BY <2>1 DEF Fields
    <3> QED
      BY <3>5, <3>6
  <2>2. CASE p # <<>>
    BY <1>0, <2>2
  <2> QED
    BY <2>1, <2>2
<1>4. Last(qs) = ps[Len(ps)]
  BY <1>3 DEF Last
<1> HIDE DEF qs
<1>d. y = IF x.limit THEN x
          ELSE IF c \notin Delimiter
            THEN [x EXCEPT !.params = [ps EXCEPT ![Len(ps)] = Accumulate(IF Last(qs) = Default THEN 0 ELSE Last(qs), c)]]
          ELSE IF Len(ps) >= C THEN [x EXCEPT !.params = ps, !.limit = TRUE]
          ELSE [x EXCEPT !.params = Append(ps, Default)]
  BY <1>3, <1>c DEF Param, qs
<1>5. CASE d >= C
  <2>1. x.limit = TRUE
    BY <1>5, <1>c
  <2>2. y = x
    BY <2>1, <1>d
  <2>3. p # <<>>
    <3>1. p = <<>> => d = 0
      <4>1. p = <<>> => 1 \in 1 .. Len(p) + 1 /\ Len(p) + 1 = 1
        OBVIOUS
      <4> QED
        BY <1>c, <4>1, BeforeCounts
    <3> QED
      BY <1>0, <1>5, <3>1
  <2>4. x.params = ps
    BY <1>0, <2>3
  <2>5. Before(t, Len(t) + 1) >= C
    BY <1>0, <1>2, <1>5
  <2> QED
    BY <1>1, <1>2, <1>5, <1>c, <2>1, <2>2, <2>4, <2>5
<1>6. CASE d < C /\ c \in Digits
  <2>0. (d >= C) = FALSE
    BY <1>0, <1>6
  <2>1. x.limit = FALSE /\ c \notin Delimiter
    BY <1>6, <1>a, <1>c, <2>0
  <2>2. Len(ps) = d + 1
    BY <1>0, <1>2, <1>6
  <2>3. y = [x EXCEPT !.params = [ps EXCEPT ![d + 1] = Accumulate(value, c)]]
    BY <1>4, <1>d, <2>1, <2>2
  <2> HIDE DEF value
  <2>4. y.params = [ps EXCEPT ![d + 1] = Accumulate(value, c)] /\ y.limit = FALSE
    BY <2>1, <2>3 DEF Machine
  <2>5. (Before(t, Len(t) + 1) >= C) = FALSE
    BY <1>0, <1>2, <1>6, <2>1
  <2> QED
    BY <1>1, <1>2, <1>6, <1>c, <2>4, <2>5
<1>7. CASE d + 1 = C /\ c \in Delimiter
  <2>0. (d >= C) = FALSE /\ Len(ps) = C /\ Len(ps) >= C
    BY <1>0, <1>2, <1>7
  <2>1. x.limit = FALSE
    BY <1>c, <2>0
  <2>2. y = [x EXCEPT !.params = ps, !.limit = TRUE]
    BY <1>7, <1>d, <2>0, <2>1
  <2>3. y.params = ps /\ y.limit = TRUE
    BY <2>2 DEF Machine
  <2>4. (Before(t, Len(t) + 1) >= C) = TRUE
    BY <1>0, <1>2, <1>7
  <2> QED
    BY <1>1, <1>2, <1>7, <1>c, <2>3, <2>4
<1>8. CASE d + 1 < C /\ c \in Delimiter
  <2>0. (d >= C) = FALSE /\ Len(ps) = d + 1 /\ ~(Len(ps) >= C)
    BY <1>0, <1>2, <1>8
  <2>1. x.limit = FALSE
    BY <1>c, <2>0
  <2>2. y = [x EXCEPT !.params = Append(ps, Default)]
    BY <1>8, <1>d, <2>0, <2>1
  <2>3. y.params = Append(ps, Default) /\ y.limit = FALSE
    BY <2>1, <2>2 DEF Machine
  <2>4. (Before(t, Len(t) + 1) >= C) = FALSE
    BY <1>0, <1>2, <1>8
  <2> QED
    BY <1>1, <1>2, <1>8, <1>c, <2>3, <2>4
<1> QED
  BY <1>0, <1>5, <1>6, <1>7, <1>8, <1>a

\* VTIDBuilder::AddIntermediate reads one more character of the identifier.
LEMMA CollectReads ==
  ASSUME NEW x \in Machine, NEW b \in Seq(AllChars), NEW c \in Intermediates \cup PrivateMarkers,
         x.id = Identifier(b), NEW y, y = Collect(x, c)
  PROVE  y.id = Identifier(Append(b, c))
<1> DEFINE S == Intermediates \cup PrivateMarkers
           q == Only(b, S)
           r == Append(q, c)
           C == MaxCollect
           zeros == [i \in 1 .. C |-> "NUL"]
<1>0. c \in AllChars /\ C \in Nat /\ C >= 1
  BY ConstantsAssumption DEF AllChars
<1>1. q \in Seq(AllChars) /\ Only(Append(b, c), S) = r
  <2>1. c \in S
    OBVIOUS
  <2> HIDE DEF S
  <2> QED
    BY <1>0, <2>1, OnlyFurther
<1>2. Len(q) \in Nat /\ Len(r) = Len(q) + 1
  BY <1>0, <1>1
<1>3. x.id = IF Len(q) <= C THEN q ELSE zeros
  BY DEF Identifier
<1>4. Identifier(Append(b, c)) = IF Len(r) <= C THEN r ELSE zeros
  BY <1>1 DEF Identifier
<1>5. y.id = IF Len(x.id) < C THEN Append(x.id, c) ELSE [i \in DOMAIN x.id |-> "NUL"]
  BY DEF Collect, Machine
<1>6. Len(zeros) = C /\ DOMAIN zeros = 1 .. C
  BY <1>0
<1> HIDE DEF q, C, zeros
<1>7. CASE Len(q) < C
  BY <1>0, <1>2, <1>3, <1>4, <1>5, <1>7
<1>8. CASE Len(q) = C
  <2>1. x.id = q /\ ~(Len(x.id) < C) /\ DOMAIN q = 1 .. C
    BY <1>0, <1>1, <1>2, <1>3, <1>8
  <2>2. y.id = zeros
    BY <1>5, <2>1 DEF zeros
  <2> QED
    BY <1>0, <1>2, <1>4, <1>8, <2>2
<1>9. CASE Len(q) > C
  <2>1. x.id = zeros
    BY <1>0, <1>2, <1>3, <1>9
  <2>2. ~(Len(x.id) < C) /\ DOMAIN x.id = 1 .. C
    BY <1>0, <1>6, <2>1
  <2>3. y.id = zeros
    BY <1>5, <2>2 DEF zeros
  <2> QED
    BY <1>0, <1>2, <1>4, <1>9, <2>3
<1> QED
  BY <1>0, <1>2, <1>7, <1>8, <1>9

\* A sequence with parameters: what the machine has of its characters
HasRead(x, b) == Holds(x, b) /\ LimitHolds(x, b)

\* A machine that has nothing has read nothing.
LEMMA FreshReads ==
  ASSUME NEW x, Fresh(x)
  PROVE  HasRead(x, <<>>)
<1> DEFINE empty == <<>>
<1>1. \A S : Only(empty, S) = empty
  BY OnlyNothing
<1>2. MaxCollect \in Nat /\ MaxCount \in Nat /\ MaxCount >= 2 /\ Len(empty) = 0 /\ empty \in Seq(AllChars)
  BY ConstantsAssumption
<1>3. Identifier(empty) = empty
  BY <1>1, <1>2 DEF Identifier
<1>4. Parameters(empty) = empty
  BY <1>1 DEF Parameters, Fields
<1>5. Before(empty, Len(empty) + 1) = 0
  <2>1. 1 \in 1 .. Len(empty) + 1 /\ Len(empty) + 1 = 1
    BY <1>2
  <2> HIDE DEF empty
  <2> QED
    BY <1>2, <2>1, BeforeCounts
<1>6. (Before(empty, Len(empty) + 1) >= MaxCount) = FALSE
  BY <1>2, <1>5
<1>7. LimitHolds(x, empty)
  BY <1>1, <1>6 DEF LimitHolds, Fresh
<1> QED
  BY <1>3, <1>4, <1>7 DEF HasRead, Holds, Fresh

\* One more character of such a sequence
LEMMA ReadsFurther ==
  ASSUME NEW x \in Machine, NEW b \in Seq(AllChars), HasRead(x, b), NEW c, NEW y,
         \/ c \in Digits \cup Delimiter /\ y = Param(x, c)
         \/ c \in Intermediates \cup PrivateMarkers /\ y = Collect(x, c)
  PROVE  HasRead(y, Append(b, c))
<1> DEFINE S == Digits \cup Delimiter
           T == Intermediates \cup PrivateMarkers
           p == Only(b, S)
<1>0. S \subseteq AllChars /\ T \subseteq AllChars /\ S \cap T = {}
  BY DEF AllChars, Digits, Delimiter, Intermediates, PrivateMarkers
<1>1. ParamsHold(x, p) /\ x.id = Identifier(b)
  BY DEF HasRead, Holds, LimitHolds, Parameters, ParamsHold
<1>2. CASE c \in S /\ y = Param(x, c)
  <2> DEFINE q == Append(p, c)
  <2>1. p \in Seq(AllChars) /\ Only(Append(b, c), S) = q /\ Only(Append(b, c), T) = Only(b, T)
    <3>1. c \in AllChars /\ c \in S /\ c \notin T
      BY <1>0, <1>2
    <3> HIDE DEF S, T
    <3> QED
      BY <3>1, OnlyFurther
  <2>5. q = Append(p, c) /\ c \in Digits \cup Delimiter
    BY <1>2
  <2> HIDE DEF q, p
  <2>2. ParamsHold(y, q)
    BY <1>1, <1>2, <2>1, <2>5, ParamReads
  <2>3. y.id = x.id
    BY <1>2 DEF Param, Machine
  <2>4. Identifier(Append(b, c)) = Identifier(b)
    BY <2>1 DEF Identifier
  <2> QED
    BY <1>1, <2>1, <2>2, <2>3, <2>4 DEF HasRead, Holds, LimitHolds, Parameters, ParamsHold
<1>3. CASE c \in T /\ y = Collect(x, c)
  <2>1. Only(Append(b, c), S) = p
    <3>1. c \in AllChars /\ c \notin S
      BY <1>0, <1>3
    <3> HIDE DEF S, T
    <3> QED
      BY <3>1, OnlyFurther
  <2>2. y.id = Identifier(Append(b, c))
    BY <1>1, <1>3, CollectReads
  <2>3. y.params = x.params /\ y.limit = x.limit
    BY <1>3 DEF Collect, Machine
  <2> QED
    BY <1>1, <2>1, <2>2, <2>3 DEF HasRead, Holds, LimitHolds, Parameters, ParamsHold
<1> QED
  BY <1>2, <1>3
-----------------------------------------------------------------------------
(*****************************************************************************)
(* Where the sequence of a kind begins                                      *)
(*****************************************************************************)

\* An introducer
Start(s, introducers, k) ==
  \/ s[k] \in introducers \cap C1Controls
  \/ k > 1 /\ s[k - 1] = "ESC" /\ s[k] \in introducers

\* The k-th character is the last of the introducers.
LastStart(s, I, k) == Start(s, I, k) /\ \A i \in k + 1 .. Len(s) : ~Start(s, I, i)

\* What is behind it
LEMMA BehindLast ==
  ASSUME NEW s \in Seq(AllChars), NEW I, NEW k \in 1 .. Len(s), LastStart(s, I, k)
  PROVE  Behind(s, I) = SubSeq(s, k + 1, Len(s))
<1> DEFINE starts == {i \in DOMAIN s : Start(s, I, i)}
<1>0. Len(s) \in Nat /\ DOMAIN s = 1 .. Len(s)
  OBVIOUS
<1>1. k \in starts
  BY <1>0 DEF LastStart
<1>2. ASSUME NEW i \in starts PROVE k >= i
  <2>1. SUFFICES ASSUME i > k PROVE FALSE
    BY <1>0
  <2>2. i \in k + 1 .. Len(s)
    BY <1>0, <2>1
  <2> QED
    BY <2>2 DEF LastStart
<1> HIDE DEF starts
<1>3. Max(starts) = k
  <2>1. \E i \in starts : \A j \in starts : i >= j
    BY <1>1, <1>2
  <2>2. Max(starts) \in starts /\ \A j \in starts : Max(starts) >= j
    BY <2>1 DEF Max
  <2>3. Max(starts) >= k /\ k >= Max(starts) /\ Max(starts) \in Nat
    BY <1>0, <1>1, <1>2, <2>2 DEF starts
  <2> QED
    BY <1>0, <2>3
<1>4. Behind(s, I) = SubSeq(s, Max(starts) + 1, Len(s))
  BY DEF Behind, starts, Start
<1> QED
  BY <1>3, <1>4

\* An introducer behind which nothing is begun is the last one.
LEMMA OpenedLast ==
  ASSUME NEW s \in Seq(AllChars), NEW I, "ESC" \notin I, NEW k \in 1 .. Len(s), Opened(s, I, k)
  PROVE  LastStart(s, I, k)
<1>0. Len(s) \in Nat /\ s[k] # "ESC" /\ Start(s, I, k)
  BY DEF Opened, Start, C1Controls
<1>1. ASSUME NEW i \in k + 1 .. Len(s) PROVE ~Start(s, I, i)
  <2>1. i - 1 = k \/ i - 1 \in k + 1 .. Len(s)
    BY <1>0
  <2>2. s[i] \notin C1Controls /\ s[i - 1] # "ESC"
    BY <1>0, <2>1 DEF Opened
  <2> QED
    BY <2>2 DEF Start
<1> QED
  BY <1>0, <1>1 DEF LastStart

\* The end of a sequence of one more character
LEMMA SubSeqFurther ==
  ASSUME NEW s \in Seq(AllChars), NEW c \in AllChars, NEW t, t = Append(s, c), NEW k \in 1 .. Len(s)
  PROVE  /\ SubSeq(s, k + 1, Len(s)) \in Seq(AllChars)
         /\ SubSeq(t, k + 1, Len(t)) = Append(SubSeq(s, k + 1, Len(s)), c)
<1> DEFINE N == Len(s)
           j == N - k
           a == SubSeq(s, k + 1, N)
           b == SubSeq(t, k + 1, N + 1)
           r == Append(a, c)
<1>0. N \in Nat /\ j \in Nat /\ t \in Seq(AllChars) /\ Len(t) = N + 1 /\ t[N + 1] = c /\ \A n \in 1 .. N : t[n] = s[n]
  OBVIOUS
<1>1. a \in Seq(AllChars) /\ Len(a) = j /\ \A n \in 1 .. j : a[n] = s[k + n]
  BY <1>0
<1>2. b \in Seq(AllChars) /\ Len(b) = j + 1 /\ \A n \in 1 .. j + 1 : b[n] = t[k + n]
  BY <1>0
<1>3. k + (j + 1) = N + 1 /\ \A n \in 1 .. j : k + n \in 1 .. N
  BY <1>0
<1> HIDE DEF a, b, j
<1>4. r \in Seq(AllChars) /\ Len(r) = j + 1 /\ r[j + 1] = c /\ \A n \in 1 .. j : r[n] = a[n]
  BY <1>0, <1>1
<1> HIDE DEF r, N
<1>5. ASSUME NEW n \in 1 .. j + 1 PROVE b[n] = r[n]
  <2>1. CASE n = j + 1
    BY <1>0, <1>2, <1>3, <1>4, <2>1
  <2>2. CASE n # j + 1
    <3>1. n \in 1 .. j /\ k + n \in 1 .. N
      BY <1>0, <1>3, <2>2
    <3> QED
      BY <1>0, <1>1, <1>2, <1>4, <3>1
  <2> QED
    BY <2>1, <2>2
<1>6. b = r
  BY <1>2, <1>4, <1>5, SeqEqual
<1> QED
  BY <1>0, <1>1, <1>6 DEF a, b, r, N

OneMore(s, t, I, c) == Behind(s, I) \in Seq(AllChars) /\ Behind(t, I) = Append(Behind(s, I), c)

\* A character that introduces nothing is one more of the sequence.
LEMMA BehindFurther ==
  ASSUME NEW s \in Seq(AllChars), NEW I, "ESC" \notin I, NEW k \in 1 .. Len(s), Opened(s, I, k),
         NEW c \in AllChars \ C1Controls, NEW t, t = Append(s, c)
  PROVE  OneMore(s, t, I, c)
<1> DEFINE N == Len(s)
<1>0. /\ N \in Nat /\ t \in Seq(AllChars) /\ Len(t) = N + 1 /\ t[N + 1] = c /\ \A n \in 1 .. N : t[n] = s[n]
      /\ k \in 1 .. Len(t)
  OBVIOUS
<1>1. LastStart(s, I, k)
  BY OpenedLast
<1>2. Start(t, I, k)
  <2>1. t[k] = s[k] /\ (k > 1 => t[k - 1] = s[k - 1])
    BY <1>0
  <2> QED
    BY <1>1, <2>1 DEF LastStart, Start
<1>3. ASSUME NEW i \in k + 1 .. Len(t) PROVE ~Start(t, I, i)
  <2>1. CASE i = N + 1
    <3>1. t[i] \notin C1Controls /\ i - 1 = N /\ t[N] = s[N] /\ (N = k \/ N \in k + 1 .. Len(s))
      BY <1>0, <2>1
    <3>2. s[N] # "ESC"
      BY <3>1 DEF Opened, C1Controls
    <3> QED
      BY <3>1, <3>2 DEF Start
  <2>2. CASE i # N + 1
    <3>1. i \in k + 1 .. Len(s) /\ i \in 1 .. N /\ i - 1 \in 1 .. N
      BY <1>0, <2>2
    <3>2. ~Start(s, I, i) /\ t[i] = s[i] /\ t[i - 1] = s[i - 1]
      BY <1>0, <1>1, <3>1 DEF LastStart
    <3> QED
      BY <3>2 DEF Start
  <2> QED
    BY <2>1, <2>2
<1>4. LastStart(t, I, k)
  BY <1>2, <1>3 DEF LastStart
<1>5. Behind(s, I) = SubSeq(s, k + 1, Len(s)) /\ Behind(t, I) = SubSeq(t, k + 1, Len(t))
  BY <1>0, <1>1, <1>4, BehindLast
<1>6. c \in AllChars
  OBVIOUS
<1>7. /\ SubSeq(s, k + 1, Len(s)) \in Seq(AllChars)
      /\ SubSeq(t, k + 1, Len(t)) = Append(SubSeq(s, k + 1, Len(s)), c)
  BY <1>6, SubSeqFurther
<1> QED
  BY <1>5, <1>7 DEF OneMore

\* ... and unless it is an ESC the sequence is open still.
LEMMA OpenFurther ==
  ASSUME NEW s \in Seq(AllChars), NEW I, "ESC" \notin I, Open(s, I),
         NEW c \in AllChars \ C1Controls, NEW t, t = Append(s, c)
  PROVE  /\ Behind(s, I) \in Seq(AllChars) /\ Behind(t, I) = Append(Behind(s, I), c)
         /\ c # "ESC" => Open(t, I)
<1> DEFINE N == Len(s)
<1>1. PICK k \in 1 .. Len(s) : Opened(s, I, k)
  BY DEF Open
<1>0. N \in Nat /\ t \in Seq(AllChars) /\ Len(t) = N + 1 /\ t[N + 1] = c /\ \A n \in 1 .. N : t[n] = s[n]
  OBVIOUS
<1>2. k \in 1 .. Len(t) /\ t[k] = s[k] /\ (k > 1 => t[k - 1] = s[k - 1])
  BY <1>0
<1>3. ASSUME c # "ESC", NEW i \in k + 1 .. Len(t) PROVE t[i] \notin C1Controls \cup {"ESC"}
  <2>1. CASE i = N + 1
    BY <1>0, <1>3, <2>1
  <2>2. CASE i # N + 1
    <3>1. i \in k + 1 .. Len(s) /\ i \in 1 .. N
      BY <1>0, <2>2
    <3> QED
      BY <1>0, <1>1, <3>1 DEF Opened
  <2> QED
    BY <2>1, <2>2
<1>4. c # "ESC" => Opened(t, I, k)
  BY <1>1, <1>2, <1>3 DEF Opened
<1>5. OneMore(s, t, I, c)
  BY <1>1, BehindFurther
<1> QED
  BY <1>2, <1>4, <1>5 DEF Open, OneMore

\* A sequence that was just introduced has no characters yet.
LEMMA OpenFirst ==
  ASSUME NEW s \in Seq(AllChars), NEW I, "ESC" \notin I, NEW c \in I, c \in AllChars,
         c \in C1Controls \/ (s # <<>> /\ Last(s) = "ESC"), NEW t, t = Append(s, c)
  PROVE  Open(t, I) /\ Behind(t, I) = <<>>
<1> DEFINE k == Len(s) + 1
<1>0. Len(s) \in Nat /\ t \in Seq(AllChars) /\ Len(t) = k /\ t[k] = c /\ k \in 1 .. Len(t) /\ k \in Nat
      /\ \A n \in 1 .. Len(s) : t[n] = s[n]
  OBVIOUS
<1>1. s # <<>> /\ Last(s) = "ESC" => k > 1 /\ t[k - 1] = "ESC"
  <2>1. s # <<>> => Len(s) \in 1 .. Len(s) /\ k > 1 /\ k - 1 = Len(s)
    BY <1>0
  <2> QED
    BY <1>0, <2>1 DEF Last
<1>2. Opened(t, I, k)
  BY <1>0, <1>1 DEF Opened
<1>3. Behind(t, I) = SubSeq(t, k + 1, k)
  BY <1>0, <1>2, OpenedLast, BehindLast
<1>4. SubSeq(t, k + 1, k) = <<>>
  BY <1>0
<1> QED
  BY <1>0, <1>2, <1>3, <1>4 DEF Open
-----------------------------------------------------------------------------
(*****************************************************************************)
(* The number and the string of an OSC sequence                             *)
(*****************************************************************************)

\* The delimiters: the first one ends the number.
Cuts(b) == {k \in DOMAIN b : b[k] \in Delimiter}

\* There are delimiters where some are counted.
LEMMA CutsCounted ==
  ASSUME NEW b \in Seq(AllChars)
  PROVE  Before(b, Len(b) + 1) \in Nat /\ (Before(b, Len(b) + 1) = 0 <=> Cuts(b) = {})
<1> DEFINE T == {j \in 1 .. (Len(b) + 1) - 1 : b[j] \in Delimiter}
<1>0. Len(b) \in Nat /\ DOMAIN b = 1 .. Len(b)
  OBVIOUS
<1>1. T = Cuts(b) /\ Before(b, Len(b) + 1) = Cardinality(T)
  BY <1>0 DEF Cuts, Before
<1>2. IsFiniteSet(T)
  <2>1. IsFiniteSet(1 .. (Len(b) + 1) - 1)
    BY <1>0, FS_Interval
  <2> QED
    BY <2>1, FS_Subset
<1> HIDE DEF T
<1>3. Cardinality(T) \in Nat /\ (Cardinality(T) = 0 <=> T = {})
  BY <1>2, FS_CardinalityType, FS_EmptySet
<1> QED
  BY <1>1, <1>3

FirstCut(b, k) == k \in Cuts(b) /\ Min(Cuts(b)) = k

\* The first of them
LEMMA FirstCutFound ==
  ASSUME NEW b \in Seq(AllChars), NEW k \in Cuts(b), \A j \in Cuts(b) : k <= j
  PROVE  FirstCut(b, k)
<1>0. Cuts(b) \subseteq Nat
  BY DEF Cuts
<1>1. Min(Cuts(b)) \in Cuts(b) /\ \A j \in Cuts(b) : Min(Cuts(b)) <= j
  BY DEF Min
<1>2. Min(Cuts(b)) <= k /\ k <= Min(Cuts(b)) /\ k \in Nat /\ Min(Cuts(b)) \in Nat
  BY <1>0, <1>1
<1>3. Min(Cuts(b)) = k
  BY <1>2
<1> QED
  BY <1>3 DEF FirstCut

\* The first delimiter stays the first one.
LEMMA CutFurther ==
  ASSUME NEW b \in Seq(AllChars), NEW c \in AllChars, NEW t, t = Append(b, c)
  PROVE  /\ Before(b, Len(b) + 1) > 0 => \E k \in 1 .. Len(b) : FirstCut(b, k) /\ FirstCut(t, k)
         /\ Before(b, Len(b) + 1) = 0 /\ c \in Delimiter => FirstCut(t, Len(t))
<1> DEFINE N == Len(b)
<1>0. /\ N \in Nat /\ t \in Seq(AllChars) /\ Len(t) = N + 1 /\ t[N + 1] = c /\ \A n \in 1 .. N : t[n] = b[n]
      /\ DOMAIN b = 1 .. N /\ DOMAIN t = 1 .. N + 1
  OBVIOUS
<1>1. /\ Cuts(b) \subseteq 1 .. N /\ Cuts(b) \subseteq Cuts(t)
      /\ \A j \in Cuts(t) : j \in Cuts(b) \/ j = N + 1
      /\ c \in Delimiter => N + 1 \in Cuts(t)
  BY <1>0 DEF Cuts
<1>2. Before(b, N + 1) \in Nat /\ (Before(b, N + 1) = 0 <=> Cuts(b) = {})
  BY CutsCounted
<1>3. ASSUME Before(b, N + 1) > 0 PROVE \E k \in 1 .. N : FirstCut(b, k) /\ FirstCut(t, k)
  <2>1. Cuts(b) # {} /\ Cuts(b) \subseteq Nat
    BY <1>1, <1>2, <1>3
  <2>2. PICK k \in Cuts(b) : \A j \in Cuts(b) : k <= j
    BY <2>1, Least
  <2>3. k \in Cuts(t) /\ \A j \in Cuts(t) : k <= j
    BY <1>0, <1>1, <2>2
  <2> QED
    BY <1>0, <1>1, <2>2, <2>3, FirstCutFound
<1>4. ASSUME Before(b, N + 1) = 0, c \in Delimiter PROVE FirstCut(t, N + 1)
  <2>1. N + 1 \in Cuts(t) /\ \A j \in Cuts(t) : N + 1 <= j
    BY <1>0, <1>1, <1>2, <1>4
  <2> QED
    BY <1>0, <2>1, FirstCutFound
<1> QED
  BY <1>0, <1>3, <1>4

\* The number of an OSC sequence, in front of its delimiter
NumberHolds(x, b) == x.oscParam = Max({0, Field(b, 1)})

\* ... before the delimiter and behind it
OscBegun(x, b) == NumberHolds(x, b) /\ x.osc = <<>> /\ Before(b, Len(b) + 1) = 0
OscRead(x, b) == OscHolds(x, b) /\ Before(b, Len(b) + 1) > 0

\* The number is zero until there are digits.
LEMMA NumberIs ==
  ASSUME NEW b \in Seq(AllChars)
  PROVE  Max({0, Field(b, 1)}) = IF Field(b, 1) = Default THEN 0 ELSE Field(b, 1)
<1> DEFINE v == Field(b, 1)
<1>1. v \in Default .. MaxValue /\ MaxValue \in Nat /\ Default = -1
  BY FieldType, ConstantsAssumption DEF Default
<1> HIDE DEF v
<1>2. Max({0, v}) = IF 0 >= v THEN 0 ELSE v
  <2>1. 0 \in Int /\ v \in Int
    BY <1>1
  <2> QED
    BY <2>1, MinMaxOfTwo
<1>3. Max({0, v}) = IF v = Default THEN 0 ELSE v
  BY <1>1, <1>2
<1> QED
  BY <1>3 DEF v

\* A digit before the delimiter is added to the number; nothing else changes it.
LEMMA NumberFurther ==
  ASSUME NEW x, NEW b \in Seq(AllChars), NumberHolds(x, b), NEW c \in AllChars, NEW t, t = Append(b, c),
         NEW y,
         \/ c \in Digits /\ Before(b, Len(b) + 1) = 0 /\ y.oscParam = Accumulate(x.oscParam, c)
         \/ (c \notin Digits \/ Before(b, Len(b) + 1) > 0) /\ y.oscParam = x.oscParam
  PROVE  NumberHolds(y, t)
<1> DEFINE v == Field(b, 1)
           w == Field(t, 1)
           n == Before(b, Len(b) + 1)
           u == IF v = Default THEN 0 ELSE v
<1>0. t \in Seq(AllChars) /\ n \in Nat
  BY CutsCounted
<1>1. w = IF c \in Digits /\ n = 1 - 1 THEN Accumulate(u, c) ELSE v
  <2>1. \A k \in Int :
          Field(t, k) = IF c \in Digits /\ Before(b, Len(b) + 1) = k - 1
                          THEN Accumulate(IF Field(b, k) = Default THEN 0 ELSE Field(b, k), c)
                          ELSE Field(b, k)
    BY FieldFurther
  <2> QED
    BY <2>1
<1>2. Max({0, v}) = u /\ Max({0, w}) = IF w = Default THEN 0 ELSE w
  BY <1>0, NumberIs
<1>3. x.oscParam = u
  BY <1>2 DEF NumberHolds
<1>4. v \in Default .. MaxValue /\ MaxValue \in Nat /\ Default = -1
  BY FieldType, ConstantsAssumption DEF Default
<1> HIDE DEF v, w, n
<1>5. CASE c \in Digits /\ n = 0
  <2>1. y.oscParam = Accumulate(u, c) /\ w = Accumulate(u, c)
    BY <1>0, <1>1, <1>3, <1>5 DEF n
  <2>2. u \in 0 .. MaxValue /\ DigitValue[c] = 9
    BY <1>4, <1>5 DEF DigitValue
  <2> HIDE DEF u
  <2>3. Accumulate(u, c) # Default
    BY <1>4, <2>2 DEF Accumulate
  <2> QED
    BY <1>2, <2>1, <2>3 DEF NumberHolds, w
<1>6. CASE ~(c \in Digits /\ n = 0)
  <2>1. y.oscParam = x.oscParam /\ w = v
    BY <1>0, <1>1, <1>6 DEF n
  <2> QED
    BY <1>2, <1>3, <2>1 DEF NumberHolds, w
<1> QED
  BY <1>5, <1>6

\* A machine that has nothing has read nothing of it.
LEMMA OscFresh ==
  ASSUME NEW x, Fresh(x)
  PROVE  OscBegun(x, <<>>)
<1> DEFINE empty == <<>>
<1>0. empty \in Seq(AllChars) /\ Len(empty) = 0 /\ 1 \in 1 .. Len(empty) + 1 /\ Len(empty) + 1 = 1
  OBVIOUS
<1>2. x.osc = empty /\ x.oscParam = 0 /\ empty = <<>>
  BY DEF Fresh
<1> HIDE DEF empty
<1>1. Before(empty, Len(empty) + 1) = 0
  BY <1>0, BeforeCounts
<1>3. Field(empty, 1) = Default
  <2>1. \A k \in Int : empty = <<>> => Field(empty, k) = Default
    BY <1>0, FieldType
  <2> QED
    BY <1>2, <2>1
<1>4. NumberHolds(x, empty)
  BY <1>0, <1>2, <1>3, NumberIs DEF NumberHolds
<1> QED
  BY <1>1, <1>2, <1>4 DEF OscBegun

\* The string of an OSC sequence, behind its first delimiter
StringHolds(x, b) ==
  Only(x.osc, AllChars \ Delete) = Only(SubSeq(b, Min(Cuts(b)) + 1, Len(b)), AllChars \ {"ESC"})

\* _EventOscParam: one more character of the number, or the delimiter behind it
LEMMA OscBegunFurther ==
  ASSUME NEW x, NEW b \in Seq(AllChars), OscBegun(x, b), NEW c \in AllChars, NEW t, t = Append(b, c),
         NEW y, y.osc = x.osc,
         \/ c \in Digits /\ y.oscParam = Accumulate(x.oscParam, c)
         \/ c \notin Digits /\ y.oscParam = x.oscParam
  PROVE  IF c \in Delimiter THEN OscRead(y, t) ELSE OscBegun(y, t)
<1> DEFINE n == Before(b, Len(b) + 1)
<1>0. n = 0 /\ t \in Seq(AllChars) /\ NumberHolds(x, b) /\ y.osc = <<>> /\ Len(t) \in Nat
  BY DEF OscBegun
<1>1. NumberHolds(y, t)
  BY <1>0, NumberFurther
<1>2. Before(t, Len(t) + 1) = n + IF c \in Delimiter THEN 1 ELSE 0
  BY BeforeFurther
<1>3. CASE c \notin Delimiter
  <2>1. Before(t, Len(t) + 1) = 0
    BY <1>0, <1>2, <1>3
  <2> QED
    BY <1>0, <1>1, <1>3, <2>1 DEF OscBegun
<1>4. CASE c \in Delimiter
  <2>1. Before(t, Len(t) + 1) > 0
    BY <1>0, <1>2, <1>4
  <2>2. FirstCut(t, Len(t))
    BY <1>0, <1>4, CutFurther
  <2>3. SubSeq(t, Min(Cuts(t)) + 1, Len(t)) = <<>>
    <3>1. Min(Cuts(t)) = Len(t)
      BY <2>2 DEF FirstCut
    <3>2. SubSeq(t, Len(t) + 1, Len(t)) = <<>>
      BY <1>0
    <3> QED
      BY <3>1, <3>2
  <2>4. StringHolds(y, t)
    BY <1>0, <2>3, OnlyNothing DEF StringHolds
  <2> QED
    BY <1>1, <1>4, <2>1, <2>4 DEF OscRead, OscHolds, NumberHolds, StringHolds, Cuts
<1> QED
  BY <1>3, <1>4

\* _EventOscString: one more character of the string, which keeps a DEL, and which
\* the ESC of the terminator is not of
LEMMA OscReadFurther ==
  ASSUME NEW x \in Machine, NEW b \in Seq(AllChars), OscRead(x, b), NEW c \in AllChars \ Delete,
         NEW t, t = Append(b, c), NEW y, y.oscParam = x.oscParam,
         y.osc = IF c = "ESC" THEN x.osc ELSE Append(x.osc, c)
  PROVE  OscRead(y, t)
<1> DEFINE n == Before(b, Len(b) + 1)
           A == AllChars \ Delete
           B == AllChars \ {"ESC"}
<1>0. n > 0 /\ t \in Seq(AllChars) /\ NumberHolds(x, b) /\ StringHolds(x, b) /\ c \in AllChars
  BY DEF OscRead, OscHolds, NumberHolds, StringHolds, Cuts
<1>1. NumberHolds(y, t)
  BY <1>0, NumberFurther
<1>2. Before(t, Len(t) + 1) > 0
  <2>1. Before(t, Len(t) + 1) = n + IF c \in Delimiter THEN 1 ELSE 0
    BY <1>0, BeforeFurther
  <2>2. n \in Nat
    BY CutsCounted
  <2> QED
    BY <1>0, <2>1, <2>2
<1>3. PICK k \in 1 .. Len(b) : FirstCut(b, k) /\ FirstCut(t, k)
  BY <1>0, CutFurther
<1> DEFINE f == SubSeq(b, k + 1, Len(b))
           g == SubSeq(t, k + 1, Len(t))
<1>4. f \in Seq(AllChars) /\ g = Append(f, c)
  BY <1>0, SubSeqFurther
<1>5. Only(x.osc, A) = Only(f, B)
  BY <1>0, <1>3 DEF StringHolds, FirstCut
<1>6. x.osc \in Seq(AllChars) /\ c \in A /\ (c \in B <=> c # "ESC")
  BY <1>0 DEF Machine
<1> HIDE DEF f, g, A, B
<1>7. Only(g, B) = IF c = "ESC" THEN Only(f, B) ELSE Append(Only(f, B), c)
  BY <1>0, <1>4, <1>6, OnlyMore
<1>8. Only(y.osc, A) = IF c = "ESC" THEN Only(x.osc, A) ELSE Append(Only(x.osc, A), c)
  <2>1. Only(Append(x.osc, c), A) = Append(Only(x.osc, A), c)
    BY <1>0, <1>6, OnlyMore
  <2> QED
    BY <2>1
<1>9. Only(y.osc, A) = Only(g, B)
  BY <1>5, <1>7, <1>8
<1>10. StringHolds(y, t)
  BY <1>3, <1>9 DEF StringHolds, FirstCut, A, B, g
<1> QED
  BY <1>1, <1>2, <1>10 DEF OscRead, OscHolds, NumberHolds, StringHolds, Cuts

\* The parser's string keeps a DEL.
LEMMA OscKeepsDelete ==
  ASSUME NEW x \in Machine, NEW b, OscRead(x, b), NEW c \in Delete,
         NEW y, y.oscParam = x.oscParam, y.osc = Append(x.osc, c)
  PROVE  OscRead(y, b)
<1> DEFINE A == AllChars \ Delete
<1>0. x.osc \in Seq(AllChars) /\ c \in AllChars /\ c \notin A
  BY DEF Machine, AllChars
<1> HIDE DEF A
<1>1. Only(y.osc, A) = Only(x.osc, A)
  BY <1>0, OnlyFurther
<1> QED
  BY <1>1 DEF OscRead, OscHolds, A
-----------------------------------------------------------------------------
(***************************************************************************)
(* The data of a sequence, and what the engine is told with it              *)
(***************************************************************************)


\* The calls that y has and x has not are of the kinds K.
Says(x, y, K) ==
  \A i \in DOMAIN y.calls : (i \in DOMAIN x.calls /\ y.calls[i] = x.calls[i]) \/ y.calls[i].kind \in K

Leaves(x, y, K) == y \in Machine /\ SameBook(x, y) /\ y.state = x.state /\ Says(x, y, K)

\* Where the calls are the same none is new.
LEMMA SaysNothing ==
  ASSUME NEW x, NEW y, y.calls = x.calls, NEW K
  PROVE  Says(x, y, K)
  BY DEF Says

\* Two parts of a step make the calls of both.
LEMMA SaysTwice ==
  ASSUME NEW x, NEW y, NEW z, NEW K, NEW L, NEW M, Says(x, y, K), Says(y, z, L), K \subseteq M, L \subseteq M
  PROVE  Says(x, z, M)
<1> SUFFICES ASSUME NEW i \in DOMAIN z.calls
             PROVE  (i \in DOMAIN x.calls /\ z.calls[i] = x.calls[i]) \/ z.calls[i].kind \in M
  BY DEF Says
<1>1. CASE z.calls[i].kind \in L
  BY <1>1
<1>2. CASE i \in DOMAIN y.calls /\ z.calls[i] = y.calls[i]
  BY <1>2 DEF Says
<1> QED
  BY <1>1, <1>2 DEF Says

\* ... and leave what both leave.
LEMMA LeavesTwice ==
  ASSUME NEW x, NEW y, NEW z, NEW K, NEW L, NEW M, Leaves(x, y, K), Leaves(y, z, L), K \subseteq M, L \subseteq M
  PROVE  Leaves(x, z, M)
<1>1. Says(x, z, M)
  BY SaysTwice DEF Leaves
<1> QED
  BY <1>1 DEF Leaves, SameBook

\* A call is one more.
LEMMA CallLeaves ==
  ASSUME NEW x \in Machine, NEW kind \in CallKinds, NEW arg \in Seq(AllChars), NEW y, y = Call(x, kind, arg)
  PROVE  Leaves(x, y, {kind})
<1> DEFINE e == [kind |-> kind, arg |-> arg]
           n == Len(x.calls)
<1>1. y \in Machine /\ y.state = x.state /\ y.calls = Append(x.calls, e)
  BY CallFields
<1>2. SameBook(x, y)
  BY DEF Call, Machine, SameBook
<1>3. e.kind = kind
  OBVIOUS
<1>4. n \in Nat /\ DOMAIN x.calls = 1 .. n /\ x.calls \in Seq(Calls)
  BY CallLengths
<1> HIDE DEF e
<1>5. DOMAIN y.calls = 1 .. n + 1 /\ y.calls[n + 1] = e /\ \A i \in 1 .. n : y.calls[i] = x.calls[i]
  BY <1>1, <1>4
<1>6. Says(x, y, {kind})
  <2> SUFFICES ASSUME NEW i \in 1 .. n + 1
               PROVE  (i \in 1 .. n /\ y.calls[i] = x.calls[i]) \/ y.calls[i].kind \in {kind}
    BY <1>4, <1>5 DEF Says
  <2>1. CASE i = n + 1
    BY <1>3, <1>5, <2>1
  <2>2. CASE i # n + 1
    BY <1>4, <1>5, <2>2
  <2> QED
    BY <2>1, <2>2
<1> QED
  BY <1>1, <1>2, <1>6 DEF Leaves

\* FlushToTerminal leaves the data as well.
LEMMA FlushLeaves ==
  ASSUME NEW x \in Machine, NEW y, y = FlushToTerminal(x)
  PROVE  Leaves(x, y, {"pass"})
<1> DEFINE arg == x.cached \o x.run
           w == Call(x, "pass", arg)
<1>1. arg \in Seq(AllChars)
  <2>1. x.cached \in Seq(AllChars) /\ x.run \in Seq(AllChars)
    BY ConstantsAssumption DEF Machine
  <2> QED
    BY <2>1
<1>2. "pass" \in CallKinds
  BY DEF CallKinds
<1>4. y = [w EXCEPT !.cached = <<>>]
  BY DEF FlushToTerminal
<1> HIDE DEF arg
<1>3. Leaves(x, w, {"pass"}) /\ w \in Machine
  BY <1>1, <1>2, CallLeaves DEF Leaves
<1> HIDE DEF w
<1>5. y \in Machine
  <2>0. <<>> \in Seq(Chars)
    OBVIOUS
  <2> QED
    BY <1>3, <1>4, <2>0 DEF Machine
<1>6. SameBook(w, y) /\ y.state = w.state /\ y.calls = w.calls
  BY <1>3, <1>4 DEF Machine, SameBook
<1> QED
  BY <1>3, <1>5, <1>6 DEF Leaves, SameBook, Says

\* A call, and what the engine may want passed through behind it
LEMMA CallThenFlushLeaves ==
  ASSUME NEW x \in Machine, NEW kind \in CallKinds, NEW c \in AllChars, NEW y,
         y = Call(x, kind, <<c>>) \/ y = FlushToTerminal(Call(x, kind, <<c>>))
  PROVE  Leaves(x, y, {kind, "pass"})
<1> DEFINE arg == <<c>>
           w == Call(x, kind, arg)
<1>1. arg \in Seq(AllChars) /\ (y = w \/ y = FlushToTerminal(w))
  BY OneChar
<1> HIDE DEF arg
<1>2. Leaves(x, w, {kind}) /\ w \in Machine
  BY <1>1, CallLeaves DEF Leaves
<1>3. Leaves(w, w, {"pass"})
  BY <1>2, SaysNothing DEF Leaves, SameBook
<1> HIDE DEF w
<1>4. Leaves(w, y, {"pass"})
  BY <1>1, <1>2, <1>3, FlushLeaves
<1>5. {kind} \subseteq {kind, "pass"} /\ {"pass"} \subseteq {kind, "pass"}
  OBVIOUS
<1> QED
  BY <1>2, <1>4, <1>5, LeavesTwice

\* _ActionXxxDispatch
LEMMA DispatchLeaves ==
  ASSUME NEW x \in Machine, NEW kind \in CallKinds, NEW c \in AllChars, NEW ok,
         NEW y, y = Dispatch(x, kind, c, ok)
  PROVE  Leaves(x, y, {kind, "pass"})
<1>1. y = Call(x, kind, <<c>>) \/ y = FlushToTerminal(Call(x, kind, <<c>>))
  BY DEF Dispatch
<1> QED
  BY <1>1, CallThenFlushLeaves

\* _ActionExecute
LEMMA ExecuteLeaves ==
  ASSUME NEW x \in Machine, NEW c \in AllChars, NEW ok, NEW y, y = Execute(x, c, ok)
  PROVE  Leaves(x, y, {"execute", "pass"})
<1>1. y = Call(x, "execute", <<c>>) \/ y = FlushToTerminal(Call(x, "execute", <<c>>))
  BY DEF Execute
<1>2. "execute" \in CallKinds
  BY DEF CallKinds
<1> QED
  BY <1>1, <1>2, CallThenFlushLeaves

\* _ActionInterrupt
LEMMA InterruptLeaves ==
  ASSUME NEW x \in Machine, NEW y, y = Interrupt(x)
  PROVE  Leaves(x, y, {"dcsPut"})
<1> DEFINE arg == <<"ESC">>
           w == Call(x, "dcsPut", arg)
<1>1. arg \in Seq(AllChars) /\ "dcsPut" \in CallKinds /\ (y = x \/ y = [w EXCEPT !.handler = FALSE])
  BY DEF AllChars, CallKinds, Interrupt
<1> HIDE DEF arg
<1>2. Leaves(x, w, {"dcsPut"}) /\ w \in Machine
  BY <1>1, CallLeaves DEF Leaves
<1> HIDE DEF w
<1>3. CASE y = x
  BY <1>3, SaysNothing DEF Leaves, SameBook
<1>4. CASE y = [w EXCEPT !.handler = FALSE]
  <2>1. y \in Machine
    BY <1>2, <1>4 DEF Machine
  <2>2. SameBook(w, y) /\ y.state = w.state /\ y.calls = w.calls
    BY <1>2, <1>4 DEF Machine, SameBook
  <2> QED
    BY <1>2, <2>1, <2>2 DEF Leaves, SameBook, Says
<1> QED
  BY <1>1, <1>3, <1>4

\* _EnterXxx clears the data behind an introducer, and only there.
LEMMA EnterBook ==
  ASSUME NEW y \in Machine, NEW s, NEW z, z = Enter(y, s)
  PROVE  /\ z.state = s /\ z.calls = y.calls
         /\ s \notin Entries => SameBook(y, z)
         /\ s \in Entries => Fresh(z)
<1> DEFINE w == IF s \in Entries THEN Clear(y) ELSE y
<1>1. z = [w EXCEPT !.state = s, !.cached = IF s = "Ground" THEN <<>> ELSE w.cached]
  BY DEF Enter, Entries, Clear, Machine
<1>2. CASE s \in Entries
  <2>1. w = Clear(y)
    BY <1>2
  <2>2. z.state = s /\ z.calls = y.calls
    BY <1>1, <2>1 DEF Clear, Machine
  <2>3. Fresh(z)
    <3>1. w.params = <<>> /\ w.id = <<>> /\ w.osc = <<>> /\ w.oscParam = 0
      BY <2>1 DEF Clear, Machine
    <3>2. w.limit = FALSE
      BY <2>1 DEF Clear, Machine
    <3>3. w \in Machine
      <4>1. <<>> \in Seq(AllChars) /\ <<>> \in Seq(AllChars \cup {"NUL"})
            /\ <<>> \in Seq(Default .. MaxValue) /\ 0 \in 0 .. MaxValue
        BY ConstantsAssumption
      <4> QED
        BY <2>1, <4>1 DEF Clear, Machine
    <3> HIDE DEF w
    <3>4. SameBook(w, z)
      BY <1>1, <3>3 DEF Machine, SameBook
    <3> QED
      BY <3>1, <3>2, <3>4 DEF Fresh, SameBook
  <2> QED
    BY <1>2, <2>2, <2>3
<1>3. CASE s \notin Entries
  <2>1. w = y
    BY <1>3
  <2>2. z.state = s /\ z.calls = y.calls
    BY <1>1, <2>1 DEF Machine
  <2>3. SameBook(y, z)
    BY <1>1, <2>1 DEF Machine, SameBook
  <2> QED
    BY <1>3, <2>2, <2>3
<1> QED
  BY <1>2, <1>3

\* What is told with the data S of a sequence, or without any
Speaks(x, y, S) ==
  \A i \in DOMAIN y.calls :
    (i \in DOMAIN x.calls /\ y.calls[i] = x.calls[i]) \/ Matches(y, S, y.calls[i].kind)

NoData == CallKinds \ DataKinds

\* A call of another kind says nothing of the data.
LEMMA SpeaksOfNothing ==
  ASSUME NEW x, NEW y, Says(x, y, NoData), NEW S
  PROVE  Speaks(x, y, S)
<1>1. \A kind \in NoData : Matches(y, S, kind)
  BY DEF NoData, DataKinds, Matches
<1> QED
  BY <1>1 DEF Says, Speaks

\* A dispatch with the data of the sequence
LEMMA SpeaksOfData ==
  ASSUME NEW x, NEW y, NEW kind, Says(x, y, {kind, "pass"}), NEW S, Matches(y, S, kind)
  PROVE  Speaks(x, y, S)
<1>1. Matches(y, S, "pass")
  BY DEF Matches
<1> QED
  BY <1>1 DEF Says, Speaks

\* Fewer kinds
LEMMA SaysMore ==
  ASSUME NEW x, NEW y, NEW K, NEW L, Says(x, y, K), K \subseteq L
  PROVE  Says(x, y, L)
  BY DEF Says

\* _ActionDcsDispatch
LEMMA DcsDispatchBook ==
  ASSUME NEW x \in Machine, NEW c \in AllChars, NEW ok \in BOOLEAN, NEW y, y = DcsDispatch(x, c, ok)
  PROVE  SameBook(x, y) /\ Says(x, y, {"dcs", "pass"}) /\ y.state \in DcsStrings
<1> DEFINE arg == <<c>>
           u == Call(x, "dcs", arg)
           w == [u EXCEPT !.handler = ok]
           s == IF ok THEN "DcsPassThrough" ELSE "DcsIgnore"
<1>1. arg \in Seq(AllChars) /\ "dcs" \in CallKinds /\ y = Enter(w, s) /\ s \in DcsStrings /\ s \notin Entries
  BY OneChar DEF CallKinds, DcsDispatch, DcsStrings, Entries
<1> HIDE DEF arg
<1>2. Leaves(x, u, {"dcs"}) /\ u \in Machine
  BY <1>1, CallLeaves DEF Leaves
<1> HIDE DEF u, s
<1>3. w \in Machine
  BY <1>2 DEF Machine
<1>4. SameBook(u, w) /\ w.calls = u.calls
  BY <1>2 DEF Machine, SameBook
<1> HIDE DEF w
<1>5. y.state = s /\ y.calls = w.calls /\ SameBook(w, y)
  BY <1>1, <1>3, EnterBook
<1>6. SameBook(x, y)
  BY <1>2, <1>4, <1>5 DEF SameBook, Leaves
<1>7. Says(x, y, {"dcs", "pass"})
  BY <1>2, <1>4, <1>5 DEF Says, Leaves
<1> QED
  BY <1>1, <1>5, <1>6, <1>7

\* The handler of a DCS string
LEMMA DcsPutSays ==
  ASSUME NEW x \in Machine, x.state = "DcsPassThrough", NEW c \in AllChars, NEW ok,
         NEW y, y = DcsPut(x, c, ok)
  PROVE  Says(x, y, NoData) /\ y.state \in DcsStrings
<1> DEFINE arg == <<c>>
           u == Call(x, "dcsPut", arg)
<1>1. arg \in Seq(AllChars) /\ "dcsPut" \in CallKinds /\ (y = u \/ y = Enter(u, "DcsIgnore"))
      /\ {"dcsPut"} \subseteq NoData
  BY OneChar DEF CallKinds, DcsPut, NoData, DataKinds
<1> HIDE DEF arg
<1>2. Leaves(x, u, {"dcsPut"}) /\ u \in Machine
  BY <1>1, CallLeaves DEF Leaves
<1> HIDE DEF u
<1>3. y.calls = u.calls /\ y.state \in DcsStrings
  BY <1>1, <1>2, EnterBook DEF Leaves, DcsStrings
<1>4. Says(x, u, NoData)
  BY <1>1, <1>2, SaysMore DEF Leaves
<1> QED
  BY <1>3, <1>4 DEF Says

\* _EventVt52Param
LEMMA Vt52PutSays ==
  ASSUME NEW x, Sound(x), x.state = "Vt52Param", NEW c \in AllChars, NEW ok \in BOOLEAN,
         NEW y, y = Vt52Put(x, c, ok)
  PROVE  Says(x, y, NoData) /\ y.state \in {"Vt52Param", "Ground"}
<1> DEFINE w == [x EXCEPT !.params = Append(x.params, 0)]
           d == Dispatch(w, "vt52", "Y", ok)
<1>0. x \in Machine /\ "vt52" \in CallKinds /\ "Y" \in AllChars /\ {"vt52", "pass"} \subseteq NoData
  BY SoundBasics DEF CallKinds, AllChars, Unaddressed, NoData, DataKinds
<1>1. y = w \/ y = Enter(d, "Ground")
  BY <1>0 DEF Vt52Put, Machine
<1>2. Append(x.params, 0) \in Seq(Default .. MaxValue)
  <2>1. x.params \in Seq(Default .. MaxValue) /\ 0 \in Default .. MaxValue
    BY <1>0, ConstantsAssumption DEF Machine, Default
  <2> QED
    BY <2>1
<1>3. w \in Machine
  BY <1>0, <1>2 DEF Machine
<1>4. w.calls = x.calls /\ w.state = x.state
  BY <1>0 DEF Machine
<1> HIDE DEF w
<1>5. Leaves(w, d, {"vt52", "pass"}) /\ d \in Machine
  BY <1>0, <1>3, DispatchLeaves DEF Leaves
<1> HIDE DEF d
<1>6. Says(w, d, NoData)
  BY <1>0, <1>5, SaysMore DEF Leaves
<1>7. CASE y = w
  BY <1>4, <1>7, SaysNothing
<1>8. CASE y = Enter(d, "Ground")
  <2>1. y.calls = d.calls /\ y.state = "Ground"
    BY <1>5, <1>8, EnterBook
  <2> QED
    BY <1>4, <1>6, <2>1 DEF Says
<1> QED
  BY <1>1, <1>7, <1>8

Tells(a, x, y) ==
  /\ a \notin DataKinds => Says(x, y, NoData)
  /\ a \in DataKinds => Says(x, y, {a, "pass"}) /\ SameBook(x, y)
  /\ a \in {"Ignore", "Print", "Execute"} => SameBook(x, y)
  /\ a \in {"dcs", "DcsPut"} => y.state \in DcsStrings
  /\ a = "Vt52Put" => y.state \in {"Vt52Param", "Ground"}
  /\ a \notin Entering => y \in Machine /\ Bounded(y) /\ y.state = x.state

\* What each action tells the engine
LEMMA ActSays ==
  ASSUME NEW x, Sound(x), NEW c \in AllChars, NEW ok \in BOOLEAN, NEW a \in Actions,
         a = "Param" => c \in Digits \cup Delimiter, a = "OscParam" => c \in Digits,
         a = "DcsPut" => x.state = "DcsPassThrough", a = "Vt52Put" => x.state = "Vt52Param",
         NEW y, y = Act(a, x, c, ok)
  PROVE  Tells(a, x, y)
<1>0. x \in Machine /\ Bounded(x)
  BY SoundBasics
<1>a. a \notin Entering => y \in Machine /\ Bounded(y) /\ y.state = x.state
  <2>1. a \notin Entering => a \in Actions \ Entering
    OBVIOUS
  <2> QED
    BY <1>0, <2>1, ActSteps DEF Stepped, Acted
<1>1. CASE a = "Ignore"
  <2>1. y = x
    BY <1>1 DEF Act
  <2> QED
    BY <1>a, <1>1, <2>1, SaysNothing DEF Tells, SameBook, DataKinds
<1>2. CASE a = "Print"
  <2> DEFINE arg == <<c>>
  <2>1. y = Call(x, "print", arg) /\ arg \in Seq(AllChars) /\ "print" \in CallKinds /\ {"print"} \subseteq NoData
    BY <1>2, OneChar DEF Act, CallKinds, NoData, DataKinds
  <2> HIDE DEF arg
  <2>2. Leaves(x, y, {"print"})
    BY <1>0, <2>1, CallLeaves
  <2>3. Says(x, y, NoData)
    BY <2>1, <2>2, SaysMore DEF Leaves
  <2> QED
    BY <1>a, <1>2, <2>2, <2>3 DEF Tells, Leaves, DataKinds
<1>3. CASE a = "Execute"
  <2>1. y = Execute(x, c, ok) /\ {"execute", "pass"} \subseteq NoData
    BY <1>3 DEF Act, CallKinds, NoData, DataKinds
  <2>2. Leaves(x, y, {"execute", "pass"})
    BY <1>0, <2>1, ExecuteLeaves
  <2>3. Says(x, y, NoData)
    BY <2>1, <2>2, SaysMore DEF Leaves
  <2> QED
    BY <1>a, <1>3, <2>2, <2>3 DEF Tells, Leaves, DataKinds
<1>4. CASE a \in {"Collect", "Param", "OscParam", "OscPut"}
  <2>1. y.calls = x.calls
    <3>1. CASE a = "Collect"
      BY <1>0, <3>1 DEF Act, Collect, Machine
    <3>2. CASE a = "Param"
      BY <1>0, <3>2 DEF Act, Param, Machine
    <3>3. CASE a \in {"OscParam", "OscPut"}
      BY <1>0, <3>3 DEF Act, Machine
    <3> QED
      BY <1>4, <3>1, <3>2, <3>3
  <2> QED
    BY <1>a, <1>4, <2>1, SaysNothing DEF Tells, DataKinds
<1>5. CASE a = "DcsPut"
  <2>1. y = DcsPut(x, c, ok)
    BY <1>5 DEF Act
  <2>2. Says(x, y, NoData) /\ y.state \in DcsStrings
    BY <1>0, <1>5, <2>1, DcsPutSays
  <2> QED
    BY <1>5, <2>2 DEF Tells, DataKinds, Entering
<1>6. CASE a = "Vt52Put"
  <2>1. y = Vt52Put(x, c, ok)
    BY <1>6 DEF Act
  <2>2. Says(x, y, NoData) /\ y.state \in {"Vt52Param", "Ground"}
    BY <1>6, <2>1, Vt52PutSays
  <2> QED
    BY <1>6, <2>2 DEF Tells, DataKinds, Entering
<1>7. CASE a = "dcs"
  <2>1. y = DcsDispatch(x, c, ok)
    BY <1>7 DEF Act
  <2>2. SameBook(x, y) /\ Says(x, y, {"dcs", "pass"}) /\ y.state \in DcsStrings
    BY <1>0, <2>1, DcsDispatchBook
  <2> QED
    BY <1>7, <2>2 DEF Tells, DataKinds, Entering
<1>8. CASE a \in {"executeEscape", "esc", "vt52", "csi", "osc", "ss3"}
  <2>1. y = Dispatch(x, a, c, ok) /\ a \in CallKinds
    BY <1>8 DEF Act, CallKinds
  <2>2. Leaves(x, y, {a, "pass"})
    BY <1>0, <2>1, DispatchLeaves
  <2>3. a \notin DataKinds => {a, "pass"} \subseteq NoData
    BY <2>1 DEF NoData, DataKinds, CallKinds
  <2>4. a \notin DataKinds => Says(x, y, NoData)
    BY <2>2, <2>3, SaysMore DEF Leaves
  <2> QED
    BY <1>a, <1>8, <2>2, <2>4 DEF Tells, Leaves
<1> QED
  BY <1>1, <1>2, <1>3, <1>4, <1>5, <1>6, <1>7, <1>8 DEF Actions
-----------------------------------------------------------------------------
(***************************************************************************)
(* The data in each state                                                   *)
(***************************************************************************)

Happens(x, c, ok, y, a, t, done) ==
  /\ Fits(x.ansi, x.state, c, a, t) /\ done = Act(a, x, c, ok) /\ Tells(a, x, done)
  /\ t = Stay => y = done
  /\ t # Stay => /\ y.state = t /\ y.calls = done.calls
                 /\ t \notin Entries => SameBook(done, y)
                 /\ t \in Entries => Fresh(y)

\* _EventXxx: an action, and the state that is entered
LEMMA EventHappens ==
  ASSUME NEW x, Sound(x), NEW c \in AllChars, NEW ok \in BOOLEAN,
         x.state = "OscTermination" => c = "BACKSLASH", NEW y, y = Event(x, c, ok)
  PROVE  \E a, t, done : Happens(x, c, ok, y, a, t, done)
<1> DEFINE a == Row(x.ansi, x.state, c)[2]
           t == Row(x.ansi, x.state, c)[3]
           done == Act(a, x, c, ok)
<1>0. x \in Machine /\ Bounded(x) /\ x.state \in States /\ x.ansi \in BOOLEAN
  BY SoundBasics
<1>1. Fits(x.ansi, x.state, c, a, t)
  BY <1>0, TableFits DEF Row
<1>2. y = IF t = Stay THEN done ELSE Enter(done, t)
  BY DEF Event, Row
<1>3. done = Act(a, x, c, ok)
  OBVIOUS
<1> HIDE DEF a, t, done
<1>4. /\ a \in Actions /\ (a = "Param" => c \in Digits \cup Delimiter) /\ (a = "OscParam" => c \in Digits)
      /\ (a = "DcsPut" => x.state = "DcsPassThrough") /\ (a = "Vt52Put" => x.state = "Vt52Param")
      /\ (t # Stay => a \notin Entering)
  BY <1>1 DEF Fits, Entering
<1>5. Tells(a, x, done)
  BY <1>3, <1>4, ActSays
<1>6. ASSUME t # Stay
      PROVE  /\ y.state = t /\ y.calls = done.calls
             /\ t \notin Entries => SameBook(done, y)
             /\ t \in Entries => Fresh(y)
  <2>1. y = Enter(done, t) /\ done \in Machine
    BY <1>2, <1>4, <1>5, <1>6 DEF Tells
  <2> QED
    BY <2>1, EnterBook
<1>7. Happens(x, c, ok, y, a, t, done)
  BY <1>1, <1>2, <1>3, <1>5, <1>6 DEF Happens
<1> QED
  BY <1>7

\* In the states without data the machine tells of none, and comes to no other state.
LEMMA EventOther ==
  ASSUME NEW x, Sound(x), NEW c \in AllChars, NEW ok \in BOOLEAN, x.state \notin Attentive,
         NEW y, y = Event(x, c, ok)
  PROVE  y.state \notin Attentive /\ Says(x, y, NoData)
<1>1. PICK a, t, done : Happens(x, c, ok, y, a, t, done)
  BY EventHappens DEF Attentive
<1>2. Fits(x.ansi, x.state, c, a, t) /\ Tells(a, x, done)
  BY <1>1 DEF Happens
<1>3. Leads(x.state, c, a, t) /\ a \in Actions
  BY <1>2 DEF Fits
<1>4. a \notin DataKinds /\ t \notin Attentive
  BY <1>3 DEF Leads
<1>5. Says(x, done, NoData)
  BY <1>2, <1>4 DEF Tells
<1>6. CASE t = Stay
  <2>1. y = done
    BY <1>1, <1>6 DEF Happens
  <2>2. done.state \notin Attentive
    BY <1>2, <1>4 DEF Tells, Entering, DcsStrings, Attentive
  <2> QED
    BY <1>5, <2>1, <2>2
<1>7. CASE t # Stay
  <2>1. y.state = t /\ y.calls = done.calls
    BY <1>1, <1>7 DEF Happens
  <2> QED
    BY <1>4, <1>5, <2>1 DEF Says
<1> QED
  BY <1>6, <1>7

\* The sequence without what may be anywhere in it, one character later
Heard(S, c) == IF c \in C0Codes \cup Delete THEN S ELSE Append(S, c)

\* What a character comes to
Goes(x, y, S, T) == Reads(y, T) /\ Speaks(x, y, S)

\* In a state without data there is nothing to know.
LEMMA ReadsNothing ==
  ASSUME NEW x, x.state \notin Attentive, NEW S
  PROVE  Reads(x, S)
<1>1. /\ x.state # "Escape" /\ Reading(x.state) = "none" /\ x.state # "OscParam"
      /\ x.state \notin {"OscString", "OscTermination"}
  BY DEF Attentive, Reading
<1> QED
  BY <1>1 DEF Reads

\* The same data in the same state
LEMMA ReadsSame ==
  ASSUME NEW x, NEW y, SameBook(x, y), y.state = x.state, NEW S, Reads(x, S)
  PROVE  Reads(y, S)
<1>1. Fresh(x) => Fresh(y)
  BY DEF Fresh, SameBook
<1>2. \A b : Holds(x, b) /\ LimitHolds(x, b) => Holds(y, b) /\ LimitHolds(y, b)
  BY DEF Holds, LimitHolds, SameBook
<1>3. \A b : OscHolds(x, b) => OscHolds(y, b)
  BY DEF OscHolds, SameBook
<1>4. y.oscParam = x.oscParam /\ y.osc = x.osc
  BY DEF SameBook
<1> HIDE DEF Holds, LimitHolds, OscHolds, Fresh
<1> QED
  BY <1>1, <1>2, <1>3, <1>4 DEF Reads

Of(kind) == Introducers[kind]

\* Sequences with parameters: what Reads says of them
LEMMA ReadsParameters ==
  ASSUME NEW x, NEW S, Reading(x.state) # "none"
  PROVE  Reads(x, S) <=> Open(S, Of(Reading(x.state))) /\ HasRead(x, Behind(S, Of(Reading(x.state))))
<1>1. x.state # "Escape" /\ x.state # "OscParam" /\ x.state \notin {"OscString", "OscTermination"}
  BY DEF Reading
<1> QED
  BY <1>1 DEF Reads, HasRead, Of

\* ... of the number of an OSC sequence ...
LEMMA ReadsNumber ==
  ASSUME NEW x, NEW S, x.state = "OscParam"
  PROVE  Reads(x, S) <=> Open(S, Of("osc")) /\ OscBegun(x, Behind(S, Of("osc")))
<1>1. Reading(x.state) = "none"
  BY DEF Reading
<1> QED
  BY <1>1 DEF Reads, OscBegun, NumberHolds, Of

\* ... and of its string, up to the ESC of the terminator
LEMMA ReadsString ==
  ASSUME NEW x, NEW S, x.state \in {"OscString", "OscTermination"}
  PROVE  Reads(x, S) <=>
           \E t \in {S, Front(S)} :
             /\ S = IF x.state = "OscString" THEN t ELSE Append(t, "ESC")
             /\ Open(t, Of("osc")) /\ OscRead(x, Behind(t, Of("osc")))
<1>1. Reading(x.state) = "none" /\ x.state # "Escape" /\ x.state # "OscParam"
  BY DEF Reading
<1> QED
  BY <1>1 DEF Reads, OscRead, Of

\* (the ESC of the terminator is behind what was read)
LEMMA ReadsTerminator ==
  ASSUME NEW x, NEW S, NEW T, x.state = "OscTermination", T = Append(S, "ESC"), Front(T) = S,
         Open(S, Of("osc")), OscRead(x, Behind(S, Of("osc")))
  PROVE  Reads(x, T)
<1>1. \E t \in {T, Front(T)} :
         /\ T = IF x.state = "OscString" THEN t ELSE Append(t, "ESC")
         /\ Open(t, Of("osc")) /\ OscRead(x, Behind(t, Of("osc")))
  OBVIOUS
<1>2. Reading(x.state) = "none" /\ x.state # "Escape" /\ x.state # "OscParam"
  BY DEF Reading
<1> QED
  BY <1>1, <1>2 DEF Reads, OscRead, Of

\* Behind the ESC there is nothing of the sequence before.
LEMMA ReadsBegun ==
  ASSUME NEW x, NEW S, x.state = "Escape"
  PROVE  Reads(x, S) <=> Fresh(x) /\ S # <<>> /\ Last(S) = "ESC"
<1>1. Reading(x.state) = "none" /\ x.state # "OscParam" /\ x.state \notin {"OscString", "OscTermination"}
  BY DEF Reading
<1> QED
  BY <1>1 DEF Reads

\* The characters before the last one
LEMMA FrontOfMore ==
  ASSUME NEW E, NEW s \in Seq(E), NEW c \in E
  PROVE  Front(Append(s, c)) = s
<1> DEFINE t == Append(s, c)
           N == Len(s)
           r == SubSeq(t, 1, N)
<1>0. N \in Nat /\ t \in Seq(E) /\ Len(t) = N + 1 /\ \A n \in 1 .. N : t[n] = s[n]
  OBVIOUS
<1> HIDE DEF t
<1>1. r \in Seq(E) /\ Len(r) = N /\ \A n \in 1 .. N : r[n] = t[n]
  BY <1>0
<1>2. Front(t) = r
  BY <1>0 DEF Front
<1> HIDE DEF r, N
<1>3. Len(s) = N
  BY DEF N
<1>4. r = s
  BY <1>0, <1>1, <1>3, SeqEqual
<1> QED
  BY <1>2, <1>4 DEF t

\* They are a sequence, also if there are none.
LEMMA FrontType ==
  ASSUME NEW S \in Seq(AllChars)
  PROVE  Front(S) \in Seq(AllChars)
<1>1. Len(S) \in Nat /\ (S # <<>> => Len(S) >= 1)
  OBVIOUS
<1>2. S # <<>> => SubSeq(S, 1, Len(S) - 1) \in Seq(AllChars)
  BY <1>1
<1>3. S = <<>> => SubSeq(S, 1, Len(S) - 1) = <<>>
  BY <1>1
<1> QED
  BY <1>2, <1>3 DEF Front

\* The introducers are characters, and an ESC is none of them.
LEMMA IntroducersAre ==
  ASSUME NEW kind \in DataKinds
  PROVE  "ESC" \notin Of(kind) /\ Of(kind) \subseteq AllChars
  BY DEF DataKinds, Of, Introducers, AllChars, C1Controls, Unaddressed

\* A kind that a state reads is one of the kinds with parameters.
LEMMA ReadingKinds ==
  ASSUME NEW s, Reading(s) # "none"
  PROVE  Reading(s) \in {"csi", "ss3", "dcs"} /\ Reading(s) \in DataKinds
  BY DEF Reading, DataKinds

\* The states of sequences with parameters
LEMMA EventReading ==
  ASSUME NEW x, Sound(x), NEW c \in AllChars \ (C1Controls \cup {"ESC"}), NEW ok \in BOOLEAN,
         Reading(x.state) # "none", NEW S \in Seq(AllChars), Reads(x, S), NEW y, y = Event(x, c, ok)
  PROVE  Goes(x, y, S, Heard(S, c))
<1> DEFINE kind == Reading(x.state)
           I == Of(kind)
           b == Behind(S, I)
<1>0. x \in Machine /\ c \in AllChars /\ c \in AllChars \ C1Controls /\ kind \in {"csi", "ss3", "dcs"}
      /\ kind \in DataKinds /\ x.state # "OscTermination" /\ c # "ESC"
  BY SoundBasics, ReadingKinds DEF Reading
<1>1. PICK a, t, done : Happens(x, c, ok, y, a, t, done)
  BY <1>0, EventHappens
<1>2. Fits(x.ansi, x.state, c, a, t) /\ Tells(a, x, done) /\ done = Act(a, x, c, ok)
  BY <1>1 DEF Happens
<1>3. LeadsOn(x.state, c, a, t)
  <2>1. Leads(x.state, c, a, t)
    BY <1>2 DEF Fits
  <2> QED
    BY <2>1 DEF Leads
<1>4. Open(S, I) /\ HasRead(x, b) /\ "ESC" \notin I
  BY <1>0, ReadsParameters, IntroducersAre
<1> HIDE DEF kind, I, b
<1>5. CASE a \in {"Execute", "Ignore"} /\ t = Stay /\ c \in C0Codes \cup Delete
  <2>1. y = done /\ Heard(S, c) = S
    BY <1>1, <1>5 DEF Happens, Heard
  <2>2. Says(x, y, NoData) /\ SameBook(x, y) /\ y.state = x.state
    BY <1>2, <1>5, <2>1 DEF Tells, DataKinds, Entering
  <2> QED
    BY <2>1, <2>2, ReadsSame, SpeaksOfNothing DEF Goes
<1>6. CASE /\ \/ a = "Param" /\ c \in Digits \cup Delimiter
              \/ a = "Collect" /\ c \in Intermediates \cup PrivateMarkers
           /\ t = Stay \/ (Reading(t) = Reading(x.state) /\ t \notin {"CsiEntry", "Ss3Entry", "DcsEntry"})
  <2> DEFINE T == Append(S, c)
  <2>1. T = Append(S, c) /\ Heard(S, c) = T
    BY <1>6 DEF Heard, C0Codes, Delete, Digits, Delimiter, Intermediates, PrivateMarkers
  <2> HIDE DEF T
  <2>2. Open(T, I) /\ b \in Seq(AllChars) /\ Behind(T, I) = Append(b, c)
    BY <1>0, <1>4, <2>1, OpenFurther DEF b
  <2>3. \/ c \in Digits \cup Delimiter /\ done = Param(x, c)
        \/ c \in Intermediates \cup PrivateMarkers /\ done = Collect(x, c)
    BY <1>2, <1>6 DEF Act
  <2>4. HasRead(done, Behind(T, I))
    BY <1>0, <1>4, <2>2, <2>3, ReadsFurther
  <2>5. Says(x, done, NoData) /\ done.state = x.state
    BY <1>2, <1>6 DEF Tells, DataKinds, Entering
  <2>6. SameBook(done, y) /\ y.calls = done.calls /\ Reading(y.state) = kind
    <3>1. CASE t = Stay
      BY <1>1, <2>5, <3>1 DEF Happens, SameBook, kind
    <3>2. CASE t # Stay
      <4>1. t \notin Entries /\ Reading(t) = kind
        BY <1>6, <1>0, <3>2 DEF Entries, kind, Reading
      <4> QED
        BY <1>1, <3>2, <4>1 DEF Happens
    <3> QED
      BY <3>1, <3>2
  <2>7. HasRead(y, Behind(T, I))
    BY <2>4, <2>6 DEF HasRead, Holds, LimitHolds, SameBook
  <2>8. Reads(y, T)
    BY <1>0, <2>2, <2>6, <2>7, ReadsParameters DEF I
  <2>9. Says(x, y, NoData)
    BY <2>5, <2>6 DEF Says
  <2> QED
    BY <2>1, <2>8, <2>9, SpeaksOfNothing DEF Goes
<1>7. CASE a = "Ignore" /\ t \in {"CsiIgnore", "DcsIgnore"}
  <2>1. y.state = t /\ y.calls = done.calls
    BY <1>1, <1>7 DEF Happens, Stay
  <2>2. Says(x, done, NoData)
    BY <1>2, <1>7 DEF Tells, DataKinds
  <2>3. y.state \notin Attentive /\ Says(x, y, NoData)
    BY <1>7, <2>1, <2>2 DEF Attentive, Says
  <2> QED
    BY <2>3, ReadsNothing, SpeaksOfNothing DEF Goes
<1>8. CASE a = kind /\ t = IF a = "dcs" THEN Stay ELSE "Ground"
  <2>1. Says(x, done, {kind, "pass"}) /\ SameBook(x, done)
    BY <1>0, <1>2, <1>8 DEF Tells
  <2>2. SameBook(x, y) /\ y.calls = done.calls /\ y.state \notin Attentive
    <3>1. CASE kind = "dcs"
      <4>1. y = done /\ done.state \in DcsStrings
        BY <1>1, <1>2, <1>8, <3>1 DEF Happens, Tells
      <4> QED
        BY <2>1, <4>1 DEF DcsStrings, Attentive
    <3>2. CASE kind # "dcs"
      <4>1. t = "Ground" /\ t # Stay /\ t \notin Entries /\ t \notin Attentive
        BY <1>8, <3>2 DEF Stay, Entries, Attentive
      <4>2. y.state = t /\ y.calls = done.calls /\ SameBook(done, y)
        BY <1>1, <4>1 DEF Happens
      <4> QED
        BY <2>1, <4>1, <4>2 DEF SameBook
    <3> QED
      BY <3>1, <3>2
  <2>3. Matches(y, S, kind)
    <3>1. Holds(y, b)
      BY <1>4, <2>2 DEF HasRead, Holds, SameBook
    <3> QED
      BY <1>0, <3>1 DEF Matches, b, I, Of
  <2>4. Says(x, y, {kind, "pass"})
    BY <2>1, <2>2 DEF Says
  <2> QED
    BY <2>2, <2>3, <2>4, ReadsNothing, SpeaksOfData DEF Goes
<1> QED
  BY <1>3, <1>5, <1>6, <1>7, <1>8 DEF LeadsOn, kind

\* The state behind an ESC, or behind the first half of a C1 control c
LEMMA EventBegun ==
  ASSUME NEW x, Sound(x), x.state = "Escape", Fresh(x), NEW d \in AllChars, NEW ok \in BOOLEAN,
         NEW S \in Seq(AllChars), NEW c \in AllChars,
         \/ c = d /\ c \notin C1Controls /\ S # <<>> /\ Last(S) = "ESC"
         \/ c \in C1Controls /\ d = C1To7Bit[c],
         NEW y, y = Event(x, d, ok)
  PROVE  Goes(x, y, S, Heard(S, c))
<1>0. x \in Machine /\ x.state # "OscTermination"
  BY SoundBasics
<1>1. PICK a, t, done : Happens(x, d, ok, y, a, t, done)
  BY <1>0, EventHappens
<1>2. Fits(x.ansi, x.state, d, a, t) /\ Tells(a, x, done)
  BY <1>1 DEF Happens
<1>3. LeadsIn(d, a, t)
  <2>1. Leads(x.state, d, a, t)
    BY <1>2 DEF Fits
  <2> QED
    BY <2>1 DEF Leads
<1>4. c \in C1Controls => d \in {"[", "]", "BACKSLASH"} /\ c \notin C0Codes \cup Delete
  BY DEF C1Controls, C1To7Bit, C0Codes, Delete
<1>5. CASE a \in {"Execute", "Ignore"} /\ t = Stay /\ d \in C0Codes \cup Delete
  <2>1. c = d /\ S # <<>> /\ Last(S) = "ESC"
    BY <1>4, <1>5 DEF C0Codes, Delete
  <2>2. y = done /\ Heard(S, c) = S
    BY <1>1, <1>5, <2>1 DEF Happens, Heard
  <2>3. Says(x, y, NoData) /\ SameBook(x, y) /\ y.state = "Escape"
    BY <1>2, <1>5, <2>2 DEF Tells, DataKinds, Entering
  <2>4. Fresh(y)
    BY <2>3 DEF Fresh, SameBook
  <2> QED
    BY <2>1, <2>2, <2>3, <2>4, ReadsBegun, SpeaksOfNothing DEF Goes
<1>6. CASE a = "Ignore" /\ <<d, t>> \in {<<"[", "CsiEntry">>, <<"O", "Ss3Entry">>, <<"P", "DcsEntry">>,
                                         <<"]", "OscParam">>}
  <2> DEFINE T == Append(S, c)
             kind == CASE t = "CsiEntry" -> "csi" [] t = "Ss3Entry" -> "ss3" [] t = "DcsEntry" -> "dcs"
                       [] OTHER -> "osc"
  <2>1. \/ d = "[" /\ t = "CsiEntry"
        \/ d = "O" /\ t = "Ss3Entry"
        \/ d = "P" /\ t = "DcsEntry"
        \/ d = "]" /\ t = "OscParam"
    BY <1>6
  <2>2. c \notin C0Codes \cup Delete
    BY <1>4, <2>1 DEF C0Codes, Delete
  <2>3. T = Append(S, c) /\ Heard(S, c) = T
    BY <2>2 DEF Heard
  <2>4. kind \in DataKinds /\ c \in Of(kind)
    <3>1. CASE d = "[" /\ t = "CsiEntry"
      <4>1. c \in {"[", "CSI"}
        BY <3>1 DEF C1Controls, C1To7Bit
      <4> QED
        BY <3>1, <4>1 DEF Of, Introducers, DataKinds
    <3>2. CASE d = "]" /\ t = "OscParam"
      <4>1. c \in {"]", "OSC"}
        BY <3>2 DEF C1Controls, C1To7Bit
      <4> QED
        BY <3>2, <4>1 DEF Of, Introducers, DataKinds
    <3>3. CASE d \in {"O", "P"}
      <4>1. c = d
        BY <1>4, <3>3
      <4> QED
        BY <2>1, <3>3, <4>1 DEF Of, Introducers, DataKinds
    <3> QED
      BY <2>1, <3>1, <3>2, <3>3
  <2> HIDE DEF T
  <2>5. Open(T, Of(kind)) /\ Behind(T, Of(kind)) = <<>>
    <3>1. c \in C1Controls \/ (S # <<>> /\ Last(S) = "ESC")
      OBVIOUS
    <3>2. "ESC" \notin Of(kind)
      BY <2>4, IntroducersAre
    <3> HIDE DEF kind
    <3> QED
      BY <2>3, <2>4, <3>1, <3>2, OpenFirst
  <2>6. y.state = t /\ y.calls = done.calls /\ Fresh(y)
    <3>1. t # Stay
      BY <2>1 DEF Stay
    <3>2. SameBook(x, done)
      BY <1>2, <1>6 DEF Tells
    <3>3. Fresh(done)
      BY <3>2 DEF Fresh, SameBook
    <3>4. Fresh(y)
      BY <1>1, <3>1, <3>3 DEF Happens, Fresh, SameBook
    <3> QED
      BY <1>1, <3>1, <3>4 DEF Happens
  <2>7. Says(x, y, NoData)
    BY <1>2, <1>6, <2>6 DEF Tells, DataKinds, Says
  <2>8. Reads(y, T)
    <3>1. CASE t = "OscParam"
      <4>1. kind = "osc" /\ y.state = "OscParam"
        BY <2>6, <3>1
      <4>2. OscBegun(y, Behind(T, Of("osc")))
        BY <2>5, <2>6, <4>1, OscFresh
      <4> QED
        BY <2>5, <4>1, <4>2, ReadsNumber
    <3>2. CASE t # "OscParam"
      <4>1. Reading(y.state) = kind /\ kind # "none"
        BY <2>1, <2>6, <3>2 DEF Reading
      <4> HIDE DEF kind
      <4>2. HasRead(y, Behind(T, Of(kind)))
        BY <2>5, <2>6, FreshReads
      <4> QED
        BY <2>5, <4>1, <4>2, ReadsParameters
    <3> QED
      BY <3>1, <3>2
  <2> QED
    BY <2>3, <2>7, <2>8, SpeaksOfNothing DEF Goes
<1>7. CASE a \notin DataKinds /\ t \notin Attentive \cup {Stay}
  <2>1. y.state = t /\ y.calls = done.calls
    BY <1>1, <1>7 DEF Happens
  <2>2. Says(x, y, NoData)
    BY <1>2, <1>7, <2>1 DEF Tells, Says
  <2> QED
    BY <1>7, <2>1, <2>2, ReadsNothing, SpeaksOfNothing DEF Goes
<1> QED
  BY <1>3, <1>5, <1>6, <1>7 DEF LeadsIn

\* The number of an OSC sequence
LEMMA EventOscNumber ==
  ASSUME NEW x, Sound(x), x.state = "OscParam", NEW c \in AllChars \ (C1Controls \cup {"ESC"}),
         NEW ok \in BOOLEAN, NEW S \in Seq(AllChars), Reads(x, S), NEW y, y = Event(x, c, ok)
  PROVE  Goes(x, y, S, Heard(S, c))
<1> DEFINE I == Of("osc")
           b == Behind(S, I)
           T == Append(S, c)
<1>0. x \in Machine /\ c \in AllChars /\ c \in AllChars \ C1Controls /\ x.state # "OscTermination" /\ c # "ESC"
      /\ "osc" \in DataKinds
  BY SoundBasics DEF DataKinds
<1>1. PICK a, t, done : Happens(x, c, ok, y, a, t, done)
  BY <1>0, EventHappens
<1>2. Fits(x.ansi, x.state, c, a, t) /\ Tells(a, x, done) /\ done = Act(a, x, c, ok)
  BY <1>1 DEF Happens
<1>3. Leads(x.state, c, a, t)
  BY <1>2 DEF Fits
<1>4. Open(S, I) /\ OscBegun(x, b) /\ "ESC" \notin I
  BY <1>0, ReadsNumber, IntroducersAre
<1>5. T = Append(S, c) /\ I = Of("osc") /\ b = Behind(S, I)
  OBVIOUS
<1> HIDE DEF I, b, T
<1>6. Open(T, I) /\ b \in Seq(AllChars) /\ Behind(T, I) = Append(b, c)
  BY <1>0, <1>4, <1>5, OpenFurther
<1>7. a \in {"Ignore", "OscParam"} /\ Says(x, done, NoData) /\ done.state = x.state
  <2>1. a \in {"Ignore", "OscParam"}
    BY <1>3 DEF Leads
  <2> QED
    BY <1>2, <2>1 DEF Tells, DataKinds, Entering
<1>8. CASE a = "Ignore" /\ t = "Ground"
  <2>1. y.state = "Ground" /\ y.calls = done.calls
    BY <1>1, <1>8 DEF Happens, Stay
  <2>2. y.state \notin Attentive /\ Says(x, y, NoData)
    BY <1>7, <2>1 DEF Attentive, Says
  <2> QED
    BY <2>2, ReadsNothing, SpeaksOfNothing DEF Goes
<1>9. CASE a = "Ignore" /\ t = Stay /\ c \in C0Codes \cup Delete
  <2>1. y = done /\ Heard(S, c) = S /\ SameBook(x, done)
    BY <1>1, <1>2, <1>9 DEF Happens, Heard, Tells
  <2> QED
    BY <1>7, <2>1, ReadsSame, SpeaksOfNothing DEF Goes
<1>10. CASE /\ c \notin C0Codes \cup Delete
            /\ \/ a = "OscParam" /\ t = Stay /\ c \in Digits
               \/ a = "Ignore" /\ t = "OscString" /\ c \in Delimiter
               \/ a = "Ignore" /\ t = Stay /\ c \notin Digits \cup Delimiter
  <2>0. Heard(S, c) = T /\ c \notin C0Codes \cup Delete
    BY <1>5, <1>10 DEF Heard
  <2>1. \/ c \in Digits /\ done.oscParam = Accumulate(x.oscParam, c)
        \/ c \notin Digits /\ done.oscParam = x.oscParam
    <3>1. CASE a = "OscParam"
      <4>1. done = [x EXCEPT !.oscParam = Accumulate(x.oscParam, c)]
        BY <1>0, <1>2, <3>1 DEF Act, Machine
      <4>2. c \in Digits
        BY <1>10, <3>1
      <4> QED
        BY <1>0, <4>1, <4>2 DEF Machine
    <3>2. CASE a = "Ignore"
      <4>1. done = x /\ c \notin Digits
        BY <1>2, <1>10, <3>2 DEF Act, Digits, Delimiter
      <4> QED
        BY <4>1
    <3> QED
      BY <1>7, <3>1, <3>2
  <2>2. done.osc = x.osc
    BY <1>0, <1>2, <1>7 DEF Act, Machine
  <2>3. SameBook(done, y) /\ y.calls = done.calls /\ y.state = IF c \in Delimiter THEN "OscString" ELSE "OscParam"
    <3>1. CASE t = Stay
      <4>1. y = done /\ c \notin Delimiter
        BY <1>1, <1>10, <3>1 DEF Happens, Stay, Digits, Delimiter
      <4> QED
        BY <1>7, <4>1 DEF SameBook
    <3>2. CASE t = "OscString"
      <4>1. t # Stay /\ t \notin Entries /\ c \in Delimiter
        BY <1>10, <3>2 DEF Stay, Entries
      <4> QED
        BY <1>1, <3>2, <4>1 DEF Happens
    <3> QED
      BY <1>10, <3>1, <3>2
  <2>4. y.osc = x.osc /\ y.oscParam = done.oscParam
    BY <2>2, <2>3 DEF SameBook
  <2> DEFINE e == Append(b, c)
  <2>5. IF c \in Delimiter THEN OscRead(y, e) ELSE OscBegun(y, e)
    BY <1>0, <1>4, <1>6, <2>1, <2>4, OscBegunFurther
  <2> HIDE DEF e
  <2>6. IF c \in Delimiter THEN OscRead(y, Behind(T, I)) ELSE OscBegun(y, Behind(T, I))
    BY <1>6, <2>5 DEF e
  <2>7. Reads(y, T)
    <3>1. CASE c \in Delimiter
      <4>1. y.state = "OscString"
        BY <2>3, <3>1
      <4> QED
        BY <1>5, <1>6, <2>6, <3>1, <4>1, ReadsString
    <3>2. CASE c \notin Delimiter
      <4>1. y.state = "OscParam"
        BY <2>3, <3>2
      <4> QED
        BY <1>5, <1>6, <2>6, <3>2, <4>1, ReadsNumber
    <3> QED
      BY <3>1, <3>2
  <2>8. Says(x, y, NoData)
    BY <1>7, <2>3 DEF Says
  <2> QED
    BY <2>0, <2>7, <2>8, SpeaksOfNothing DEF Goes
<1>11. (c \in Digits \/ c \in Delimiter) => c \notin C0Codes \cup Delete
  BY DEF Digits, Delimiter, C0Codes, Delete
<1> QED
  BY <1>3, <1>8, <1>9, <1>10, <1>11 DEF Leads

\* The string of an OSC sequence
LEMMA EventOscText ==
  ASSUME NEW x, Sound(x), x.state = "OscString", NEW c \in AllChars \ C1Controls,
         NEW ok \in BOOLEAN, NEW S \in Seq(AllChars), Reads(x, S), NEW y, y = Event(x, c, ok)
  PROVE  Goes(x, y, S, Heard(S, c))
<1> DEFINE I == Of("osc")
           b == Behind(S, I)
           T == Append(S, c)
<1>0. x \in Machine /\ c \in AllChars /\ x.state # "OscTermination" /\ "osc" \in DataKinds
  BY SoundBasics DEF DataKinds
<1>1. PICK a, t, done : Happens(x, c, ok, y, a, t, done)
  BY <1>0, EventHappens
<1>2. Fits(x.ansi, x.state, c, a, t) /\ Tells(a, x, done) /\ done = Act(a, x, c, ok)
  BY <1>1 DEF Happens
<1>3. Leads(x.state, c, a, t)
  BY <1>2 DEF Fits
<1>4. Open(S, I) /\ OscRead(x, b) /\ "ESC" \notin I
  BY <1>0, ReadsString, IntroducersAre
<1>5. T = Append(S, c) /\ I = Of("osc") /\ b = Behind(S, I)
  OBVIOUS
<1> HIDE DEF I, b, T
<1>6. b \in Seq(AllChars) /\ Behind(T, I) = Append(b, c) /\ (c # "ESC" => Open(T, I))
  BY <1>0, <1>4, <1>5, OpenFurther
<1>7. CASE a = "osc" /\ t = "Ground"
  <2>1. t # Stay /\ t \notin Entries /\ t \notin Attentive
    BY <1>7 DEF Stay, Entries, Attentive
  <2>2. y.state = t /\ y.calls = done.calls /\ SameBook(done, y)
    BY <1>1, <2>1 DEF Happens
  <2>3. Says(x, done, {"osc", "pass"}) /\ SameBook(x, done)
    BY <1>0, <1>2, <1>7 DEF Tells
  <2>4. Says(x, y, {"osc", "pass"}) /\ SameBook(x, y)
    BY <2>2, <2>3 DEF Says, SameBook
  <2>5. OscHolds(y, b)
    BY <1>4, <2>4 DEF OscRead, OscHolds, SameBook
  <2>6. Matches(y, S, "osc")
    BY <1>5, <2>5 DEF Matches, Of
  <2> QED
    BY <2>1, <2>2, <2>4, <2>6, ReadsNothing, SpeaksOfData DEF Goes
<1>8. CASE a = "Ignore" /\ t = "OscTermination" /\ c = "ESC"
  <2>1. t # Stay /\ t \notin Entries /\ Heard(S, c) = T
    BY <1>5, <1>8 DEF Stay, Entries, Heard, C0Codes, Delete
  <2>2. y.state = "OscTermination" /\ y.calls = done.calls /\ SameBook(done, y)
    BY <1>1, <1>8, <2>1 DEF Happens
  <2>3. Says(x, done, NoData) /\ SameBook(x, done)
    BY <1>2, <1>8 DEF Tells, DataKinds
  <2>4. Says(x, y, NoData) /\ SameBook(x, y)
    BY <2>2, <2>3 DEF Says, SameBook
  <2>5. OscRead(y, b)
    BY <1>4, <2>4 DEF OscRead, OscHolds, SameBook
  <2>6. Front(T) = S /\ T = Append(S, "ESC")
    BY <1>5, <1>8, FrontOfMore
  <2>7. Reads(y, T)
    <3>1. Open(S, Of("osc")) /\ OscRead(y, Behind(S, Of("osc")))
      BY <1>4, <1>5, <2>5
    <3> QED
      BY <2>2, <2>6, <3>1, ReadsTerminator
  <2> QED
    BY <2>1, <2>4, <2>7, SpeaksOfNothing DEF Goes
<1>9. CASE a = "Ignore" /\ t = Stay /\ c \in C0Codes
  <2>1. y = done /\ Heard(S, c) = S
    BY <1>1, <1>9 DEF Happens, Heard
  <2>2. Says(x, y, NoData) /\ SameBook(x, y) /\ y.state = x.state
    BY <1>2, <1>9, <2>1 DEF Tells, DataKinds, Entering
  <2> QED
    BY <2>1, <2>2, ReadsSame, SpeaksOfNothing DEF Goes
<1>10. CASE a = "OscPut" /\ t = Stay /\ c \notin C0Codes \cup {"ESC"}
  <2>1. y = [x EXCEPT !.osc = Append(x.osc, c)]
    BY <1>0, <1>1, <1>2, <1>10 DEF Happens, Act, Machine
  <2>2. y.osc = Append(x.osc, c) /\ y.oscParam = x.oscParam
    BY <1>0, <2>1 DEF Machine
  <2>3. y = done /\ y.state = "OscString" /\ Says(x, y, NoData)
    BY <1>1, <1>2, <1>10 DEF Happens, Tells, DataKinds, Entering
  <2>4. CASE c \in Delete
    <3>1. OscRead(y, b)
      BY <1>0, <1>4, <2>2, <2>4, OscKeepsDelete
    <3>2. Reads(y, S)
      BY <1>4, <1>5, <2>3, <3>1, ReadsString
    <3>3. Heard(S, c) = S
      BY <2>4 DEF Heard
    <3> QED
      BY <2>3, <3>2, <3>3, SpeaksOfNothing DEF Goes
  <2>5. CASE c \notin Delete
    <3>0. Heard(S, c) = T /\ c # "ESC" /\ c \in AllChars \ Delete
      BY <1>0, <1>5, <1>10, <2>5 DEF Heard
    <3> DEFINE e == Append(b, c)
    <3>1. OscRead(y, e)
      BY <1>0, <1>4, <1>6, <2>2, <3>0, OscReadFurther
    <3> HIDE DEF e
    <3>2. OscRead(y, Behind(T, I)) /\ Open(T, I)
      BY <1>6, <3>0, <3>1 DEF e
    <3>3. Reads(y, T)
      BY <1>5, <2>3, <3>2, ReadsString
    <3> QED
      BY <2>3, <3>0, <3>3, SpeaksOfNothing DEF Goes
  <2> QED
    BY <2>4, <2>5
<1> QED
  BY <1>3, <1>7, <1>8, <1>9, <1>10 DEF Leads

\* The terminator of an OSC string dispatches it.
LEMMA EventOscEnd ==
  ASSUME NEW x, Sound(x), x.state = "OscTermination", NEW ok \in BOOLEAN,
         NEW y, y = Event(x, "BACKSLASH", ok)
  PROVE  y.state \notin Attentive /\ SameBook(x, y) /\ Says(x, y, {"osc", "pass"})
<1> DEFINE c == "BACKSLASH"
<1>0. c \in AllChars /\ c = "BACKSLASH"
  BY DEF AllChars, Unaddressed
<1> HIDE DEF c
<1>1. PICK a, t, done : Happens(x, c, ok, y, a, t, done)
  BY <1>0, EventHappens
<1>2. Fits(x.ansi, x.state, c, a, t) /\ Tells(a, x, done)
  BY <1>1 DEF Happens
<1>3. a = "osc" /\ t = "Ground"
  <2>1. Leads(x.state, c, a, t)
    BY <1>2 DEF Fits
  <2> QED
    BY <2>1 DEF Leads
<1>4. t # Stay /\ t \notin Entries /\ t \notin Attentive /\ "osc" \in DataKinds
  BY <1>3 DEF Stay, Entries, Attentive, DataKinds
<1>5. y.state = t /\ y.calls = done.calls /\ SameBook(done, y)
  BY <1>1, <1>4 DEF Happens
<1>6. Says(x, done, {"osc", "pass"}) /\ SameBook(x, done)
  BY <1>2, <1>3, <1>4 DEF Tells
<1> QED
  BY <1>4, <1>5, <1>6 DEF Says, SameBook
-----------------------------------------------------------------------------
(***************************************************************************)
(* One character, with its data                                             *)
(***************************************************************************)

\* An ESC cuts off what there was: nothing is left of it.
LEMMA EscBegins ==
  ASSUME NEW x, Sound(x), x.state # "OscString", NEW ok, NEW y, y = ProcessPlain(x, "ESC", ok)
  PROVE  y.state = "Escape" /\ Fresh(y) /\ Says(x, y, NoData)
<1> DEFINE w == Interrupt(x)
<1>0. x \in Machine /\ y = Enter(w, "Escape") /\ "Escape" \in Entries /\ {"dcsPut"} \subseteq NoData
  BY SoundBasics DEF ProcessPlain, Entries, NoData, CallKinds, DataKinds
<1>1. Leaves(x, w, {"dcsPut"}) /\ w \in Machine
  BY <1>0, InterruptLeaves DEF Leaves
<1> HIDE DEF w
<1>2. y.state = "Escape" /\ y.calls = w.calls /\ Fresh(y)
  BY <1>0, <1>1, EnterBook
<1>3. Says(x, w, NoData)
  BY <1>0, <1>1, SaysMore DEF Leaves
<1> QED
  BY <1>2, <1>3 DEF Says

\* What was no terminator is an event behind an ESC.
LEMMA Unterminated ==
  ASSUME NEW x, Sound(x), NEW w, w = Enter(x, "Escape")
  PROVE  Sound(w) /\ w.state = "Escape" /\ Fresh(w) /\ w.calls = x.calls
<1>0. x \in Machine /\ Bounded(x) /\ "Escape" \in States /\ "Escape" \in Entries /\ Expected(x, "Escape")
  BY SoundBasics, StatesAre DEF Entries, Expected
<1> QED
  BY <1>0, EnterSound, EnterBook

\* The calls of two parts of a step, of which the first tells of no data
LEMMA GoesAfter ==
  ASSUME NEW x, NEW w, NEW y, Says(x, w, NoData), NEW S, NEW T, Goes(w, y, S, T)
  PROVE  Goes(x, y, S, T)
<1>1. \A kind \in NoData : Matches(y, S, kind)
  BY DEF NoData, DataKinds, Matches
<1>2. Speaks(x, y, S)
  <2> SUFFICES ASSUME NEW i \in DOMAIN y.calls
               PROVE  (i \in DOMAIN x.calls /\ y.calls[i] = x.calls[i]) \/ Matches(y, S, y.calls[i].kind)
    BY DEF Speaks
  <2>1. (i \in DOMAIN w.calls /\ y.calls[i] = w.calls[i]) \/ Matches(y, S, y.calls[i].kind)
    BY DEF Goes, Speaks
  <2>2. i \in DOMAIN w.calls => (i \in DOMAIN x.calls /\ w.calls[i] = x.calls[i]) \/ w.calls[i].kind \in NoData
    BY DEF Says
  <2> QED
    BY <1>1, <2>1, <2>2
<1> QED
  BY <1>2 DEF Goes

\* A character that is not a C1 control
LEMMA PlainGoes ==
  ASSUME NEW x, Sound(x), NEW S \in Seq(AllChars), Reads(x, S), NEW c \in AllChars \ C1Controls,
         NEW ok \in BOOLEAN, NEW y, y = ProcessPlain(x, c, ok)
  PROVE  Goes(x, y, S, Heard(S, c))
<1>0. x \in Machine /\ c \in AllChars /\ x.state \in States
  BY SoundBasics
<1>1. CASE c = "CAN" /\ ~(x.state = "Escape" /\ engine = "input")
  <2> DEFINE w == Interrupt(x)
             d == Execute(w, c, ok)
  <2>1. y = Enter(d, "Ground") /\ {"dcsPut"} \subseteq NoData /\ {"execute", "pass"} \subseteq NoData
    BY <1>1 DEF ProcessPlain, NoData, CallKinds, DataKinds
  <2>2. Leaves(x, w, {"dcsPut"}) /\ w \in Machine
    BY <1>0, InterruptLeaves DEF Leaves
  <2> HIDE DEF w
  <2>3. Leaves(w, d, {"execute", "pass"}) /\ d \in Machine
    BY <1>0, <2>2, ExecuteLeaves DEF Leaves
  <2> HIDE DEF d
  <2>4. Says(x, d, NoData)
    BY <2>1, <2>2, <2>3, SaysTwice DEF Leaves
  <2>5. y.state = "Ground" /\ y.calls = d.calls
    BY <2>1, <2>3, EnterBook
  <2>6. y.state \notin Attentive /\ Says(x, y, NoData)
    BY <2>4, <2>5 DEF Attentive, Says
  <2> QED
    BY <2>6, ReadsNothing, SpeaksOfNothing DEF Goes
<1>2. CASE c = "ESC" /\ x.state # "OscString"
  <2>1. y.state = "Escape" /\ Fresh(y) /\ Says(x, y, NoData)
    BY <1>2, EscBegins
  <2> DEFINE T == Append(S, c)
  <2>2. Heard(S, c) = T
    BY <1>2 DEF Heard, C0Codes, Delete
  <2>3. T # <<>> /\ Last(T) = "ESC"
    BY <1>0, <1>2 DEF Last
  <2> HIDE DEF T
  <2> QED
    BY <2>1, <2>2, <2>3, ReadsBegun, SpeaksOfNothing DEF Goes
<1>3. CASE /\ ~(c = "CAN" /\ ~(x.state = "Escape" /\ engine = "input"))
           /\ ~(c = "ESC" /\ x.state # "OscString")
  <2>0. y = Event(IF x.state = "OscTermination" /\ c # "BACKSLASH" THEN Enter(x, "Escape") ELSE x, c, ok)
    BY <1>3 DEF ProcessPlain
  <2>1. CASE x.state = "OscTermination" /\ c # "BACKSLASH"
    <3> DEFINE w == Enter(x, "Escape")
    <3>1. y = Event(w, c, ok)
      BY <2>0, <2>1
    <3>2. Sound(w) /\ w.state = "Escape" /\ Fresh(w) /\ w.calls = x.calls
      BY Unterminated
    <3>3. S # <<>> /\ Last(S) = "ESC"
      <4>1. PICK t \in {S, Front(S)} : S = Append(t, "ESC") /\ Open(t, Of("osc"))
        BY <2>1, ReadsString
      <4>2. t \in Seq(AllChars)
        BY FrontType
      <4>3. "ESC" \in AllChars
        BY DEF AllChars
      <4> QED
        BY <4>1, <4>2, <4>3 DEF Last
    <3> HIDE DEF w
    <3>4. Goes(w, y, S, Heard(S, c))
      BY <1>0, <3>1, <3>2, <3>3, EventBegun
    <3>5. Says(x, w, NoData)
      BY <3>2, SaysNothing
    <3> QED
      BY <3>4, <3>5, GoesAfter
  <2>2. CASE x.state = "OscTermination" /\ c = "BACKSLASH"
    <3>1. y.state \notin Attentive /\ SameBook(x, y) /\ Says(x, y, {"osc", "pass"})
      BY <2>0, <2>2, EventOscEnd
    <3>2. PICK t \in {S, Front(S)} :
            S = Append(t, "ESC") /\ Open(t, Of("osc")) /\ OscRead(x, Behind(t, Of("osc")))
      BY <2>2, ReadsString
    <3>3. Matches(y, S, "osc")
      <4> DEFINE I == Of("osc")
                 b == Behind(t, I)
                 e == "ESC"
      <4>1. "ESC" \notin I /\ e \in AllChars \ C1Controls /\ e \in AllChars \ Delete /\ e = "ESC"
        BY IntroducersAre DEF DataKinds, AllChars, C1Controls, Delete
      <4>2. t \in Seq(AllChars)
        BY FrontType
      <4>3. S = Append(t, e) /\ Open(t, I) /\ OscRead(x, b) /\ b = Behind(t, I)
        BY <3>2
      <4> HIDE DEF I, b, e
      <4>4. b \in Seq(AllChars) /\ Behind(S, I) = Append(b, e)
        <5>1. S = Append(t, e) /\ Open(t, I) /\ "ESC" \notin I /\ e \in AllChars \ C1Controls
          BY <4>1, <4>3
        <5>2. Behind(t, I) \in Seq(AllChars) /\ Behind(S, I) = Append(Behind(t, I), e)
          BY <4>2, <5>1, OpenFurther
        <5> QED
          BY <4>3, <5>2, Zenon
      <4> DEFINE f == Append(b, e)
      <4>5. OscRead(y, f)
        <5>1. y.oscParam = x.oscParam /\ y.osc = IF e = "ESC" THEN x.osc ELSE Append(x.osc, e)
          BY <3>1, <4>1 DEF SameBook
        <5>2. f = Append(b, e)
          OBVIOUS
        <5> HIDE DEF f
        <5> QED
          BY <1>0, <4>1, <4>3, <4>4, <5>1, <5>2, OscReadFurther
      <4> HIDE DEF f
      <4>6. OscHolds(y, Behind(S, I))
        BY <4>4, <4>5 DEF OscRead, f
      <4> QED
        BY <4>6 DEF Matches, I, Of
    <3> QED
      BY <3>1, <3>3, ReadsNothing, SpeaksOfData DEF Goes
  <2>3. CASE x.state # "OscTermination"
    <3>1. y = Event(x, c, ok)
      BY <2>0, <2>3
    <3>2. CASE x.state \notin Attentive
      <4>1. y.state \notin Attentive /\ Says(x, y, NoData)
        BY <1>0, <3>1, <3>2, EventOther
      <4> QED
        BY <4>1, ReadsNothing, SpeaksOfNothing DEF Goes
    <3>3. CASE x.state = "Escape"
      <4>1. Fresh(x) /\ S # <<>> /\ Last(S) = "ESC" /\ c \notin C1Controls
        BY <3>3, ReadsBegun
      <4> QED
        BY <1>0, <3>1, <3>3, <4>1, EventBegun
    <3>4. CASE Reading(x.state) # "none"
      <4>1. c \in AllChars \ (C1Controls \cup {"ESC"})
        BY <1>3, <3>4 DEF Reading
      <4> QED
        BY <3>1, <3>4, <4>1, EventReading
    <3>5. CASE x.state = "OscParam"
      <4>1. c \in AllChars \ (C1Controls \cup {"ESC"})
        BY <1>3, <3>5
      <4> QED
        BY <3>1, <3>5, <4>1, EventOscNumber
    <3>6. CASE x.state = "OscString"
      BY <3>1, <3>6, EventOscText
    <3> QED
      BY <2>3, <3>2, <3>3, <3>4, <3>5, <3>6 DEF Attentive, Reading
  <2> QED
    BY <2>1, <2>2, <2>3
<1> QED
  BY <1>1, <1>2, <1>3

\* The ESC of a C1 control in an OSC string is the first half of a terminator, or of
\* a sequence that cuts it off.
LEMMA EscInString ==
  ASSUME NEW x, Sound(x), x.state = "OscString", NEW ok, NEW y, y = ProcessPlain(x, "ESC", ok)
  PROVE  Sound(y) /\ y.state = "OscTermination" /\ SameBook(x, y) /\ y.calls = x.calls
<1> DEFINE row == Row(x.ansi, "OscString", "ESC")
           s == "OscTermination"
<1>1. y = Event(x, "ESC", ok)
  BY DEF ProcessPlain
<1>2. row = <<{"ESC"}, "Ignore", "OscTermination">>
  BY EscInOscString
<1>3. row[2] = "Ignore" /\ row[3] = s /\ s # Stay /\ s \notin Entries /\ s = "OscTermination"
  BY <1>2 DEF Stay, Entries
<1>4. y = IF row[3] = Stay THEN Act(row[2], x, "ESC", ok) ELSE Enter(Act(row[2], x, "ESC", ok), row[3])
  BY <1>1 DEF Event, Row
<1> HIDE DEF row, s
<1>5. y = Enter(x, s) /\ x \in Machine
  BY <1>3, <1>4, SoundBasics DEF Act
<1>6. y.state = s /\ y.calls = x.calls /\ SameBook(x, y)
  BY <1>3, <1>5, EnterBook
<1>7. Sound(y)
  BY EscEffect
<1> QED
  BY <1>3, <1>6, <1>7

\* Any character, a C1 control too
LEMMA CharacterGoes ==
  ASSUME NEW x, Sound(x), NEW S \in Seq(AllChars), Reads(x, S), NEW c \in AllChars,
         NEW ok \in BOOLEAN, NEW y, y = ProcessCharacter(x, c, ok)
  PROVE  Goes(x, y, S, Heard(S, c))
<1>1. CASE c \notin C1Controls
  <2>1. y = ProcessPlain(x, c, ok)
    BY <1>1 DEF ProcessCharacter
  <2> QED
    BY <1>1, <2>1, PlainGoes
<1>2. CASE c \in C1Controls
  <2> DEFINE w == ProcessPlain(x, "ESC", ok)
             d == C1To7Bit[c]
  <2>0. d \in {"[", "]", "BACKSLASH"} /\ d \in AllChars /\ d # "CAN" /\ d # "ESC"
    <3>1. d \in {"[", "]", "BACKSLASH"}
      BY <1>2 DEF C1To7Bit, C1Controls
    <3> QED
      BY <3>1 DEF AllChars, Unaddressed
  <2>1. y = ProcessPlain(w, d, ok) /\ d = C1To7Bit[c]
    BY <1>2 DEF ProcessCharacter
  <2>2. Sound(w)
    BY EscEffect
  <2>3. CASE x.state # "OscString"
    <3>1. w.state = "Escape" /\ Fresh(w) /\ Says(x, w, NoData)
      BY <2>3, EscBegins
    <3> HIDE DEF w, d
    <3>2. y = Event(w, d, ok)
      BY <2>0, <2>1, <3>1 DEF ProcessPlain
    <3>3. Goes(w, y, S, Heard(S, c))
      BY <1>2, <2>0, <2>1, <2>2, <3>1, <3>2, EventBegun
    <3> QED
      BY <3>1, <3>3, GoesAfter
  <2>4. CASE x.state = "OscString"
    <3>1. w.state = "OscTermination" /\ SameBook(x, w) /\ w.calls = x.calls
      BY <2>4, EscInString
    <3> HIDE DEF w, d
    <3>2. y = Event(IF d # "BACKSLASH" THEN Enter(w, "Escape") ELSE w, d, ok)
      BY <2>0, <2>1, <3>1 DEF ProcessPlain
    <3>3. CASE d = "BACKSLASH"
      <4>1. y.state \notin Attentive /\ SameBook(w, y) /\ Says(w, y, {"osc", "pass"})
        BY <2>2, <3>1, <3>2, <3>3, EventOscEnd
      <4>2. OscRead(x, Behind(S, Of("osc")))
        BY <2>4, ReadsString
      <4>3. OscHolds(y, Behind(S, Of("osc")))
        BY <3>1, <4>1, <4>2 DEF OscRead, OscHolds, SameBook
      <4>4. Matches(y, S, "osc")
        BY <4>3 DEF Matches, Of
      <4>5. Says(x, y, {"osc", "pass"})
        BY <3>1, <4>1 DEF Says
      <4> QED
        BY <4>1, <4>4, <4>5, ReadsNothing, SpeaksOfData DEF Goes
    <3>4. CASE d # "BACKSLASH"
      <4> DEFINE v == Enter(w, "Escape")
      <4>1. y = Event(v, d, ok)
        BY <3>2, <3>4
      <4>2. Sound(v) /\ v.state = "Escape" /\ Fresh(v) /\ v.calls = w.calls
        BY <2>2, Unterminated
      <4> HIDE DEF v
      <4>3. Goes(v, y, S, Heard(S, c))
        BY <1>2, <2>0, <2>1, <4>1, <4>2, EventBegun
      <4>4. Says(x, v, NoData)
        BY <3>1, <4>2, SaysNothing
      <4> QED
        BY <4>3, <4>4, GoesAfter
    <3> QED
      BY <3>3, <3>4
  <2> QED
    BY <2>3, <2>4
<1> QED
  BY <1>1, <1>2
-----------------------------------------------------------------------------
(***************************************************************************)
(* The steps, and the data of the sequences                                 *)
(***************************************************************************)

\* A sequence with one more character
LEMMA SeenFurther ==
  ASSUME NEW s \in Seq(Chars), NEW c \in Chars
  PROVE  /\ Seen(s) \in Seq(AllChars) /\ c \in AllChars
         /\ Seen(Append(s, c)) = Heard(Seen(s), c) /\ Front(Append(s, c)) = s
<1>1. s \in Seq(AllChars) /\ c \in AllChars
  BY ConstantsAssumption
<1> DEFINE K == AllChars \ (C0Codes \cup Delete)
           t == Append(s, c)
<1>3. Front(t) = s
  BY FrontOfMore
<1> HIDE DEF K
<1>2. Only(s, K) \in Seq(AllChars)
  BY <1>1, OnlyFurther
<1>4. Only(t, K) = IF c \in K THEN Append(Only(s, K), c) ELSE Only(s, K)
  BY <1>1, OnlyMore
<1> QED
  BY <1>1, <1>2, <1>3, <1>4 DEF Seen, Heard, K

\* The calls before the character print.
LEMMA PrintsOnly ==
  ASSUME NEW c, NEW x, Prepared(x, c), NEW i \in DOMAIN x.calls
  PROVE  x.calls[i].kind = "print"
<1> DEFINE first == [kind |-> "print", arg |-> m.run]
<1>1. x.calls = <<first>> \/ x.calls = <<>>
  BY DEF Prepared
<1>2. first.kind = "print"
  OBVIOUS
<1> HIDE DEF first
<1>3. \A calls : calls = <<first>> => DOMAIN calls = {1} /\ calls[1] = first
  OBVIOUS
<1>4. x.calls # <<>>
  OBVIOUS
<1> QED
  BY <1>1, <1>2, <1>3, <1>4

\* What is said of no data is said rightly.
LEMMA Unsaid ==
  ASSUME NEW x, NEW S
  PROVE  Matches(x, S, "print")
  BY DEF Matches

\* One character of a string
LEMMA CharacterData ==
  ASSUME IInv, DataInv, NEW c \in Chars, Character(c)
  PROVE  Reads(m', Seen(seq')) /\ \A i \in DOMAIN m'.calls : Matches(m', Seen(Front(seq')), m'.calls[i].kind)
<1> DEFINE base == IF m.state # "Ground" THEN seq ELSE <<>>
           S == Seen(base)
<1>0. Sound(m) /\ m \in Machine /\ base \in Seq(Chars) /\ c \in AllChars /\ m.individually \in BOOLEAN
  BY ConstantsAssumption DEF IInv, TypeOK, Sound, Machine
<1>1. PICK ok \in BOOLEAN : m' = ProcessNext(c, ok)
  BY DEF Character
<1>2. PICK x : /\ Prepared(x, c) /\ SameBook(m, x)
               /\ m' = IF x.individually THEN ProcessIndividually(x, c, ok) ELSE x
  BY <1>0, <1>1, PrepareNext
<1>3. x \in Machine /\ SameData(m, x) /\ x.ansi = m.ansi /\ x.cached = m.cached /\ x.state = m.state
  BY <1>2 DEF Prepared, SameData
<1>4. Sound(x) /\ x.individually \in BOOLEAN
  BY <1>0, <1>3, SameSound DEF Machine
<1>5. CASE x.individually = FALSE
  <2>1. m' = x /\ m.individually = FALSE /\ c \notin ActionableFromGround
    BY <1>0, <1>2, <1>5 DEF Prepared
  <2>2. m'.calls = <<>> /\ m'.state = "Ground"
    BY <1>2, <1>3, <2>1 DEF Prepared, IInv, RunInv
  <2>3. m'.state \notin Attentive
    BY <2>2 DEF Attentive
  <2> QED
    BY <2>2, <2>3, ReadsNothing
<1>6. CASE x.individually = TRUE
  <2> DEFINE y == ProcessCharacter(x, c, ok)
  <2>1. m' = IF y.state = "Ground" THEN [y EXCEPT !.individually = FALSE, !.run = <<>>] ELSE y
    BY <1>2, <1>6 DEF ProcessIndividually
  <2>2. y \in Machine
    BY <1>0, <1>4, CharacterEffect DEF Effect
  <2>3. S \in Seq(AllChars) /\ Seen(Append(base, c)) = Heard(S, c) /\ Front(Append(base, c)) = base
    BY <1>0, SeenFurther
  <2> HIDE DEF S
  <2>4. Reads(x, S)
    <3>1. CASE m.state = "Ground"
      <4>1. x.state \notin Attentive
        BY <1>3, <3>1 DEF Attentive
      <4> QED
        BY <4>1, ReadsNothing
    <3>2. CASE m.state # "Ground"
      <4>1. Reads(m, S)
        BY <3>2 DEF DataInv, S
      <4> QED
        BY <1>2, <1>3, <4>1, ReadsSame
    <3> QED
      BY <3>1, <3>2
  <2>5. Goes(x, y, S, Heard(S, c))
    BY <1>0, <1>4, <2>3, <2>4, CharacterGoes
  <2> HIDE DEF y
  <2>6. m'.state = y.state /\ SameBook(y, m') /\ m'.calls = y.calls
    BY <2>1, <2>2 DEF Machine, SameBook
  <2>7. CASE ~Text(m, c)
    <3>1. seq' = base \o <<c>>
      BY <2>7 DEF Character, NoteSequence, Text
    <3>2. seq' = Append(base, c)
      <4> HIDE DEF base
      <4> QED
        BY <1>0, <3>1
    <3>3. Seen(seq') = Heard(S, c) /\ Seen(Front(seq')) = S
      BY <2>3, <3>2 DEF S
    <3>4. Reads(m', Seen(seq'))
      BY <2>5, <2>6, <3>3, ReadsSame DEF Goes
    <3>5. ASSUME NEW i \in DOMAIN m'.calls PROVE Matches(m', S, m'.calls[i].kind)
      <4>1. (i \in DOMAIN x.calls /\ y.calls[i] = x.calls[i]) \/ Matches(y, S, y.calls[i].kind)
        BY <2>5, <2>6 DEF Goes, Speaks
      <4>2. i \in DOMAIN x.calls => x.calls[i].kind = "print"
        BY <1>2, PrintsOnly
      <4>3. Matches(y, S, m'.calls[i].kind)
        BY <2>6, <4>1, <4>2, Unsaid
      <4> QED
        BY <2>6, <4>3 DEF Matches, Holds, OscHolds, SameBook
    <3> QED
      BY <3>3, <3>4, <3>5
  <2>8. CASE Text(m, c)
    <3>1. Text(x, c) /\ m' = ProcessIndividually(x, c, ok)
      BY <1>2, <1>3, <1>6, <2>8 DEF Text
    <3>2. m'.state = "Ground" /\ m'.calls = Append(x.calls, [kind |-> "print", arg |-> <<c>>])
      BY <1>0, <1>4, <1>6, <3>1, IndividuallyOutcome
    <3>3. m'.state \notin Attentive
      BY <3>2 DEF Attentive
    <3>4. ASSUME NEW i \in DOMAIN m'.calls PROVE m'.calls[i].kind = "print"
      <4> DEFINE more == [kind |-> "print", arg |-> <<c>>]
      <4>1. m'.calls = Append(x.calls, more) /\ more.kind = "print"
        BY <3>2
      <4>2. x.calls \in Seq(Calls)
        BY <1>3 DEF Machine
      <4> HIDE DEF more
      <4>3. m'.calls[i] = more \/ (i \in DOMAIN x.calls /\ m'.calls[i] = x.calls[i])
        BY <4>1, <4>2
      <4> QED
        BY <1>2, <4>1, <4>3, PrintsOnly
    <3> QED
      BY <3>3, <3>4, ReadsNothing, Unsaid
  <2> QED
    BY <2>7, <2>8
<1> QED
  BY <1>4, <1>5, <1>6

\* DataInv, told of the next state
LEMMA DataAgain ==
  ASSUME Reads(m', Seen(seq')),
         ended' = FALSE => \A i \in DOMAIN m'.calls : Matches(m', Seen(Front(seq')), m'.calls[i].kind),
         ended' \in BOOLEAN
  PROVE  DataInv'
  BY DEF DataInv, DataMatchesSequence

\* A step to the ground
LEMMA DataOnGround ==
  ASSUME m'.state = "Ground", ended' = TRUE \/ (m'.calls = <<>> /\ ended' \in BOOLEAN)
  PROVE  DataInv'
<1>1. m'.state \notin Attentive
  BY DEF Attentive
<1>2. Reads(m', Seen(seq'))
  BY <1>1, ReadsNothing
<1>3. ended' = FALSE => \A i \in DOMAIN m'.calls : Matches(m', Seen(Front(seq')), m'.calls[i].kind)
  OBVIOUS
<1> QED
  BY <1>2, <1>3, DataAgain

\* The end of a string
LEMMA EndOfStringData ==
  ASSUME IInv, DataInv, EndOfString
  PROVE  DataInv'
<1>1. m'.state = "Ground" \/ (m'.state = m.state /\ SameBook(m, m'))
  BY EndOfStringStep
<1>2. ended' = TRUE /\ EndNoted
  BY DEF EndOfString, EndNoted
<1>3. CASE m'.state = "Ground"
  BY <1>2, <1>3, DataOnGround
<1>4. CASE m'.state # "Ground"
  <2>1. seq' = seq /\ m'.state = m.state /\ SameBook(m, m')
    BY <1>1, <1>2, <1>4, EndTypes
  <2>2. Reads(m', Seen(seq'))
    BY <2>1, ReadsSame DEF DataInv
  <2> QED
    BY <1>2, <2>2, DataAgain
<1> QED
  BY <1>3, <1>4

\* What has been read matches the characters at first ...
LEMMA InitData == Init => DataInv
<1> SUFFICES ASSUME Init PROVE DataInv
  OBVIOUS
<1>1. m.state \notin Attentive /\ ended = TRUE
  BY DEF Init, NewMachine, Attentive
<1> QED
  BY <1>1, ReadsNothing DEF DataInv, DataMatchesSequence

\* ... and behind every step.
LEMMA NextData == IInv /\ DataInv /\ [Next]_vars => DataInv'
<1> SUFFICES ASSUME IInv, DataInv, [Next]_vars PROVE DataInv'
  OBVIOUS
<1>0. ended \in BOOLEAN
  BY DEF IInv, TypeOK
<1>1. ASSUME NEW c \in Chars, Character(c) PROVE DataInv'
  <2>1. ended' = FALSE
    BY <1>1 DEF Character
  <2> QED
    BY <1>1, <2>1, CharacterData, DataAgain
<1>2. CASE EndOfString
  BY <1>2, EndOfStringData
<1>3. CASE ResetState
  BY <1>0, <1>3, ResetStep, DataOnGround DEF ResetState
<1>4. ASSUME NEW ansi \in BOOLEAN, SetAnsiMode(ansi) PROVE DataInv'
  BY <1>0, <1>4, ModeStep, DataOnGround DEF SetAnsiMode
<1>5. CASE UNCHANGED vars
  <2>1. m' = m /\ ended' = ended /\ seq' = seq
    BY <1>5 DEF vars, history
  <2> QED
    BY <2>1 DEF DataInv, DataMatchesSequence
<1> QED
  BY <1>1, <1>2, <1>3, <1>4, <1>5 DEF Next

\* What has been read of a sequence is always what its characters said so far, in every
\* state that reads any: the inductive invariant behind the next theorem.
THEOREM DataInvariance == Spec => []DataInv
<1>1. Init => IInv /\ DataInv
  BY InitInv, InitData
<1>2. IInv /\ DataInv /\ [Next]_vars => (IInv /\ DataInv)'
  BY NextInv, NextData
<1> QED
  BY <1>1, <1>2, PTL DEF Spec

\* ActionCsiDispatch, ActionSs3Dispatch, ActionDcsDispatch and ActionOscDispatch give the
\* engine what the characters of the sequence say, for every limit on their parameters and
\* every sequence: fields as decimal numbers up to the limits, the characters collected, the
\* number and the string of an OSC sequence; whatever was begun or cut off before it.  It
\* speaks of a sequence that a character ends, not of one flushed at the end of a string.
THEOREM DispatchedAsWritten == Spec => []DataMatchesSequence
<1>1. DataInv => DataMatchesSequence
  BY DEF DataInv
<1> QED
  BY <1>1, DataInvariance, PTL
=============================================================================
