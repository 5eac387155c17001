---------------------------- MODULE WindowManager ----------------------------
(***************************************************************************)
(* The window processes of Windows Terminal and how they agree on a        *)
(* monarch: src/src/cascadia/Remoting/WindowManager.cpp and Peasant.cpp,   *)
(* with AppHost's use of them, on top of module Monarch.                   *)
(*                                                                         *)
(* Every process registers the Monarch class with COM; COM instantiates it *)
(* in the process that registered first, so the processes form a line of   *)
(* succession.  One action is one call between processes or one wait: the  *)
(* other processes run, and die, between them.                             *)
(***************************************************************************)
EXTENDS Monarch

CONSTANTS
  NoProc,      \* no process
  Names,       \* the window names users ask for, NoName among them if they unset names
  NoName,      \* the empty name
  GivenIds,    \* the IDs users ask for (wt -w 5)
  UseExisting, \* whether users ask for the most recent window (wt -w 0, summon)
  MaxTime      \* bound: how often windows are activated

ASSUME WindowConstants ==
  /\ NoProc \notin Procs
  /\ GivenIds \subseteq Id
  /\ UseExisting \in BOOLEAN
  /\ MaxTime \in Nat

Unasked == "unasked"

\* What a command line may ask for.
Targets ==
  {[kind |-> "new"]} \cup [kind : {"id"}, id : GivenIds] \cup [kind : {"name"}, name : Names \ {NoName}]
    \cup {t \in {[kind |-> "recent"]} : UseExisting}

VARIABLES
  phase,      \* where each process is, from its start to its end
  seat,       \* its place in COM's class table: when it registered, 0 if it is not there
  nextSeat,
  monarchOf,  \* WindowManager::_monarch: the process that hosts it
  isKing,     \* WindowManager::_isKing
  mon,        \* the Monarch object of each process
  id,         \* Peasant::_id
  name,       \* Peasant::_WindowName
  granted,    \* RequestRename: the new name the monarch allowed
  waiter,     \* where the election thread is
  clock,
  stamped,    \* activations on their way to the peasant
  last        \* Peasant::_lastActivatedArgs: the time, 0 if null

line == <<seat, nextSeat>>
crown == <<monarchOf, isKing>>
peasant == <<id, name, granted>>
activity == <<clock, stamped, last>>
vars == <<phase, line, crown, mon, peasant, waiter, activity>>

Init ==
  /\ phase = [p \in Procs |-> "none"]
  /\ seat = [p \in Procs |-> 0]
  /\ nextSeat = 1
  /\ monarchOf = [p \in Procs |-> NoProc]
  /\ isKing = [p \in Procs |-> FALSE]
  /\ mon = [p \in Procs |-> FreshMonarch]
  /\ id = [p \in Procs |-> 0]
  /\ name = [p \in Procs |-> NoName]
  /\ granted = [p \in Procs |-> Unasked]
  /\ waiter = [p \in Procs |-> "none"]
  /\ clock = 0
  /\ stamped = [p \in Procs |-> {}]
  /\ last = [p \in Procs |-> 0]
-----------------------------------------------------------------------------
Alive == {p \in Procs : phase[p] \notin {"none", "dead", "crashed"}}
MonarchAlive(p) == monarchOf[p] \in Alive
InLine == {p \in Procs : seat[p] # 0}

\* COM instantiates the Monarch in the process that registered first.
IsFirst(k) == k \in InLine /\ \A q \in InLine : seat[k] <= seat[q]

\* MonarchFactory keeps one weak reference: the instance a process is asked for
\* is the one somebody still holds; with no holder left it may be a new one.
Instances(k) ==
  {mon[k]} \cup {m \in {FreshMonarch} : \A q \in Alive : monarchOf[q] # k}

\* Process p ends: its registration goes, and so does everything it kept.  Its
\* ID is remembered, to tell who else had it.
End(p, how) ==
  /\ phase' = [phase EXCEPT ![p] = how]
  /\ seat' = [seat EXCEPT ![p] = 0]
  /\ name' = [name EXCEPT ![p] = NoName]
  /\ granted' = [granted EXCEPT ![p] = Unasked]
  /\ waiter' = [waiter EXCEPT ![p] = "none"]
  /\ stamped' = [stamped EXCEPT ![p] = {}]
  /\ last' = [last EXCEPT ![p] = 0]
  /\ UNCHANGED <<nextSeat, id, clock>>

\* ... including its own monarch.
Abdicate(p) ==
  /\ monarchOf' = [monarchOf EXCEPT ![p] = NoProc]
  /\ isKing' = [isKing EXCEPT ![p] = FALSE]
  /\ mon' = [mon EXCEPT ![p] = FreshMonarch]
-----------------------------------------------------------------------------
(***************************************************************************)
(* Starting a process                                                      *)
(***************************************************************************)

\* WindowManager(): _registerAsMonarch
Start(p) ==
  /\ phase[p] = "none"
  /\ phase' = [phase EXCEPT ![p] = "connect"]
  /\ seat' = [seat EXCEPT ![p] = nextSeat]
  /\ nextSeat' = nextSeat + 1
  /\ UNCHANGED <<crown, mon, peasant, waiter, activity>>

\* Mutation: _areWeTheKing does not compare the PIDs.
MeetAsKing(p, k, m) ==
  /\ IsFirst(k)
  /\ monarchOf' = [monarchOf EXCEPT ![p] = k]
  /\ isKing' = [isKing EXCEPT ![p] = TRUE]
  /\ mon' = [mon EXCEPT ![k] = m]

\* _createMonarch and _areWeTheKing: p's monarch is now the one k hosts, "m".
Meet(p, k, m) ==
  /\ IsFirst(k)
  /\ monarchOf' = [monarchOf EXCEPT ![p] = k]
  /\ isKing' = [isKing EXCEPT ![p] = (k = p)]
  /\ mon' = [mon EXCEPT ![k] = m]

\* WindowManager(): the loop around _createMonarchAndCallbacks
Connect(p) ==
  /\ phase[p] = "connect"
  /\ \E k \in Procs : \E m \in Instances(k) : Meet(p, k, m)
  /\ phase' = [phase EXCEPT ![p] = "propose"]
  /\ UNCHANGED <<line, peasant, waiter, activity>>

\* The answer to ProposeCommandline: become a window, with this ID and name.
BecomeWindow(p, givenID, givenName) ==
  /\ phase' = [phase EXCEPT ![p] = "create"]
  /\ id' = [id EXCEPT ![p] = givenID]
  /\ name' = [name EXCEPT ![p] = givenName]
  /\ UNCHANGED <<line, granted, waiter, activity>>

AskedID(target) == IF target.kind = "id" THEN target.id ELSE 0
AskedName(target) == IF target.kind = "name" THEN target.name ELSE NoName

\* WindowManager::ProposeCommandline of the king: it decides for itself.
ProposeAsKing(p, target) ==
  /\ phase[p] = "propose" /\ isKing[p]
  /\ BecomeWindow(p, AskedID(target), AskedName(target))
  /\ UNCHANGED <<crown, mon>>

\* ... of anybody else while the monarch is dead: the exception leaves AppHost's
\* noexcept constructor.
ProposeFails(p) ==
  /\ phase[p] = "propose" /\ ~isKing[p] /\ ~MonarchAlive(p)
  /\ End(p, "dead")
  /\ Abdicate(p)

\* The windows a lookup of the monarch in k may come up with.
Lookup(k, target) ==
  CASE target.kind = "id"     -> {GetPeasant(mon[k], target.id, Alive)}
    [] target.kind = "name"   -> LookupPeasantIdForName(mon[k], {q \in Procs : name[q] = target.name}, Alive)
    [] target.kind = "recent" -> UNION {GetMostRecentPeasantID(mon[k], Alive, skipped) : skipped \in SUBSET Procs}
    [] OTHER                  -> {Result(0, mon[k])}

\* Monarch::ProposeCommandline.  Only the king's WindowManager has the monarch
\* ask AppHost what the command line wants; before that every answer is "new".
\* A window that is found gets the command line, and p exits; p becomes a
\* window itself if that call fails, or if none is found.
Propose(p, target) ==
  LET k == monarchOf[p]
      asked == IF isKing[k] THEN target ELSE [kind |-> "new"]
  IN  /\ phase[p] = "propose" /\ ~isKing[p] /\ MonarchAlive(p)
      /\ \E found \in Lookup(k, asked) :
           /\ mon' = [mon EXCEPT ![k] = found.monarch]
           /\ \/ found.id # 0 /\ End(p, "dead")
              \/ found.id # 0 /\ BecomeWindow(p, 0, AskedName(asked))
              \/ found.id = 0 /\ BecomeWindow(p, AskedID(asked), AskedName(asked))
      /\ UNCHANGED crown

\* AddPeasant on p's monarch
Enlist(p) ==
  LET k == monarchOf[p]
  IN  /\ id' = [id EXCEPT ![p] = AssignedID(mon[k], id[p])]
      /\ mon' = [mon EXCEPT ![k] = AddPeasant(mon[k], p, id[p])]
      /\ UNCHANGED <<name, granted>>

\* _createOurPeasant: AddPeasant; a peasant that is not king watches the monarch.
CreateOurPeasant(p) ==
  /\ phase[p] = "create" /\ MonarchAlive(p)
  /\ Enlist(p)
  /\ phase' = [phase EXCEPT ![p] = "window"]
  /\ waiter' = [waiter EXCEPT ![p] = IF isKing[p] THEN "none" ELSE "watch"]
  /\ UNCHANGED <<line, crown, activity>>

\* Reporting null arguments.  HandleActivatePeasant reads through the null
\* reference: in p itself that is the end of p; in another process COM may
\* turn it into an error for the caller, or that process ends.
ReportNull(p, k) ==
  \/ k = p /\ End(p, "crashed")
  \/ k # p /\ End(k, "crashed")
  \/ k # p /\ UNCHANGED <<phase, line, peasant, waiter, activity>>

\* _createOurPeasant: the monarch died before AddPeasant, so find another one.
\* A window that does not exist yet has never been activated.
CreateOurPeasantAgain(p) ==
  /\ phase[p] = "create" /\ ~MonarchAlive(p)
  /\ \E k \in Procs : \E m \in Instances(k) : Meet(p, k, m) /\ ReportNull(p, k)
-----------------------------------------------------------------------------
(***************************************************************************)
(* The election thread: _waitOnMonarchThread                               *)
(***************************************************************************)

\* The wait ends: the monarch's process ended, else our own shutdown interrupts.
Watch(p) ==
  /\ waiter[p] = "watch"
  /\ ~MonarchAlive(p) \/ phase[p] = "closing"
  /\ waiter' = [waiter EXCEPT ![p] = IF MonarchAlive(p) THEN "none" ELSE "elect"]
  /\ UNCHANGED <<phase, line, crown, mon, peasant, activity>>

\* _performElection: _createMonarchAndCallbacks tells the new monarch when this
\* window was last active ...
Elect(p) ==
  /\ waiter[p] = "elect"
  /\ \E k \in Procs : \E m \in Instances(k) :
       IF last[p] = 0
       THEN Meet(p, k, m) /\ ReportNull(p, k)
       ELSE /\ Meet(p, k, HandleActivatePeasant(m, id[p], last[p]))
            /\ waiter' = [waiter EXCEPT ![p] = "add"]
            /\ UNCHANGED <<phase, line, peasant, activity>>

\* Mutation: a failed election ends the thread.
ElectAddOnce(p) ==
  /\ waiter[p] = "add"
  /\ IF MonarchAlive(p)
     THEN Enlist(p) /\ waiter' = [waiter EXCEPT ![p] = IF isKing[p] THEN "none" ELSE "watch"]
     ELSE UNCHANGED <<peasant, mon>> /\ waiter' = [waiter EXCEPT ![p] = "none"]
  /\ UNCHANGED <<phase, line, crown, activity>>

\* Mutation: the new monarch is not told about this peasant.
ElectAddNothing(p) ==
  /\ waiter[p] = "add"
  /\ waiter' = [waiter EXCEPT ![p] = IF ~MonarchAlive(p) THEN "elect"
                                     ELSE IF isKing[p] THEN "none" ELSE "watch"]
  /\ UNCHANGED <<phase, line, crown, mon, peasant, activity>>

\* ... and AddPeasant; if that throws, stay in the jail and elect again.
ElectAdd(p) ==
  /\ waiter[p] = "add"
  /\ IF MonarchAlive(p)
     THEN Enlist(p) /\ waiter' = [waiter EXCEPT ![p] = IF isKing[p] THEN "none" ELSE "watch"]
     ELSE UNCHANGED <<peasant, mon>> /\ waiter' = [waiter EXCEPT ![p] = "elect"]
  /\ UNCHANGED <<phase, line, crown, activity>>
-----------------------------------------------------------------------------
(***************************************************************************)
(* A window's life                                                         *)
(***************************************************************************)

\* The monarch's handlers are hooked to this peasant's events.
Hooked(p) == phase[p] = "window" /\ waiter[p] \notin {"elect", "add"} /\ MonarchAlive(p)

\* AppHost::_WindowActivated takes the time on a background thread ...
Stamp(p) ==
  /\ phase[p] = "window"
  /\ clock < MaxTime
  /\ clock' = clock + 1
  /\ stamped' = [stamped EXCEPT ![p] = @ \cup {clock + 1}]
  /\ UNCHANGED <<phase, line, crown, mon, peasant, waiter, last>>

\* ... and calls Peasant::ActivateWindow: remember it, tell the monarch.
ActivateWindow(p, time) ==
  /\ time \in stamped[p]
  /\ stamped' = [stamped EXCEPT ![p] = @ \ {time}]
  /\ last' = [last EXCEPT ![p] = time]
  /\ mon' = IF Hooked(p)
            THEN [mon EXCEPT ![monarchOf[p]] = HandleActivatePeasant(@, id[p], time)]
            ELSE mon
  /\ UNCHANGED <<phase, line, crown, peasant, waiter, clock>>

\* Peasant::RequestRename: the monarch looks for a window with that name ...
RequestRename(p, new) ==
  /\ Hooked(p) /\ granted[p] = Unasked
  /\ \E found \in Lookup(monarchOf[p], IF new = NoName THEN [kind |-> "new"]
                                       ELSE [kind |-> "name", name |-> new]) :
       /\ mon' = [mon EXCEPT ![monarchOf[p]] = found.monarch]
       /\ granted' = [granted EXCEPT ![p] = IF found.id = 0 THEN new ELSE Unasked]
  /\ UNCHANGED <<phase, line, crown, id, name, waiter, activity>>

\* ... and back in the peasant's process the name is set.
Rename(p) ==
  /\ granted[p] # Unasked
  /\ name' = [name EXCEPT ![p] = granted[p]]
  /\ granted' = [granted EXCEPT ![p] = Unasked]
  /\ UNCHANGED <<phase, line, crown, mon, id, waiter, activity>>

\* A global hotkey: Monarch::SummonWindow, in the king's process.
SummonWindow(p, target) ==
  /\ phase[p] = "window" /\ isKing[p]
  /\ target.kind \in {"name", "recent"}
  /\ \E found \in Lookup(p, target) : mon' = [mon EXCEPT ![p] = found.monarch]
  /\ UNCHANGED <<phase, line, crown, peasant, waiter, activity>>

\* ~WindowManager: CoRevokeClassObject and the interrupt.
Close(p) ==
  /\ phase[p] = "window" /\ granted[p] = Unasked
  /\ phase' = [phase EXCEPT ![p] = "closing"]
  /\ seat' = [seat EXCEPT ![p] = 0]
  /\ stamped' = [stamped EXCEPT ![p] = {}]
  /\ UNCHANGED <<nextSeat, crown, mon, peasant, waiter, clock, last>>

\* ~WindowManager: the election thread is joined, then the process ends.
Join(p) ==
  /\ phase[p] = "closing" /\ waiter[p] = "none"
  /\ End(p, "dead")
  /\ Abdicate(p)

\* A process may be killed at any time.
Kill(p) ==
  /\ p \in Alive
  /\ End(p, "dead")
  /\ Abdicate(p)
-----------------------------------------------------------------------------
\* What a running process does without being asked.
Step(p) ==
  \/ Connect(p)
  \/ \E target \in Targets : ProposeAsKing(p, target) \/ Propose(p, target)
  \/ ProposeFails(p)
  \/ CreateOurPeasant(p) \/ CreateOurPeasantAgain(p)
  \/ \E time \in stamped[p] : ActivateWindow(p, time)
  \/ Rename(p) \/ Join(p)

Election(p) == Watch(p) \/ Elect(p) \/ ElectAdd(p)

Next ==
  \E p \in Procs :
    \/ Start(p) \/ Step(p) \/ Election(p)
    \/ Stamp(p)
    \/ \E new \in Names : RequestRename(p, new)
    \/ \E target \in Targets : SummonWindow(p, target)
    \/ Close(p) \/ Kill(p)

Spec == Init /\ [][Next]_vars
\* FAIRNESS: the main thread and the election thread of a process keep running.
FairSpec == Spec /\ \A p \in Procs : WF_vars(Step(p)) /\ WF_vars(Election(p))
-----------------------------------------------------------------------------
(***************************************************************************)
(* Properties                                                              *)
(***************************************************************************)

Phase == {"none", "connect", "propose", "create", "window", "closing", "dead", "crashed"}

IsMonarch(m) ==
  /\ DOMAIN m = {"peasants", "next", "mru"}
  /\ DOMAIN m.peasants \subseteq Id
  /\ \A i \in DOMAIN m.peasants : m.peasants[i] \in Procs
  /\ m.next \in Id
  /\ m.mru \in Seq(MruEntry)

\* A monarch's map and list hold real IDs only: 0, "no ID yet", is never tracked
\* as a window (Monarch.cpp:63-81).
TypeOK ==
  /\ phase \in [Procs -> Phase]
  /\ seat \in [Procs -> Nat]
  /\ nextSeat \in Id
  /\ monarchOf \in [Procs -> Procs \cup {NoProc}]
  /\ isKing \in [Procs -> BOOLEAN]
  /\ \A p \in Procs : IsMonarch(mon[p])
  /\ id \in [Procs -> Nat]
  /\ name \in [Procs -> Names \cup {NoName}]
  /\ granted \in [Procs -> Names \cup {NoName, Unasked}]
  /\ waiter \in [Procs -> {"none", "watch", "elect", "add"}]
  /\ clock \in Nat
  /\ stamped \in [Procs -> SUBSET Nat]
  /\ last \in [Procs -> Nat]

\* "There will only ever be one monarch process": of the processes COM can still
\* hand out, at most one believes to be king, and new processes are sent to it,
\* through any sequence of starts, deaths and elections (WindowManager.cpp:226-266).
OneKing ==
  \A p, q \in InLine : isKing[p] => seat[p] <= seat[q] /\ (isKing[q] => p = q)

\* A monarch never hands out an ID that one of its peasants already has, also
\* when peasants bring IDs from an older monarch (Monarch.cpp:63-73).
NextIdFresh == \A p \in Procs : \A i \in DOMAIN mon[p].peasants : i < mon[p].next

Descending(mru) ==
  \A i, j \in Entries(mru) : i < j => mru[i].id # mru[j].id /\ mru[i].time >= mru[j].time

\* The list of recent windows has one entry per window, the latest first, in
\* whatever order the reports arrive (Monarch.cpp:279-297).
MruSorted == \A p \in Procs : Descending(mon[p].mru)

\* The monarch m finds p under the ID i.
Finds(m, i, p) == i \in DOMAIN m.peasants /\ m.peasants[i] = p

\* A window that has found its monarch can be found by its ID there, until
\* another process shows up with the same ID (Monarch.cpp:75-81).
WindowsAreTracked ==
  \A p \in Procs :
    Hooked(p) => \/ Finds(mon[monarchOf[p]], id[p], p)
                 \/ \E q \in Procs \ {p} : id[q] = id[p]

\* The election is resilient: a window that was activated once, and whose monarch
\* dies, ends up with a live monarch, however many of them die on the way
\* (WindowManager.cpp:440-484).
WindowsFindMonarch ==
  \A p \in Procs :
    (phase[p] = "window" /\ last[p] # 0) ~> (Hooked(p) \/ phase[p] # "window")
-----------------------------------------------------------------------------
(***************************************************************************)
(* The inductive invariants behind the properties                          *)
(***************************************************************************)

\* Seats are handed out in order, and never twice.
SeatInv ==
  /\ nextSeat \in Id
  /\ seat \in [Procs -> Nat]
  /\ \A p \in Procs : seat[p] < nextSeat
  /\ \A p, q \in InLine : seat[p] = seat[q] => p = q

\* A king was first in line when it was crowned, so it still is; only a process
\* that has started can be one.
KingInv ==
  /\ isKing \in [Procs -> BOOLEAN]
  /\ \A p \in InLine : isKing[p] => \A q \in InLine : seat[p] <= seat[q]
  /\ \A p \in Procs : phase[p] = "none" => ~isKing[p] /\ seat[p] = 0

LineInv == phase \in [Procs -> Phase] /\ SeatInv /\ KingInv

\* A monarch's next ID is above all those of its peasants, its map leads to
\* processes, and its list is in order.
Sound(m) ==
  /\ DOMAIN m = {"peasants", "next", "mru"}
  /\ m.next \in Id
  /\ DOMAIN m.peasants \subseteq Id
  /\ \A i \in DOMAIN m.peasants : i < m.next /\ m.peasants[i] \in Procs
  /\ m.mru \in Seq(MruEntry)
  /\ Descending(m.mru)

MonarchInv == DOMAIN mon = Procs /\ id \in [Procs -> Nat] /\ \A p \in Procs : Sound(mon[p])

\* What a process has by the time it gets somewhere: no ID before the monarch
\* answered, one as soon as there is a window; activations and elections only of
\* a window; a monarch only in a process that was started.
LifeInv ==
  /\ monarchOf \in [Procs -> Procs \cup {NoProc}]
  /\ name \in [Procs -> Names \cup {NoName}]
  /\ granted \in [Procs -> Names \cup {NoName, Unasked}]
  /\ waiter \in [Procs -> {"none", "watch", "elect", "add"}]
  /\ clock \in Nat
  /\ stamped \in [Procs -> SUBSET Nat]
  /\ last \in [Procs -> Nat]
  /\ \A p \in Procs :
       /\ phase[p] \in {"none", "connect", "propose"} => id[p] = 0
       /\ phase[p] \in {"window", "closing"} => id[p] # 0
       /\ stamped[p] # {} => phase[p] = "window"
       /\ waiter[p] # "none" => phase[p] \in {"window", "closing"}
       /\ monarchOf[p] # NoProc => phase[monarchOf[p]] # "none"
=============================================================================
