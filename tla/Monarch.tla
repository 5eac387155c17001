------------------------------- MODULE Monarch -------------------------------
(***************************************************************************)
(* The monarch of Windows Terminal's windows                               *)
(* (src/src/cascadia/Remoting/Monarch.cpp): the map of peasants by ID, the *)
(* next ID to hand out, and the list of windows by the time they were last *)
(* activated.  One monarch is a record; its methods are operators on it.   *)
(* Which peasants are still alive is a parameter: a call to a dead one     *)
(* throws, and that is how the monarch finds out.                          *)
(***************************************************************************)
EXTENDS Integers, Sequences, FiniteSets

CONSTANT Procs    \* the processes that may host a window

Id == Nat \ {0}
MruEntry == [id : Id, time : Nat]

\* A Monarch object as its constructor leaves it.
FreshMonarch == [peasants |-> [i \in {} |-> i], next |-> 1, mru |-> << >>]

Entries(mru) == 1 .. Len(mru)

\* _clearOldMruEntries: erases the first entry of that peasant, if any.
ClearOldMruEntries(mru, id) ==
  LET hits  == {i \in Entries(mru) : mru[i].id = id}
      first == CHOOSE i \in hits : \A j \in hits : i <= j
  IN  IF hits = {} THEN mru
      ELSE SubSeq(mru, 1, first - 1) \o SubSeq(mru, first + 1, Len(mru))

\* Mutation: the newest report goes first, however old its time is.
InsertInFront(mru, entry) == <<entry>> \o mru

\* insert at the lower_bound: behind every entry with a later time.
InsertByTime(mru, entry) ==
  LET later == Cardinality({i \in Entries(mru) : mru[i].time > entry.time})
  IN  SubSeq(mru, 1, later) \o <<entry>> \o SubSeq(mru, later + 1, Len(mru))

\* HandleActivatePeasant, with arguments that can be copied.
HandleActivatePeasant(m, id, time) ==
  [m EXCEPT !.mru = InsertByTime(ClearOldMruEntries(m.mru, id), [id |-> id, time |-> time])]

\* Mutation: a peasant without an ID does not get one.
AssignedNoID(m, provided) == provided

\* The ID AddPeasant gives a peasant that comes with "provided" (0: none).
AssignedID(m, provided) == IF provided = 0 THEN m.next ELSE provided

\* Mutation: the counter does not step over IDs from an older monarch.
NextIDUnlessProvided(m, provided) == IF provided = 0 THEN m.next + 1 ELSE m.next

NextID(m, provided) ==
  IF provided = 0 THEN m.next + 1
  ELSE IF provided >= m.next THEN provided + 1 ELSE m.next

\* AddPeasant: whoever had the same ID before is no longer tracked.
AddPeasant(m, p, provided) ==
  LET new == AssignedID(m, provided)
  IN  [m EXCEPT !.next = NextID(m, provided),
                !.peasants = [i \in DOMAIN m.peasants \cup {new} |->
                                IF i = new THEN p ELSE m.peasants[i]]]

\* The entries before this one, and this one too unless it is to be erased.
KeepUnless(kept, entry, ids) == IF entry.id \in ids THEN kept ELSE Append(kept, entry)

Without(mru, ids) ==
  LET kept[n \in 0 .. Len(mru)] ==
        IF n = 0 THEN << >> ELSE KeepUnless(kept[n - 1], mru[n], ids)
  IN  kept[Len(mru)]

\* What is left once these (dead) peasants are erased from map and list, which
\* has at most one entry for each of them (MruSorted).
Forget(m, ids) ==
  [m EXCEPT !.peasants = [i \in DOMAIN m.peasants \ ids |-> m.peasants[i]],
            !.mru = Without(m.mru, ids)]

Dead(m, alive) == {i \in DOMAIN m.peasants : m.peasants[i] \notin alive}
-----------------------------------------------------------------------------
(***************************************************************************)
(* Lookups.  Each is the set of its possible results [id, monarch]: the ID *)
(* found (0: none) and the monarch with the dead it met removed.           *)
(***************************************************************************)

Result(id, m) == [id |-> id, monarch |-> m]

\* _getPeasant
GetPeasant(m, id, alive) ==
  IF id \in Dead(m, alive) THEN Result(0, Forget(m, {id}))
  ELSE Result(IF id \in DOMAIN m.peasants THEN id ELSE 0, m)

\* _lookupPeasantIdForName: the map is in no particular order, and the dead
\* behind the match are not met.
LookupPeasantIdForName(m, named, alive) ==
  LET hits == {i \in DOMAIN m.peasants \ Dead(m, alive) : m.peasants[i] \in named}
  IN  IF hits = {} THEN {Result(0, Forget(m, Dead(m, alive)))}
      ELSE {Result(i, Forget(m, met)) : i \in hits, met \in SUBSET Dead(m, alive)}

\* Where the loop of _getMostRecentPeasantID ends: at a live window it does not
\* skip, or, for ever, at an entry whose peasant it does not know.
Stops(m, alive, skipped) ==
  {i \in Entries(m.mru) :
     \/ m.mru[i].id \notin DOMAIN m.peasants
     \/ m.peasants[m.mru[i].id] \in alive \ skipped}

\* _getMostRecentPeasantID.  "skipped" are the windows on another desktop and
\* the quake window.  No result: the loop does not end.
GetMostRecentPeasantID(m, alive, skipped) ==
  LET stops == Stops(m, alive, skipped)
      stop  == CHOOSE i \in stops : \A j \in stops : i <= j
      met   == {m.mru[i].id : i \in IF stops = {} THEN Entries(m.mru) ELSE 1 .. stop}
      rest  == Forget(m, met \cap Dead(m, alive))
  IN  IF m.mru = << >>
      THEN IF DOMAIN m.peasants = {} THEN {Result(0, m)}
           ELSE {Result(IF i \in Dead(m, alive) THEN 0 ELSE i, m) : i \in DOMAIN m.peasants}
      ELSE IF stops = {} THEN {Result(0, rest)}
           ELSE IF m.mru[stop].id \in DOMAIN m.peasants THEN {Result(m.mru[stop].id, rest)}
                ELSE {}
=============================================================================
