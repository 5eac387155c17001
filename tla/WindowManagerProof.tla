------------------------- MODULE WindowManagerProof -------------------------
(***************************************************************************)
(* Proofs about the line of succession, the window IDs, the list of recent *)
(* windows and who can be found, for any number of processes, names, IDs   *)
(* and activations.                                                        *)
(***************************************************************************)
EXTENDS WindowManager, Induction, FiniteSetTheorems

USE DEF Id, Phase
-----------------------------------------------------------------------------
(***************************************************************************)
(* One king                                                                *)
(***************************************************************************)

\* At first nobody is in line.
LEMMA InitLine == Init => LineInv
<1> SUFFICES ASSUME Init PROVE LineInv
  OBVIOUS
<1>1. phase \in [Procs -> Phase]
  BY DEF Init
<1>2. InLine = {} /\ SeatInv
  BY DEF Init, SeatInv, InLine
<1>3. isKing \in [Procs -> BOOLEAN] /\ \A p \in Procs : ~isKing[p]
  BY Zenon DEF Init
<1> QED
  BY <1>1, <1>2, <1>3 DEF LineInv, SeatInv, KingInv, InLine

\* A step that changes neither the seats nor the crowns, and starts nobody.
LEMMA SameLine ==
  ASSUME LineInv, UNCHANGED <<seat, nextSeat, isKing>>, phase' \in [Procs -> Phase],
         \A p \in Procs : phase'[p] = "none" => phase[p] = "none"
  PROVE  LineInv'
  BY DEF LineInv, SeatInv, KingInv, InLine

\* A process that leaves the line makes nobody else king.
LEMMA LeaveLine ==
  ASSUME LineInv, NEW p \in Procs, seat' = [seat EXCEPT ![p] = 0], nextSeat' = nextSeat,
         isKing' \in [Procs -> BOOLEAN],
         \A q \in Procs : isKing'[q] => isKing[q] \/ q = p,
         phase' \in [Procs -> Phase], \A q \in Procs : phase'[q] = "none" => phase[q] = "none" /\ q # p
  PROVE  LineInv'
<1>1. InLine' \subseteq InLine /\ p \notin InLine'
  BY DEF LineInv, SeatInv, InLine
<1>2. \A q \in InLine' : seat'[q] = seat[q] /\ (isKing'[q] => isKing[q])
  BY <1>1 DEF LineInv, SeatInv, InLine
<1>3. SeatInv'
  BY <1>1, <1>2 DEF LineInv, SeatInv, InLine
<1>4. KingInv'
  BY <1>1, <1>2 DEF LineInv, SeatInv, KingInv, InLine
<1> QED
  BY <1>3, <1>4 DEF LineInv

\* Meeting the monarch crowns nobody but the first in line.
LEMMA MeetLine ==
  ASSUME LineInv, NEW p \in Procs, NEW k \in Procs, NEW m, Meet(p, k, m)
  PROVE  /\ isKing' \in [Procs -> BOOLEAN]
         /\ \A q \in InLine : isKing'[q] => \A r \in InLine : seat[q] <= seat[r]
         /\ \A q \in Procs : phase[q] = "none" => ~isKing'[q]
         /\ \A q \in Procs : isKing'[q] => isKing[q] \/ q = p
  BY DEF LineInv, SeatInv, KingInv, InLine, Meet, IsFirst

\* Every action keeps the line in order.
LEMMA NextLine == LineInv /\ [Next]_vars => LineInv'
<1> SUFFICES ASSUME LineInv, [Next]_vars PROVE LineInv'
  OBVIOUS
<1> USE DEF line, crown, peasant, activity
<1>0. CASE UNCHANGED vars
  BY <1>0, SameLine DEF vars, LineInv
<1>1. ASSUME NEW p \in Procs, Start(p) PROVE LineInv'
  <2>1. InLine' = InLine \cup {p} /\ \A q \in InLine : q # p => seat'[q] = seat[q]
    BY <1>1 DEF Start, LineInv, SeatInv, InLine
  <2>2. ~isKing[p] /\ isKing' = isKing
    BY <1>1 DEF Start, LineInv, KingInv
  <2>3. SeatInv'
    BY <1>1, <2>1 DEF Start, LineInv, SeatInv, InLine
  <2>4. KingInv'
    BY <1>1, <2>1, <2>2 DEF Start, LineInv, SeatInv, KingInv, InLine
  <2> QED
    BY <1>1, <2>3, <2>4 DEF Start, LineInv
<1>2. ASSUME NEW p \in Procs, End(p, "dead"), Abdicate(p) PROVE LineInv'
  BY <1>2, LeaveLine DEF End, Abdicate, LineInv, KingInv
<1>3. ASSUME NEW p \in Procs, Connect(p) PROVE LineInv'
  <2>1. PICK k \in Procs : \E m \in Instances(k) : Meet(p, k, m)
    BY <1>3 DEF Connect
  <2>2. PICK m \in Instances(k) : Meet(p, k, m)
    BY <2>1
  <2>3. phase[p] # "none" /\ UNCHANGED line /\ phase' = [phase EXCEPT ![p] = "propose"]
    BY <1>3 DEF Connect
  <2> QED
    BY <2>2, <2>3, MeetLine DEF LineInv, SeatInv, KingInv, InLine
<1>4. ASSUME NEW p \in Procs, NEW a, NEW b, BecomeWindow(p, a, b), UNCHANGED crown PROVE LineInv'
  BY <1>4, SameLine DEF BecomeWindow, LineInv
<1>5. ASSUME NEW p \in Procs, NEW target, Propose(p, target) PROVE LineInv'
  <2>1. CASE End(p, "dead")
    BY <1>5, <2>1, LeaveLine DEF Propose, End, LineInv, KingInv
  <2>2. CASE \E a, b : BecomeWindow(p, a, b)
    BY <1>5, <2>2, <1>4 DEF Propose
  <2> QED
    BY <1>5, <2>1, <2>2 DEF Propose
<1>6. ASSUME NEW p \in Procs, CreateOurPeasant(p) PROVE LineInv'
  BY <1>6, SameLine DEF CreateOurPeasant, LineInv
<1>7. ASSUME NEW p \in Procs, NEW k \in Procs, NEW m, Meet(p, k, m), ReportNull(p, k)
      PROVE  LineInv'
  <2>1. CASE k = p /\ End(p, "crashed")
    <3>1. isKing' \in [Procs -> BOOLEAN] /\ \A q \in Procs : isKing'[q] => isKing[q] \/ q = p
      BY <1>7, MeetLine
    <3> QED
      BY <2>1, <3>1, LeaveLine DEF End, LineInv
  <2>2. CASE k # p /\ End(k, "crashed")
    <3>1. isKing' = [isKing EXCEPT ![p] = FALSE]
      BY <1>7, <2>2 DEF Meet
    <3>2. isKing' \in [Procs -> BOOLEAN] /\ \A q \in Procs : isKing'[q] => isKing[q] \/ q = k
      BY <3>1 DEF LineInv, KingInv
    <3> QED
      BY <2>2, <3>2, LeaveLine DEF End, LineInv
  <2>3. CASE UNCHANGED <<phase, line>>
    BY <1>7, <2>3, MeetLine DEF LineInv, SeatInv, KingInv, InLine
  <2> QED
    BY <1>7, <2>1, <2>2, <2>3 DEF ReportNull
<1>8. ASSUME NEW p \in Procs, CreateOurPeasantAgain(p) PROVE LineInv'
  <2>1. PICK k \in Procs : \E m \in Instances(k) : Meet(p, k, m) /\ ReportNull(p, k)
    BY <1>8 DEF CreateOurPeasantAgain
  <2>2. PICK m \in Instances(k) : Meet(p, k, m) /\ ReportNull(p, k)
    BY <2>1
  <2> QED
    BY <1>7, <2>2
<1>9. ASSUME NEW p \in Procs, Elect(p) PROVE LineInv'
  <2>1. PICK k \in Procs : \E m \in Instances(k) :
          IF last[p] = 0
          THEN Meet(p, k, m) /\ ReportNull(p, k)
          ELSE /\ Meet(p, k, HandleActivatePeasant(m, id[p], last[p]))
               /\ waiter' = [waiter EXCEPT ![p] = "add"]
               /\ UNCHANGED <<phase, line, peasant, activity>>
    BY <1>9 DEF Elect
  <2>2. CASE \E m : Meet(p, k, m) /\ ReportNull(p, k)
    BY <1>7, <2>2
  <2>3. CASE (\E m : Meet(p, k, m)) /\ UNCHANGED <<phase, line>>
    BY <2>3, MeetLine DEF LineInv, SeatInv, KingInv, InLine
  <2> QED
    BY <2>1, <2>2, <2>3
<1>10. ASSUME NEW p \in Procs, Close(p) PROVE LineInv'
  BY <1>10, LeaveLine DEF Close, LineInv, KingInv
<1>11. ASSUME NEW p \in Procs, Step(p) PROVE LineInv'
  <2>1. CASE Connect(p)
    BY <1>3, <2>1
  <2>2. CASE \E target \in Targets : ProposeAsKing(p, target)
    BY <1>4, <2>2 DEF ProposeAsKing
  <2>3. CASE \E target \in Targets : Propose(p, target)
    BY <1>5, <2>3
  <2>4. CASE ProposeFails(p) \/ Join(p)
    BY <1>2, <2>4 DEF ProposeFails, Join
  <2>5. CASE CreateOurPeasant(p) \/ CreateOurPeasantAgain(p)
    BY <1>6, <1>8, <2>5
  <2>6. CASE (\E time \in stamped[p] : ActivateWindow(p, time)) \/ Rename(p)
    BY <2>6, SameLine DEF ActivateWindow, Rename, LineInv
  <2> QED
    BY <1>11, <2>1, <2>2, <2>3, <2>4, <2>5, <2>6 DEF Step
<1>12. ASSUME NEW p \in Procs, Watch(p) \/ ElectAdd(p) PROVE LineInv'
  BY <1>12, SameLine DEF Watch, ElectAdd, LineInv
<1>13. ASSUME NEW p \in Procs,
              \/ Stamp(p)
              \/ \E new \in Names : RequestRename(p, new)
              \/ \E target \in Targets : SummonWindow(p, target)
       PROVE  LineInv'
  BY <1>13, SameLine DEF Stamp, RequestRename, SummonWindow, LineInv
<1>14. ASSUME NEW p \in Procs, Kill(p) PROVE LineInv'
  BY <1>2, <1>14 DEF Kill
<1> QED
  BY <1>0, <1>1, <1>9, <1>10, <1>11, <1>12, <1>13, <1>14 DEF Next, Election

\* LineInv holds in every reachable state.
THEOREM LineOfSuccession == Spec => []LineInv
  BY InitLine, NextLine, PTL DEF Spec

\* Of the processes COM can still hand out, at most one believes to be king, and
\* it is the one new processes are sent to.
THEOREM OneKingAtMost == Spec => []OneKing
<1>1. LineInv => OneKing
  BY DEF LineInv, SeatInv, KingInv, OneKing, InLine
<1> QED
  BY <1>1, LineOfSuccession, PTL
-----------------------------------------------------------------------------
(***************************************************************************)
(* The list of recent windows                                              *)
(***************************************************************************)

\* An entry has an ID and a time.
LEMMA EntryTimes == \A e \in MruEntry : e.id \in Id /\ e.time \in Nat
  BY DEF MruEntry

\* An entry that is erased takes nothing else with it.
LEMMA ClearedMru ==
  ASSUME NEW mru \in Seq(MruEntry), Descending(mru), NEW i
  PROVE  LET c == ClearOldMruEntries(mru, i)
         IN  /\ c \in Seq(MruEntry)
             /\ Descending(c)
             /\ \A n \in Entries(c) : c[n].id # i
<1> DEFINE hits == {n \in Entries(mru) : mru[n].id = i}
           first == CHOOSE n \in hits : \A j \in hits : n <= j
           c == ClearOldMruEntries(mru, i)
<1>1. CASE hits = {}
  <2>1. c = mru
    BY <1>1 DEF ClearOldMruEntries
  <2> QED
    BY <1>1, <2>1
<1>2. CASE hits # {}
  <2>1. hits \subseteq Nat
    BY DEF Entries
  <2>2. first \in hits /\ \A j \in hits : first <= j
    <3>1. \E n \in hits : \A j \in hits : n <= j
      BY <1>2, <2>1, Least
    <3> HIDE DEF hits
    <3> QED
      BY <3>1
  <2>3. c = SubSeq(mru, 1, first - 1) \o SubSeq(mru, first + 1, Len(mru))
    BY <1>2 DEF ClearOldMruEntries
  <2>4. first \in 1 .. Len(mru) /\ mru[first].id = i
    BY <2>2 DEF Entries
  <2> HIDE DEF first, c
  <2>5. c \in Seq(MruEntry) /\ Removed(c, mru, first)
    BY <2>3, <2>4, RemovedAt
  <2>6. \A n \in 1 .. Len(c) : c[n] = IF n < first THEN mru[n] ELSE mru[n + 1]
    BY <2>4, <2>5 DEF Removed
  <2>7. Len(mru) \in Nat /\ Len(c) = Len(mru) - 1
    BY <2>5 DEF Removed
  <2>8. ASSUME NEW n \in 1 .. Len(c), NEW j \in 1 .. Len(c), n < j
        PROVE  c[n].id # c[j].id /\ c[n].time >= c[j].time
    <3>1. PICK x \in 1 .. Len(mru), y \in 1 .. Len(mru) : c[n] = mru[x] /\ c[j] = mru[y] /\ x < y
      BY <2>4, <2>6, <2>7, <2>8
    <3> QED
      BY <3>1 DEF Descending, Entries
  <2>9. Descending(c)
    BY <2>8 DEF Descending, Entries
  <2>10. \A n \in 1 .. Len(c) : c[n].id # i
    BY <2>4, <2>6, <2>7 DEF Descending, Entries
  <2> QED
    BY <2>5, <2>9, <2>10 DEF Entries, c
<1> QED
  BY <1>1, <1>2

\* The entries with a later time are the first ones.
LEMMA LaterFirst ==
  ASSUME NEW mru \in Seq(MruEntry), Descending(mru), NEW t \in Nat
  PROVE  \E k \in 0 .. Len(mru) :
           /\ {n \in Entries(mru) : mru[n].time > t} = 1 .. k
           /\ Cardinality({n \in Entries(mru) : mru[n].time > t}) = k
<1> DEFINE later == {n \in Entries(mru) : mru[n].time > t}
           others == {n \in 1 .. (Len(mru) + 1) : n \notin later}
<1>1. Len(mru) \in Nat /\ \A n \in 1 .. Len(mru) : mru[n].time \in Nat
  BY EntryTimes
<1>2. PICK o \in others : \A j \in others : o <= j
  <2>1. Len(mru) + 1 \in others
    BY <1>1 DEF Entries
  <2>2. others \subseteq Nat
    BY <1>1
  <2> HIDE DEF others
  <2> QED
    BY <2>1, <2>2, Least
<1>3. \A n \in 1 .. (o - 1) : n \in later
  BY <1>1, <1>2
<1>4. ASSUME NEW n \in later PROVE n < o
  <2>1. n \in 1 .. Len(mru) /\ mru[n].time > t /\ o \in 1 .. (Len(mru) + 1) /\ o # n
    BY <1>4, <1>2 DEF Entries
  <2>2. CASE o < n
    <3>1. o \in 1 .. Len(mru) /\ mru[o].time >= mru[n].time
      BY <1>1, <2>1, <2>2 DEF Descending, Entries
    <3>2. mru[o].time > t
      BY <1>1, <2>1, <3>1
    <3> QED
      BY <1>2, <3>1, <3>2 DEF Entries
  <2> QED
    BY <1>1, <2>1, <2>2
<1>5. later = 1 .. (o - 1)
  BY <1>1, <1>2, <1>3, <1>4 DEF Entries
<1>6. Cardinality(1 .. (o - 1)) = o - 1
  BY <1>1, <1>2, FS_Interval
<1>7. o - 1 \in 0 .. Len(mru)
  BY <1>1, <1>2
<1> QED
  BY <1>5, <1>6, <1>7

\* A new entry goes where its time belongs.
LEMMA InsertedMru ==
  ASSUME NEW mru \in Seq(MruEntry), Descending(mru), NEW e \in MruEntry,
         \A n \in Entries(mru) : mru[n].id # e.id
  PROVE  InsertByTime(mru, e) \in Seq(MruEntry) /\ Descending(InsertByTime(mru, e))
<1> DEFINE later == {n \in Entries(mru) : mru[n].time > e.time}
           r == InsertByTime(mru, e)
<1>0. e.time \in Nat /\ Len(mru) \in Nat /\ \A n \in 1 .. Len(mru) : mru[n].time \in Nat
  BY EntryTimes
<1>1. PICK k \in 0 .. Len(mru) : later = 1 .. k /\ Cardinality(later) = k
  BY <1>0, LaterFirst
<1>2. r = SubSeq(mru, 1, k) \o <<e>> \o SubSeq(mru, k + 1, Len(mru))
  BY <1>1 DEF InsertByTime
<1>3. \A n \in 1 .. k : mru[n].time >= e.time
  BY <1>0, <1>1 DEF Entries
<1>4. \A n \in (k + 1) .. Len(mru) : e.time >= mru[n].time
  BY <1>0, <1>1 DEF Entries
<1> HIDE DEF r, later
<1>5. r \in Seq(MruEntry) /\ Inserted(r, mru, k, e)
  BY <1>2, InsertedAt
<1>6. \A n \in 1 .. Len(r) : r[n] = IF n <= k THEN mru[n] ELSE IF n = k + 1 THEN e ELSE mru[n - 1]
  BY <1>0, <1>5 DEF Inserted
<1>7. Len(r) = Len(mru) + 1
  BY <1>5 DEF Inserted
<1>8. ASSUME NEW i \in Entries(r), NEW j \in Entries(r), i < j
      PROVE  r[i].id # r[j].id /\ r[i].time >= r[j].time
  <2> i \in 1 .. Len(r) /\ j \in 1 .. Len(r)
    BY DEF Entries
  <2>1. CASE i = k + 1
    <3>1. ~ (j <= k) /\ j # k + 1 /\ j - 1 \in (k + 1) .. Len(mru)
      BY <1>0, <1>8, <1>7, <2>1
    <3>2. r[i] = e /\ r[j] = mru[j - 1]
      BY <1>0, <1>6, <2>1, <3>1
    <3> QED
      BY <1>0, <1>4, <3>1, <3>2 DEF Entries
  <2>2. CASE j = k + 1
    BY <1>0, <1>3, <1>6, <1>8, <1>7, <2>2 DEF Entries
  <2>3. CASE i # k + 1 /\ j # k + 1
    <3>1. PICK x \in 1 .. Len(mru), y \in 1 .. Len(mru) : r[i] = mru[x] /\ r[j] = mru[y] /\ x < y
      <4> DEFINE x == IF i <= k THEN i ELSE i - 1
                 y == IF j <= k THEN j ELSE j - 1
      <4>1. x \in 1 .. Len(mru) /\ y \in 1 .. Len(mru) /\ x < y
        BY <1>0, <1>7, <1>8, <2>3
      <4>2. r[i] = mru[x] /\ r[j] = mru[y]
        BY <1>6, <2>3
      <4> HIDE DEF x, y
      <4> QED
        BY <4>1, <4>2
    <3> QED
      BY <3>1 DEF Entries, Descending
  <2> QED
    BY <2>1, <2>2, <2>3
<1> QED
  BY <1>5, <1>8 DEF Descending, r

\* How Without walks over the list.
LEMMA WithoutWalk ==
  ASSUME NEW mru \in Seq(MruEntry), NEW ids
  PROVE  \E kept : /\ Without(mru, ids) = kept[Len(mru)]
                   /\ kept[0] = << >>
                   /\ \A n \in 1 .. Len(mru) : kept[n] = KeepUnless(kept[n - 1], mru[n], ids)
<1> DEFINE N == Len(mru)
           S == Seq(MruEntry)
           empty == << >>
           K(s, n) == KeepUnless(s, mru[n], ids)
           step == [n \in Nat |-> [s \in S |-> IF n \in 1 .. N THEN K(s, n) ELSE s]]
           G(f) == f = [n \in 0 .. N |-> IF n = 0 THEN empty ELSE K(f[n - 1], n)]
<1>0. N \in Nat /\ empty \in S /\ \A n \in 1 .. N : \A s \in S : K(s, n) \in S
  BY DEF KeepUnless
<1> HIDE DEF N, S, empty, K
<1>1. step \in [Nat -> [S -> S]] /\ \A n \in 1 .. N : \A s \in S : step[n][s] = K(s, n)
  BY <1>0
<1> HIDE DEF step
<1>2. PICK f : Computes(f, S, empty, step, N)
  BY <1>0, <1>1, RecursionUpTo
<1>3. ASSUME NEW n \in 1 .. N PROVE f[n] = K(f[n - 1], n)
  <2>1. n - 1 \in 0 .. N
    BY <1>0
  <2> QED
    BY <1>1, <1>2, <2>1 DEF Computes
<1>4. G(f)
  BY <1>0, <1>2, <1>3 DEF Computes
<1> DEFINE kept == CHOOSE g : G(g)
<1>5. G(kept)
  BY <1>4
<1>6. Without(mru, ids) = kept[N]
  BY DEF Without, N, K, empty
<1> HIDE DEF kept
<1>7. kept[0] = empty /\ \A n \in 1 .. N : kept[n] = K(kept[n - 1], n)
  BY <1>0, <1>5
<1> QED
  BY <1>6, <1>7 DEF N, K, empty

\* s is what is kept of the first n entries.
Survivors(s, mru, n) ==
  /\ s \in Seq(MruEntry)
  /\ Descending(s)
  /\ \A i \in 1 .. Len(s) : \E j \in 1 .. n : s[i] = mru[j]

\* Erasing entries leaves the others in their order.
LEMMA WithoutMru ==
  ASSUME NEW mru \in Seq(MruEntry), Descending(mru), NEW ids
  PROVE  Without(mru, ids) \in Seq(MruEntry) /\ Descending(Without(mru, ids))
<1> DEFINE N == Len(mru)
<1>1. PICK kept : /\ Without(mru, ids) = kept[N]
                  /\ kept[0] = << >>
                  /\ \A n \in 1 .. N : kept[n] = KeepUnless(kept[n - 1], mru[n], ids)
  BY WithoutWalk
<1> DEFINE P == {n \in 0 .. N : Survivors(kept[n], mru, n)}
<1>0. N \in Nat
  OBVIOUS
<1>2. 0 \in P
  <2>1. << >> \in Seq(MruEntry) /\ Len(<< >>) = 0 /\ 1 .. 0 = {}
    OBVIOUS
  <2>2. Survivors(<< >>, mru, 0)
    BY <2>1 DEF Survivors, Descending, Entries
  <2> QED
    BY <1>0, <1>1, <2>2
<1>3. ASSUME NEW n \in 1 .. N, n - 1 \in P PROVE n \in P
  <2> DEFINE s == kept[n - 1]
             t == kept[n]
  <2>1. Survivors(s, mru, n - 1) /\ t = KeepUnless(s, mru[n], ids)
    BY <1>1, <1>3
  <2>2. CASE t = s
    <3>1. Survivors(s, mru, n)
      BY <1>0, <2>1 DEF Survivors
    <3> QED
      BY <1>0, <2>2, <3>1
  <2>3. CASE t = Append(s, mru[n])
    <3> HIDE DEF s, t
    <3>0. mru[n] \in MruEntry
      OBVIOUS
    <3>1. /\ t \in Seq(MruEntry) /\ Len(s) \in Nat /\ Len(t) = Len(s) + 1
          /\ t[Len(s) + 1] = mru[n] /\ \A i \in 1 .. Len(s) : t[i] = s[i]
      BY <2>1, <2>3, <3>0, AppendProperties DEF Survivors
    <3>2. ASSUME NEW i \in 1 .. Len(t) PROVE \E j \in 1 .. n : t[i] = mru[j]
      <4>1. CASE i = Len(s) + 1
        BY <1>0, <3>1, <4>1
      <4>2. CASE i \in 1 .. Len(s)
        <5>1. PICK j \in 1 .. (n - 1) : s[i] = mru[j]
          BY <2>1, <4>2 DEF Survivors
        <5> QED
          BY <1>0, <3>1, <4>2, <5>1
      <4> QED
        BY <3>1, <4>1, <4>2
    <3>3. ASSUME NEW i \in 1 .. Len(t), NEW k \in 1 .. Len(t), i < k
          PROVE  t[i].id # t[k].id /\ t[i].time >= t[k].time
      <4>1. i \in 1 .. Len(s) /\ t[i] = s[i]
        BY <3>1, <3>3
      <4>2. CASE k \in 1 .. Len(s)
        BY <2>1, <3>1, <3>3, <4>1, <4>2 DEF Survivors, Descending, Entries
      <4>3. CASE k = Len(s) + 1
        <5>1. PICK j \in 1 .. (n - 1) : s[i] = mru[j]
          BY <2>1, <4>1 DEF Survivors
        <5>2. mru[j].id # mru[n].id /\ mru[j].time >= mru[n].time
          BY <1>0, <5>1 DEF Descending, Entries
        <5> QED
          BY <3>1, <4>1, <4>3, <5>1, <5>2
      <4> QED
        BY <3>1, <4>2, <4>3
    <3>4. Descending(t)
      BY <3>3 DEF Descending, Entries
    <3>5. Survivors(t, mru, n)
      BY <3>1, <3>2, <3>4 DEF Survivors
    <3> QED
      BY <1>0, <3>5 DEF t
  <2> QED
    BY <2>1, <2>2, <2>3 DEF KeepUnless
<1> HIDE DEF N, P
<1>4. \A n \in 1 .. N : n - 1 \in P => n \in P
  BY <1>3
<1>5. \A n \in 0 .. N : n \in P
  BY <1>0, <1>2, <1>4, SetInductionUpTo
<1>6. N \in P
  BY <1>0, <1>5
<1> QED
  BY <1>1, <1>6 DEF P, Survivors
-----------------------------------------------------------------------------
(***************************************************************************)
(* The monarchs                                                            *)
(***************************************************************************)

\* A monarch that has just been created has no peasants.
LEMMA SoundCreated == Sound(FreshMonarch)
<1>1. << >> \in Seq(MruEntry) /\ Len(<< >>) = 0 /\ 1 .. 0 = {}
  OBVIOUS
<1> QED
  BY <1>1 DEF Sound, FreshMonarch, Descending, Entries

\* AddPeasant keeps the next ID above all others, whatever ID the peasant brings.
LEMMA SoundAdded ==
  ASSUME NEW m, Sound(m), NEW p \in Procs, NEW provided \in Nat
  PROVE  AssignedID(m, provided) \in Id /\ Sound(AddPeasant(m, p, provided))
<1> DEFINE new == AssignedID(m, provided)
           next == NextID(m, provided)
           a == AddPeasant(m, p, provided)
<1>1. new \in Id /\ next \in Id /\ new < next /\ m.next <= next
  BY DEF Sound, AssignedID, NextID
<1>2. /\ DOMAIN a = {"peasants", "next", "mru"} /\ a.next = next /\ a.mru = m.mru
      /\ DOMAIN a.peasants = DOMAIN m.peasants \cup {new}
      /\ \A i \in DOMAIN a.peasants : a.peasants[i] = IF i = new THEN p ELSE m.peasants[i]
  BY DEF Sound, AddPeasant
<1>3. \A i \in DOMAIN m.peasants : i \in Id /\ i < m.next /\ m.peasants[i] \in Procs
  BY DEF Sound
<1> HIDE DEF new, next, a
<1>4. \A i \in DOMAIN a.peasants : i \in Id /\ i < a.next /\ a.peasants[i] \in Procs
  BY <1>1, <1>2, <1>3 DEF Sound
<1>5. Sound(a)
  BY <1>1, <1>2, <1>4 DEF Sound
<1> QED
  BY <1>1, <1>5 DEF new, a

\* Forgetting peasants leaves the other IDs alone.
LEMMA SoundForgotten ==
  ASSUME NEW m, Sound(m), NEW ids PROVE Sound(Forget(m, ids))
<1>1. Without(m.mru, ids) \in Seq(MruEntry) /\ Descending(Without(m.mru, ids))
  BY WithoutMru DEF Sound
<1> QED
  BY <1>1 DEF Sound, Forget

\* Recording an activation changes nothing but the list, and keeps it in order.
LEMMA SoundActivated ==
  ASSUME NEW m, Sound(m), NEW i \in Id, NEW time \in Nat
  PROVE  Sound(HandleActivatePeasant(m, i, time))
<1> DEFINE c == ClearOldMruEntries(m.mru, i)
           e == [id |-> i, time |-> time]
<1>1. c \in Seq(MruEntry) /\ Descending(c) /\ \A n \in Entries(c) : c[n].id # i
  BY ClearedMru DEF Sound
<1>2. e \in MruEntry /\ e.id = i
  BY DEF MruEntry
<1> HIDE DEF c, e
<1>3. InsertByTime(c, e) \in Seq(MruEntry) /\ Descending(InsertByTime(c, e))
  BY <1>1, <1>2, InsertedMru
<1> QED
  BY <1>3 DEF Sound, HandleActivatePeasant, c, e

\* No lookup adds a peasant.
LEMMA SoundLookup ==
  ASSUME MonarchInv, NEW k \in Procs, NEW target, NEW found \in Lookup(k, target)
  PROVE  Sound(found.monarch)
<1>0. Sound(mon[k]) /\ \A ids : Sound(Forget(mon[k], ids))
  BY SoundForgotten DEF MonarchInv
<1>1. \A i : Sound(GetPeasant(mon[k], i, Alive).monarch)
  BY <1>0 DEF GetPeasant, Result
<1>2. \A named : \A r \in LookupPeasantIdForName(mon[k], named, Alive) : Sound(r.monarch)
  BY <1>0 DEF LookupPeasantIdForName, Result
<1>3. \A skipped : \A r \in GetMostRecentPeasantID(mon[k], Alive, skipped) : Sound(r.monarch)
  BY <1>0 DEF GetMostRecentPeasantID, Result
<1>4. Sound(Result(0, mon[k]).monarch)
  BY <1>0 DEF Result
<1> QED
  BY <1>1, <1>2, <1>3, <1>4 DEF Lookup

\* One monarch is replaced by one with fresh IDs.
LEMMA SoundUpdate ==
  ASSUME MonarchInv, NEW k \in Procs, NEW m, Sound(m), mon' = [mon EXCEPT ![k] = m],
         id' \in [Procs -> Nat]
  PROVE  MonarchInv'
  BY DEF MonarchInv

\* What a command line asks for is an ID, or 0.
LEMMA AskedNumber ==
  ASSUME NEW target \in Targets \cup {[kind |-> "new"]} PROVE AskedID(target) \in Nat
<1>1. CASE target \in [kind : {"id"}, id : GivenIds]
  <2>1. target.id \in GivenIds
    BY <1>1
  <2> QED
    BY <2>1, WindowConstants DEF AskedID
<1>2. CASE target \in [kind : {"name"}, name : Names \ {NoName}]
  <2>1. target.kind = "name"
    BY <1>2
  <2> QED
    BY <2>1 DEF AskedID
<1>3. CASE target = [kind |-> "new"] \/ target = [kind |-> "recent"]
  <2>1. target.kind = "new" \/ target.kind = "recent"
    BY <1>3
  <2> QED
    BY <2>1 DEF AskedID
<1> QED
  BY <1>1, <1>2, <1>3 DEF Targets

\* ... and a name, or none.
LEMMA AskedText ==
  ASSUME NEW target \in Targets \cup {[kind |-> "new"]}
  PROVE  AskedName(target) \in Names \cup {NoName}
<1>1. CASE target \in [kind : {"id"}, id : GivenIds]
  <2>1. target.kind = "id"
    BY <1>1
  <2> QED
    BY <2>1 DEF AskedName
<1>2. CASE target \in [kind : {"name"}, name : Names \ {NoName}]
  <2>1. target.name \in Names
    BY <1>2
  <2> QED
    BY <2>1 DEF AskedName
<1>3. CASE target = [kind |-> "new"] \/ target = [kind |-> "recent"]
  <2>1. target.kind = "new" \/ target.kind = "recent"
    BY <1>3
  <2> QED
    BY <2>1 DEF AskedName
<1> QED
  BY <1>1, <1>2, <1>3 DEF Targets

\* Every action keeps the monarchs sound.
LEMMA NextMonarchs == LifeInv /\ MonarchInv /\ [Next]_vars => MonarchInv'
<1> SUFFICES ASSUME LifeInv, MonarchInv, [Next]_vars PROVE MonarchInv'
  OBVIOUS
<1> USE DEF line, crown, peasant, activity
<1>a. ASSUME mon' = mon, id' = id PROVE MonarchInv'
  BY <1>a DEF MonarchInv
<1>b. ASSUME NEW p \in Procs, Abdicate(p), id' = id PROVE MonarchInv'
  BY <1>b, SoundUpdate, SoundCreated DEF Abdicate, MonarchInv
<1>c. ASSUME NEW k \in Procs, NEW m \in Instances(k) PROVE Sound(m)
  BY <1>c, SoundCreated DEF Instances, MonarchInv
<1>d. ASSUME NEW p \in Procs, MonarchAlive(p), Enlist(p) PROVE MonarchInv'
  <2>1. monarchOf[p] \in Procs /\ id[p] \in Nat
    BY <1>d DEF MonarchAlive, Alive, MonarchInv
  <2>2. Sound(AddPeasant(mon[monarchOf[p]], p, id[p])) /\ AssignedID(mon[monarchOf[p]], id[p]) \in Id
    BY <2>1, SoundAdded DEF MonarchInv
  <2>3. id' \in [Procs -> Nat]
    BY <1>d, <2>2 DEF Enlist, MonarchInv
  <2> QED
    BY <1>d, <2>1, <2>2, <2>3, SoundUpdate DEF Enlist
<1>e. ASSUME NEW p \in Procs, NEW k \in Procs, NEW m \in Instances(k), Meet(p, k, m),
             ReportNull(p, k)
      PROVE  MonarchInv'
  <2>1. id' = id
    BY <1>e DEF ReportNull, End
  <2> QED
    BY <1>c, <1>e, <2>1, SoundUpdate DEF Meet, MonarchInv
<1>0. CASE UNCHANGED vars
  BY <1>0, <1>a DEF vars
<1>1. ASSUME NEW p \in Procs, Start(p) PROVE MonarchInv'
  BY <1>1, <1>a DEF Start
<1>2. ASSUME NEW p \in Procs, Connect(p) PROVE MonarchInv'
  <2>1. PICK k \in Procs : \E m \in Instances(k) : Meet(p, k, m)
    BY <1>2 DEF Connect
  <2>2. PICK m \in Instances(k) : Meet(p, k, m)
    BY <2>1
  <2>3. id' = id
    BY <1>2 DEF Connect
  <2> QED
    BY <1>c, <2>2, <2>3, SoundUpdate DEF Meet, MonarchInv
<1>3. ASSUME NEW p \in Procs, NEW target \in Targets, ProposeAsKing(p, target) PROVE MonarchInv'
  <2>1. AskedID(target) \in Nat
    BY AskedNumber
  <2> QED
    BY <1>3, <2>1 DEF ProposeAsKing, BecomeWindow, MonarchInv
<1>4. ASSUME NEW p \in Procs, NEW target \in Targets, Propose(p, target) PROVE MonarchInv'
  <2> DEFINE k == monarchOf[p]
             asked == IF isKing[k] THEN target ELSE [kind |-> "new"]
  <2>1. k \in Procs
    BY <1>4 DEF Propose, MonarchAlive, Alive
  <2>2. PICK found \in Lookup(k, asked) :
          /\ mon' = [mon EXCEPT ![k] = found.monarch]
          /\ \/ End(p, "dead")
             \/ BecomeWindow(p, 0, AskedName(asked))
             \/ BecomeWindow(p, AskedID(asked), AskedName(asked))
    BY <1>4 DEF Propose
  <2>3. AskedID(asked) \in Nat
    BY AskedNumber
  <2> HIDE DEF k, asked
  <2>4. id' \in [Procs -> Nat]
    BY <2>2, <2>3 DEF End, BecomeWindow, MonarchInv
  <2> QED
    BY <2>1, <2>2, <2>4, SoundLookup, SoundUpdate
<1>5. ASSUME NEW p \in Procs, CreateOurPeasant(p) PROVE MonarchInv'
  BY <1>5, <1>d DEF CreateOurPeasant
<1>6. ASSUME NEW p \in Procs, CreateOurPeasantAgain(p) PROVE MonarchInv'
  BY <1>6, <1>e DEF CreateOurPeasantAgain
<1>7. ASSUME NEW p \in Procs, NEW time \in stamped[p], ActivateWindow(p, time) PROVE MonarchInv'
  <2>1. CASE Hooked(p)
    <3>1. monarchOf[p] \in Procs
      BY <2>1 DEF Hooked, MonarchAlive, Alive
    <3>2. id[p] \in Id /\ time \in Nat
      BY <2>1 DEF Hooked, LifeInv, MonarchInv
    <3>3. Sound(HandleActivatePeasant(mon[monarchOf[p]], id[p], time))
      BY <3>1, <3>2, SoundActivated DEF MonarchInv
    <3> QED
      BY <1>7, <2>1, <3>1, <3>3, SoundUpdate DEF ActivateWindow, MonarchInv
  <2>2. CASE ~Hooked(p)
    BY <1>7, <2>2, <1>a DEF ActivateWindow
  <2> QED
    BY <2>1, <2>2
<1>8. ASSUME NEW p \in Procs, ProposeFails(p) \/ Join(p) \/ Kill(p) PROVE MonarchInv'
  BY <1>8, <1>b DEF ProposeFails, Join, Kill, End
<1>9. ASSUME NEW p \in Procs, Rename(p) \/ Watch(p) \/ Stamp(p) \/ Close(p) PROVE MonarchInv'
  BY <1>9, <1>a DEF Rename, Watch, Stamp, Close
<1>10. ASSUME NEW p \in Procs, Elect(p) PROVE MonarchInv'
  <2>1. PICK k \in Procs : \E m \in Instances(k) :
          IF last[p] = 0
          THEN Meet(p, k, m) /\ ReportNull(p, k)
          ELSE /\ Meet(p, k, HandleActivatePeasant(m, id[p], last[p]))
               /\ waiter' = [waiter EXCEPT ![p] = "add"]
               /\ UNCHANGED <<phase, line, peasant, activity>>
    BY <1>10 DEF Elect
  <2>2. PICK m \in Instances(k) :
          \/ Meet(p, k, m) /\ ReportNull(p, k)
          \/ Meet(p, k, HandleActivatePeasant(m, id[p], last[p])) /\ id' = id
    BY <2>1
  <2>3. CASE Meet(p, k, HandleActivatePeasant(m, id[p], last[p])) /\ id' = id
    <3>1. id[p] \in Id /\ last[p] \in Nat
      BY <1>10 DEF Elect, LifeInv, MonarchInv
    <3>2. Sound(HandleActivatePeasant(m, id[p], last[p]))
      BY <1>c, <3>1, SoundActivated
    <3> QED
      BY <2>3, <3>2, SoundUpdate DEF Meet, MonarchInv
  <2> QED
    BY <1>e, <2>2, <2>3
<1>11. ASSUME NEW p \in Procs, ElectAdd(p) PROVE MonarchInv'
  BY <1>11, <1>a, <1>d DEF ElectAdd
<1>12. ASSUME NEW p \in Procs, NEW new \in Names, RequestRename(p, new) PROVE MonarchInv'
  <2>1. monarchOf[p] \in Procs /\ id' = id
    BY <1>12 DEF RequestRename, Hooked, MonarchAlive, Alive
  <2>2. \E target : \E found \in Lookup(monarchOf[p], target) :
          mon' = [mon EXCEPT ![monarchOf[p]] = found.monarch]
    BY <1>12 DEF RequestRename
  <2> QED
    BY <2>1, <2>2, SoundLookup, SoundUpdate DEF MonarchInv
<1>13. ASSUME NEW p \in Procs, NEW target \in Targets, SummonWindow(p, target) PROVE MonarchInv'
  BY <1>13, SoundLookup, SoundUpdate DEF SummonWindow, MonarchInv
<1>14. ASSUME NEW p \in Procs, Step(p) PROVE MonarchInv'
  BY <1>14, <1>2, <1>3, <1>4, <1>5, <1>6, <1>7, <1>8, <1>9 DEF Step
<1>15. ASSUME NEW p \in Procs, Election(p) PROVE MonarchInv'
  BY <1>15, <1>9, <1>10, <1>11 DEF Election
<1> QED
  BY <1>0, <1>1, <1>8, <1>9, <1>12, <1>13, <1>14, <1>15 DEF Next
-----------------------------------------------------------------------------
(***************************************************************************)
(* The life of a process                                                   *)
(***************************************************************************)

\* Whoever ends has nothing left that a later step could rely on.
LEMMA EndLife ==
  ASSUME LineInv, MonarchInv, LifeInv, NEW p \in Procs, NEW how \in {"dead", "crashed"}, End(p, how),
         monarchOf' \in [Procs -> Procs \cup {NoProc}],
         \A q \in Procs : monarchOf'[q] # NoProc => phase[monarchOf'[q]] # "none"
  PROVE  LifeInv'
<1>1. /\ name' \in [Procs -> Names \cup {NoName}]
      /\ granted' \in [Procs -> Names \cup {NoName, Unasked}]
      /\ waiter' \in [Procs -> {"none", "watch", "elect", "add"}]
      /\ clock' \in Nat /\ stamped' \in [Procs -> SUBSET Nat] /\ last' \in [Procs -> Nat]
  BY DEF End, LifeInv
<1>2. \A q \in Procs : phase'[q] = IF q = p THEN how ELSE phase[q]
  BY DEF End, LineInv
<1>3. \A q \in Procs : monarchOf'[q] # NoProc => phase'[monarchOf'[q]] # "none"
  BY <1>2
<1>4. \A q \in Procs :
       /\ phase'[q] \in {"none", "connect", "propose"} => id'[q] = 0
       /\ phase'[q] \in {"window", "closing"} => id'[q] # 0
       /\ stamped'[q] # {} => phase'[q] = "window"
       /\ waiter'[q] # "none" => phase'[q] \in {"window", "closing"}
  BY <1>2 DEF End, LifeInv
<1> QED
  BY <1>1, <1>3, <1>4 DEF LifeInv

\* A process that meets a monarch meets one that was started.
LEMMA MeetLife ==
  ASSUME LineInv, LifeInv, NEW p \in Procs, NEW k \in Procs, NEW m, Meet(p, k, m)
  PROVE  /\ monarchOf' \in [Procs -> Procs \cup {NoProc}]
         /\ \A q \in Procs : monarchOf'[q] # NoProc => phase[monarchOf'[q]] # "none"
<1>1. phase[k] # "none"
  BY DEF Meet, IsFirst, InLine, LineInv, KingInv
<1> QED
  BY <1>1 DEF Meet, LifeInv

\* What does not touch a process's phase, ID, activations, election and monarch.
LEMMA SameLife ==
  ASSUME LifeInv, UNCHANGED <<phase, id, stamped, waiter, monarchOf, clock, last>>,
         name' \in [Procs -> Names \cup {NoName}],
         granted' \in [Procs -> Names \cup {NoName, Unasked}]
  PROVE  LifeInv'
  BY DEF LifeInv

\* AddPeasant gives a window its ID.
LEMMA EnlistLife ==
  ASSUME MonarchInv, LifeInv, NEW p \in Procs, MonarchAlive(p), Enlist(p)
  PROVE  /\ id'[p] # 0 /\ id' \in [Procs -> Nat]
         /\ \A q \in Procs : q # p => id'[q] = id[q]
         /\ id[p] # 0 => id'[p] = id[p]
<1> DEFINE k == monarchOf[p]
<1>1. k \in Procs
  BY DEF MonarchAlive, Alive
<1>2. AssignedID(mon[k], id[p]) \in Id
  BY <1>1, SoundAdded DEF MonarchInv
<1> QED
  BY <1>2 DEF Enlist, MonarchInv, AssignedID

\* Every action keeps the processes' lives in order.
LEMMA NextLife == LineInv /\ MonarchInv /\ LifeInv /\ [Next]_vars => LifeInv'
<1> SUFFICES ASSUME LineInv, MonarchInv, LifeInv, [Next]_vars PROVE LifeInv'
  OBVIOUS
<1> USE DEF line, crown, peasant, activity
<1>0. CASE UNCHANGED vars
  BY <1>0, SameLife DEF vars, LifeInv
<1>1. ASSUME NEW p \in Procs, Start(p) PROVE LifeInv'
  BY <1>1 DEF Start, LifeInv, LineInv
<1>2. ASSUME NEW p \in Procs, End(p, "dead"), Abdicate(p) PROVE LifeInv'
  BY <1>2, EndLife DEF Abdicate, LifeInv
<1>3. ASSUME NEW p \in Procs, Connect(p) PROVE LifeInv'
  <2>1. PICK k \in Procs : \E m \in Instances(k) : Meet(p, k, m)
    BY <1>3 DEF Connect
  <2>2. /\ monarchOf' \in [Procs -> Procs \cup {NoProc}]
        /\ \A q \in Procs : monarchOf'[q] # NoProc => phase[monarchOf'[q]] # "none"
    BY <2>1, MeetLife
  <2>3. phase[p] = "connect" /\ \A q \in Procs : phase'[q] = IF q = p THEN "propose" ELSE phase[q]
    BY <1>3 DEF Connect, LineInv
  <2>4. \A q \in Procs : monarchOf'[q] # NoProc => phase'[monarchOf'[q]] # "none"
    BY <2>2, <2>3
  <2> QED
    BY <1>3, <2>2, <2>3, <2>4 DEF Connect, LifeInv
<1>4. ASSUME NEW p \in Procs, phase[p] = "propose", NEW a \in Nat, NEW b \in Names \cup {NoName},
             BecomeWindow(p, a, b), UNCHANGED crown
      PROVE  LifeInv'
  BY <1>4 DEF BecomeWindow, LifeInv, LineInv, MonarchInv
<1>5. ASSUME NEW p \in Procs, NEW target \in Targets, Propose(p, target) PROVE LifeInv'
  <2> DEFINE asked == IF isKing[monarchOf[p]] THEN target ELSE [kind |-> "new"]
  <2>1. CASE End(p, "dead")
    BY <1>5, <2>1, EndLife DEF Propose, LifeInv
  <2>2. AskedID(asked) \in Nat /\ AskedName(asked) \in Names \cup {NoName}
    BY AskedNumber, AskedText
  <2>3. CASE BecomeWindow(p, 0, AskedName(asked)) \/ BecomeWindow(p, AskedID(asked), AskedName(asked))
    BY <1>4, <1>5, <2>2, <2>3 DEF Propose
  <2> QED
    BY <1>5, <2>1, <2>3 DEF Propose
<1>6. ASSUME NEW p \in Procs, CreateOurPeasant(p) PROVE LifeInv'
  <2>1. /\ id'[p] # 0 /\ id' \in [Procs -> Nat]
        /\ \A q \in Procs : q # p => id'[q] = id[q]
    BY <1>6, EnlistLife DEF CreateOurPeasant
  <2> QED
    BY <1>6, <2>1 DEF CreateOurPeasant, Enlist, LifeInv, LineInv
<1>7. ASSUME NEW p \in Procs, NEW k \in Procs, NEW m, Meet(p, k, m), ReportNull(p, k)
      PROVE  LifeInv'
  <2>1. /\ monarchOf' \in [Procs -> Procs \cup {NoProc}]
        /\ \A q \in Procs : monarchOf'[q] # NoProc => phase[monarchOf'[q]] # "none"
    BY <1>7, MeetLife
  <2>2. CASE UNCHANGED <<phase, line, peasant, waiter, activity>>
    BY <2>1, <2>2 DEF LifeInv
  <2>3. CASE End(p, "crashed") \/ End(k, "crashed")
    BY <2>1, <2>3, EndLife
  <2> QED
    BY <1>7, <2>2, <2>3 DEF ReportNull
<1>8. ASSUME NEW p \in Procs, Elect(p) PROVE LifeInv'
  <2>1. PICK k \in Procs : \E m \in Instances(k) :
          IF last[p] = 0
          THEN Meet(p, k, m) /\ ReportNull(p, k)
          ELSE /\ Meet(p, k, HandleActivatePeasant(m, id[p], last[p]))
               /\ waiter' = [waiter EXCEPT ![p] = "add"]
               /\ UNCHANGED <<phase, line, peasant, activity>>
    BY <1>8 DEF Elect
  <2>2. CASE \E m : Meet(p, k, m) /\ ReportNull(p, k)
    BY <1>7, <2>2
  <2>3. CASE (\E m : Meet(p, k, m)) /\ waiter' = [waiter EXCEPT ![p] = "add"]
             /\ UNCHANGED <<phase, line, peasant, activity>>
    <3>1. /\ monarchOf' \in [Procs -> Procs \cup {NoProc}]
          /\ \A q \in Procs : monarchOf'[q] # NoProc => phase[monarchOf'[q]] # "none"
      BY <2>3, MeetLife
    <3>2. waiter[p] = "elect"
      BY <1>8 DEF Elect
    <3> QED
      BY <2>3, <3>1, <3>2 DEF LifeInv
  <2> QED
    BY <2>1, <2>2, <2>3
<1>9. ASSUME NEW p \in Procs, Watch(p) PROVE LifeInv'
  BY <1>9 DEF Watch, LifeInv
<1>10. ASSUME NEW p \in Procs, ElectAdd(p) PROVE LifeInv'
  <2>1. CASE MonarchAlive(p)
    <3>1. /\ id'[p] # 0 /\ id' \in [Procs -> Nat]
          /\ \A q \in Procs : q # p => id'[q] = id[q]
          /\ id[p] # 0 => id'[p] = id[p]
      BY <1>10, <2>1, EnlistLife DEF ElectAdd
    <3> QED
      BY <1>10, <2>1, <3>1 DEF ElectAdd, Enlist, LifeInv
  <2>2. CASE ~MonarchAlive(p)
    BY <1>10, <2>2 DEF ElectAdd, LifeInv
  <2> QED
    BY <2>1, <2>2
<1>11. ASSUME NEW p \in Procs, Stamp(p) PROVE LifeInv'
  BY <1>11 DEF Stamp, LifeInv
<1>12. ASSUME NEW p \in Procs, NEW time \in stamped[p], ActivateWindow(p, time) PROVE LifeInv'
  BY <1>12 DEF ActivateWindow, LifeInv
<1>13. ASSUME NEW p \in Procs, NEW new \in Names, RequestRename(p, new) PROVE LifeInv'
  BY <1>13, SameLife DEF RequestRename, LifeInv
<1>14. ASSUME NEW p \in Procs, Rename(p) PROVE LifeInv'
  BY <1>14, SameLife DEF Rename, LifeInv
<1>15. ASSUME NEW p \in Procs, NEW target \in Targets, SummonWindow(p, target) PROVE LifeInv'
  BY <1>15, SameLife DEF SummonWindow, LifeInv
<1>16. ASSUME NEW p \in Procs, Close(p) PROVE LifeInv'
  BY <1>16 DEF Close, LifeInv, LineInv
<1>17. ASSUME NEW p \in Procs, Kill(p) PROVE LifeInv'
  BY <1>2, <1>17 DEF Kill
<1>18. ASSUME NEW p \in Procs, Step(p) PROVE LifeInv'
  <2>1. CASE \E target \in Targets : ProposeAsKing(p, target)
    BY <1>4, <2>1, AskedNumber, AskedText DEF ProposeAsKing
  <2>2. CASE CreateOurPeasantAgain(p)
    BY <1>7, <2>2 DEF CreateOurPeasantAgain
  <2>3. CASE ProposeFails(p) \/ Join(p)
    BY <1>2, <2>3 DEF ProposeFails, Join
  <2> QED
    BY <1>18, <1>3, <1>5, <1>6, <1>12, <1>14, <2>1, <2>2, <2>3 DEF Step
<1> QED
  BY <1>0, <1>1, <1>8, <1>9, <1>10, <1>11, <1>13, <1>15, <1>16, <1>17, <1>18 DEF Next, Election

\* The line of succession, the monarchs and the processes' lives stay in order.
THEOREM Invariance == Spec => [](LineInv /\ MonarchInv /\ LifeInv)
<1>1. Init => LineInv /\ MonarchInv /\ LifeInv
  <2>1. Init => MonarchInv
    BY SoundCreated DEF Init, MonarchInv
  <2>2. Init => LifeInv
    BY DEF Init, LifeInv
  <2> QED
    BY <2>1, <2>2, InitLine
<1> QED
  BY <1>1, NextLine, NextMonarchs, NextLife, PTL DEF Spec

\* Every variable keeps its type; a monarch tracks real IDs only.
THEOREM TypeCorrect == Spec => []TypeOK
<1>1. LineInv /\ MonarchInv /\ LifeInv => TypeOK
  BY DEF LineInv, SeatInv, KingInv, MonarchInv, LifeInv, TypeOK, Sound, IsMonarch
<1> QED
  BY <1>1, Invariance, PTL

\* No monarch ever hands out an ID that one of its peasants already has.
THEOREM IdsStayFresh == Spec => []NextIdFresh
<1>1. MonarchInv => NextIdFresh
  BY DEF MonarchInv, Sound, NextIdFresh
<1> QED
  BY <1>1, Invariance, PTL

\* In whatever order the activations are reported, a monarch's list has one entry
\* per window, the latest first.
THEOREM MruStaysSorted == Spec => []MruSorted
<1>1. MonarchInv => MruSorted
  BY DEF MonarchInv, Sound, MruSorted
<1> QED
  BY <1>1, Invariance, PTL
-----------------------------------------------------------------------------
(***************************************************************************)
(* Who can be found                                                        *)
(***************************************************************************)

\* An ID, once a process has one, never changes.
LEMMA IdsLast ==
  ASSUME LifeInv, MonarchInv, [Next]_vars, NEW q \in Procs, id[q] # 0
  PROVE  id'[q] = id[q]
<1> USE DEF line, crown, peasant, activity
<1>1. ASSUME NEW p \in Procs, MonarchAlive(p), Enlist(p) PROVE id'[q] = id[q]
  BY <1>1, EnlistLife
<1>2. ASSUME NEW p \in Procs, phase[p] = "propose", NEW a, NEW b, BecomeWindow(p, a, b)
      PROVE  id'[q] = id[q]
  BY <1>2 DEF BecomeWindow, LifeInv, MonarchInv
<1>3. ASSUME NEW p \in Procs, NEW k \in Procs, ReportNull(p, k) PROVE id'[q] = id[q]
  BY <1>3 DEF ReportNull, End
<1>4. ASSUME NEW p \in Procs, NEW target \in Targets, Propose(p, target) PROVE id'[q] = id[q]
  BY <1>2, <1>4 DEF Propose, End
<1>5. ASSUME NEW p \in Procs, Step(p) PROVE id'[q] = id[q]
  <2>1. CASE Connect(p) \/ ProposeFails(p) \/ Rename(p) \/ Join(p)
    BY <2>1 DEF Connect, ProposeFails, Rename, Join, End
  <2>2. CASE \E target \in Targets : ProposeAsKing(p, target)
    BY <1>2, <2>2 DEF ProposeAsKing
  <2>3. CASE CreateOurPeasant(p)
    BY <1>1, <2>3 DEF CreateOurPeasant
  <2>4. CASE CreateOurPeasantAgain(p)
    BY <1>3, <2>4 DEF CreateOurPeasantAgain
  <2>5. CASE \E time \in stamped[p] : ActivateWindow(p, time)
    BY <2>5 DEF ActivateWindow
  <2> QED
    BY <1>4, <1>5, <2>1, <2>2, <2>3, <2>4, <2>5 DEF Step
<1>6. ASSUME NEW p \in Procs, Election(p) PROVE id'[q] = id[q]
  <2>1. CASE Watch(p)
    BY <2>1 DEF Watch
  <2>2. CASE Elect(p)
    BY <1>3, <2>2 DEF Elect
  <2>3. CASE ElectAdd(p)
    BY <1>1, <2>3 DEF ElectAdd
  <2> QED
    BY <1>6, <2>1, <2>2, <2>3 DEF Election
<1>7. ASSUME NEW p \in Procs, Start(p) \/ Stamp(p) \/ Close(p) \/ Kill(p) PROVE id'[q] = id[q]
  BY <1>7 DEF Start, Stamp, Close, Kill, End
<1>8. ASSUME NEW p \in Procs,
             \/ \E new \in Names : RequestRename(p, new)
             \/ \E target \in Targets : SummonWindow(p, target)
      PROVE  id'[q] = id[q]
  BY <1>8 DEF RequestRename, SummonWindow
<1>9. CASE UNCHANGED vars
  BY <1>9 DEF vars
<1> QED
  BY <1>5, <1>6, <1>7, <1>8, <1>9 DEF Next

\* m2 still finds p wherever m did.
Keeps(m, m2, p) == \A i : Finds(m, i, p) => Finds(m2, i, p)

\* The monarch only forgets the dead.
LEMMA ForgetKeeps ==
  ASSUME NEW m, Sound(m), NEW alive, NEW p \in alive, NEW ids \in SUBSET Dead(m, alive)
  PROVE  Keeps(m, Forget(m, ids), p)
<1>1. \A i \in DOMAIN m.peasants : m.peasants[i] = p => i \notin ids
  BY DEF Dead
<1>2. /\ DOMAIN Forget(m, ids).peasants = DOMAIN m.peasants \ ids
      /\ \A i \in DOMAIN m.peasants \ ids : Forget(m, ids).peasants[i] = m.peasants[i]
  BY DEF Forget, Sound
<1> QED
  BY <1>1, <1>2 DEF Keeps, Finds

\* So does every lookup.
LEMMA LookupKeeps ==
  ASSUME MonarchInv, NEW k \in Procs, NEW target, NEW found \in Lookup(k, target), NEW p \in Alive
  PROVE  Keeps(mon[k], found.monarch, p)
<1> DEFINE m == mon[k]
           dead == Dead(m, Alive)
<1>0. Sound(m) /\ Keeps(m, m, p)
  BY DEF MonarchInv, Keeps
<1>1. \A ids \in SUBSET dead : Keeps(m, Forget(m, ids), p)
  BY <1>0, ForgetKeeps
<1> HIDE DEF m
<1>2. \A i : Keeps(m, GetPeasant(m, i, Alive).monarch, p)
  <2> TAKE i
  <2>1. i \in dead => {i} \in SUBSET dead
    OBVIOUS
  <2> QED
    BY <1>0, <1>1, <2>1 DEF GetPeasant, Result
<1>3. \A named : \A r \in LookupPeasantIdForName(m, named, Alive) : Keeps(m, r.monarch, p)
  <2>1. dead \in SUBSET dead
    OBVIOUS
  <2> QED
    BY <1>1, <2>1 DEF LookupPeasantIdForName, Result
<1>4. ASSUME NEW skipped, NEW r \in GetMostRecentPeasantID(m, Alive, skipped)
      PROVE  Keeps(m, r.monarch, p)
  <2> DEFINE stops == Stops(m, Alive, skipped)
             stop == CHOOSE i \in stops : \A j \in stops : i <= j
             met == {m.mru[i].id : i \in IF stops = {} THEN Entries(m.mru) ELSE 1 .. stop}
             rest == Forget(m, met \cap dead)
  <2>1. \/ \E i : r = Result(i, m)
        \/ \E i : r = Result(i, rest)
    <3> HIDE DEF rest
    <3>1. r \in (IF m.mru = << >>
                 THEN IF DOMAIN m.peasants = {} THEN {Result(0, m)}
                      ELSE {Result(IF i \in Dead(m, Alive) THEN 0 ELSE i, m) : i \in DOMAIN m.peasants}
                 ELSE IF stops = {} THEN {Result(0, rest)}
                      ELSE IF m.mru[stop].id \in DOMAIN m.peasants THEN {Result(m.mru[stop].id, rest)}
                           ELSE {})
      BY <1>4, Zenon DEF GetMostRecentPeasantID, rest
    <3> HIDE DEF stops, stop
    <3> QED
      BY <3>1
  <2> HIDE DEF rest
  <2>3. r.monarch = m \/ r.monarch = rest
    BY <2>1 DEF Result
  <2> HIDE DEF met
  <2>2. met \cap dead \in SUBSET dead
    OBVIOUS
  <2> QED
    BY <1>0, <1>1, <2>2, <2>3 DEF rest
<1>5. Keeps(m, Result(0, m).monarch, p)
  BY <1>0 DEF Result
<1> QED
  BY <1>2, <1>3, <1>4, <1>5 DEF Lookup, m

\* A process that was alive, or had not been started, is all that can be alive.
LEMMA AliveBefore ==
  ASSUME LineInv, [Next]_vars, NEW q \in Procs, q \in Alive', q \notin Alive
  PROVE  phase[q] = "none"
<1> USE DEF line, crown, peasant, activity
<1>1. ASSUME NEW p \in Procs, NEW how \in {"dead", "crashed"}, End(p, how) PROVE FALSE
  BY <1>1 DEF End, Alive, LineInv
<1>2. ASSUME NEW p \in Procs, NEW k \in Procs, ReportNull(p, k) PROVE FALSE
  BY <1>1, <1>2 DEF ReportNull, Alive
<1>3. ASSUME phase' = phase PROVE FALSE
  BY <1>3 DEF Alive
<1>4. ASSUME NEW p \in Alive, NEW to, phase' = [phase EXCEPT ![p] = to] PROVE FALSE
  BY <1>4 DEF Alive, LineInv
<1>5. ASSUME NEW p \in Procs, NEW target \in Targets, Propose(p, target) PROVE FALSE
  BY <1>1, <1>4, <1>5 DEF Propose, BecomeWindow, Alive
<1>6. ASSUME NEW p \in Procs, Step(p) PROVE FALSE
  <2>1. CASE Connect(p)
    BY <1>4, <2>1 DEF Connect, Alive
  <2>2. CASE \E target \in Targets : ProposeAsKing(p, target)
    BY <1>4, <2>2 DEF ProposeAsKing, BecomeWindow, Alive
  <2>3. CASE ProposeFails(p) \/ Join(p)
    BY <1>1, <2>3 DEF ProposeFails, Join
  <2>4. CASE CreateOurPeasant(p)
    BY <1>4, <2>4 DEF CreateOurPeasant, Alive
  <2>5. CASE CreateOurPeasantAgain(p)
    BY <1>2, <2>5 DEF CreateOurPeasantAgain
  <2>6. CASE (\E time \in stamped[p] : ActivateWindow(p, time)) \/ Rename(p)
    BY <1>3, <2>6 DEF ActivateWindow, Rename
  <2> QED
    BY <1>5, <1>6, <2>1, <2>2, <2>3, <2>4, <2>5, <2>6 DEF Step
<1>7. ASSUME NEW p \in Procs, Election(p) PROVE FALSE
  BY <1>2, <1>3, <1>7 DEF Election, Watch, Elect, ElectAdd
<1>8. ASSUME NEW p \in Procs, Start(p) PROVE phase[q] = "none"
  BY <1>8 DEF Start, Alive, LineInv
<1>9. ASSUME NEW p \in Procs, Stamp(p) \/ Close(p) \/ Kill(p) PROVE FALSE
  BY <1>1, <1>3, <1>4, <1>9 DEF Stamp, Close, Kill, Alive
<1>10. ASSUME NEW p \in Procs,
              \/ \E new \in Names : RequestRename(p, new)
              \/ \E target \in Targets : SummonWindow(p, target)
       PROVE  FALSE
  BY <1>3, <1>10 DEF RequestRename, SummonWindow
<1>11. CASE UNCHANGED vars
  BY <1>3, <1>11 DEF vars
<1> QED
  BY <1>6, <1>7, <1>8, <1>9, <1>10, <1>11 DEF Next

\* The windows whose election is over.
Settled(p) == phase[p] = "window" /\ waiter[p] \notin {"elect", "add"}

\* Nothing happens to p that p's monarch could lose track of p by.
LEMMA StaysTracked ==
  ASSUME LineInv, MonarchInv, LifeInv, WindowsAreTracked, [Next]_vars, NEW p \in Procs,
         Hooked(p)', Settled(p), monarchOf'[p] = monarchOf[p],
         monarchOf[p] \in Alive => Keeps(mon[monarchOf[p]], mon'[monarchOf[p]], p)
  PROVE  \/ Finds(mon'[monarchOf'[p]], id'[p], p)
         \/ \E q \in Procs \ {p} : id'[q] = id'[p]
<1>1. monarchOf[p] \in Alive' /\ monarchOf[p] \in Procs /\ monarchOf[p] # NoProc
  BY WindowConstants DEF Hooked, MonarchAlive, Alive
<1>2. monarchOf[p] \in Alive
  BY <1>1, AliveBefore DEF LifeInv
<1>3. Hooked(p)
  BY <1>2 DEF Hooked, Settled, MonarchAlive
<1>4. id[p] # 0
  BY DEF Settled, LifeInv
<1>5. id'[p] = id[p] /\ \A q \in Procs : id[q] = id[p] => id'[q] = id[q]
  BY <1>4, IdsLast
<1>6. CASE Finds(mon[monarchOf[p]], id[p], p)
  BY <1>2, <1>5, <1>6 DEF Keeps
<1>7. CASE \E q \in Procs \ {p} : id[q] = id[p]
  BY <1>5, <1>7
<1> QED
  BY <1>3, <1>6, <1>7 DEF WindowsAreTracked

\* Every action leaves a window that has found its monarch where it can be found.
LEMMA NextTracked ==
  ASSUME LineInv, MonarchInv, LifeInv, WindowsAreTracked, [Next]_vars
  PROVE  WindowsAreTracked'
<1> DEFINE Found(p) == \/ Finds(mon'[monarchOf'[p]], id'[p], p)
                       \/ \E q \in Procs \ {p} : id'[q] = id'[p]
<1> SUFFICES ASSUME NEW p \in Procs, Hooked(p)' PROVE Found(p)
  BY DEF WindowsAreTracked
<1> USE DEF line, crown, peasant, activity
<1>0. phase'[p] = "window" /\ waiter'[p] \notin {"elect", "add"} /\ monarchOf'[p] \in Alive'
  BY DEF Hooked, MonarchAlive
<1>a. ASSUME Settled(p), monarchOf'[p] = monarchOf[p],
             monarchOf[p] \in Alive => Keeps(mon[monarchOf[p]], mon'[monarchOf[p]], p)
      PROVE  Found(p)
  BY <1>a, StaysTracked
<1> HIDE DEF Found
<1>b. ASSUME Settled(p), monarchOf'[p] = monarchOf[p], mon' = mon PROVE Found(p)
  BY <1>a, <1>b DEF Keeps
<1>c. ASSUME Settled(p), monarchOf'[p] = monarchOf[p], NEW k \in Procs, NEW m,
             Keeps(mon[k], m, p), mon' = [mon EXCEPT ![k] = m]
      PROVE  Found(p)
  <2>1. ASSUME monarchOf[p] \in Alive PROVE Keeps(mon[monarchOf[p]], mon'[monarchOf[p]], p)
    BY <1>c, <2>1 DEF Keeps, Alive, MonarchInv
  <2> QED
    BY <1>a, <1>c, <2>1
<1>d. ASSUME NEW q \in Procs, q # p, Settled(p), NEW k \in Procs, NEW m \in Instances(k),
             NEW new, new.peasants = m.peasants, Meet(q, k, new)
      PROVE  Found(p)
  <2>1. monarchOf'[p] = monarchOf[p]
    BY <1>d DEF Meet, LifeInv
  <2>2. CASE monarchOf[p] = k
    <3>1. p \in Alive
      BY <1>d DEF Settled, Alive
    <3>2. m = mon[k]
      BY <1>d, <2>2, <3>1 DEF Instances
    <3> QED
      BY <1>c, <1>d, <2>1, <3>2 DEF Meet, Keeps, Finds
  <2>3. CASE monarchOf[p] # k
    BY <1>a, <1>d, <2>1, <2>3 DEF Meet, Keeps, MonarchInv, Alive
  <2> QED
    BY <2>2, <2>3
<1>e. ASSUME NEW q \in Procs, NEW how \in {"dead", "crashed"}, End(q, how)
      PROVE  p # q /\ Settled(p)
  BY <1>0, <1>e DEF End, LineInv, LifeInv, Settled
<1>f. ASSUME NEW q \in Procs, NEW k \in Procs, NEW m \in Instances(k), q # p \/ ~Settled(q),
             Meet(q, k, m), ReportNull(q, k)
      PROVE  Found(p)
  <2>1. Settled(p)
    BY <1>0, <1>e, <1>f DEF ReportNull, Settled
  <2> QED
    BY <1>d, <1>f, <2>1
<1>g. ASSUME NEW q \in Procs, MonarchAlive(q), Enlist(q), UNCHANGED monarchOf, Settled(p) \/ p = q
      PROVE  Found(p)
  <2> DEFINE k == monarchOf[q]
             m == mon[k]
             new == AssignedID(m, id[q])
             a == AddPeasant(m, q, id[q])
  <2>1. k \in Procs
    BY <1>g DEF MonarchAlive, Alive
  <2>2. id'[q] = new /\ mon' = [mon EXCEPT ![k] = a]
    BY <1>g DEF Enlist, MonarchInv
  <2>3. /\ DOMAIN a.peasants = DOMAIN m.peasants \cup {new}
        /\ \A i \in DOMAIN a.peasants : a.peasants[i] = IF i = new THEN q ELSE m.peasants[i]
    BY <2>1 DEF AddPeasant, MonarchInv, Sound
  <2> HIDE DEF new, a, m
  <2>4. CASE p = q
    <3>1. Finds(a, new, q)
      BY <2>3 DEF Finds
    <3> QED
      BY <1>g, <2>1, <2>2, <2>4, <3>1 DEF Found, MonarchInv
  <2>5. CASE p # q /\ id'[p] = new
    BY <2>2, <2>5 DEF Found
  <2>6. CASE p # q /\ id'[p] # new
    <3>1. Settled(p) /\ id[p] # 0 /\ id'[p] = id[p]
      BY <1>g, <2>6, IdsLast DEF Settled, LifeInv
    <3>2. Finds(m, id[p], p) => Finds(a, id[p], p)
      BY <2>3, <2>6, <3>1 DEF Finds
    <3>3. Hooked(p)
      <4>1. monarchOf[p] \in Alive' /\ monarchOf[p] \in Procs /\ monarchOf[p] # NoProc
        BY <1>0, <1>g, WindowConstants DEF Alive
      <4>2. monarchOf[p] \in Alive
        BY <4>1, AliveBefore DEF LifeInv
      <4> QED
        BY <3>1, <4>2 DEF Hooked, Settled, MonarchAlive
    <3>4. CASE Finds(mon[monarchOf[p]], id[p], p)
      <4>1. Finds(mon'[monarchOf[p]], id[p], p)
        BY <2>1, <2>2, <3>2, <3>3, <3>4 DEF MonarchInv, Hooked, MonarchAlive, Alive, m
      <4> QED
        BY <1>g, <3>1, <4>1 DEF Found
    <3>5. CASE \E r \in Procs \ {p} : id[r] = id[p]
      <4>1. PICK r \in Procs \ {p} : id[r] = id[p]
        BY <3>5
      <4>2. id'[r] = id[r]
        BY <3>1, <4>1, IdsLast
      <4> QED
        BY <3>1, <4>1, <4>2 DEF Found
    <3> QED
      BY <3>3, <3>4, <3>5 DEF WindowsAreTracked
  <2> QED
    BY <2>4, <2>5, <2>6
<1>1. CASE UNCHANGED vars
  BY <1>0, <1>1, <1>b DEF vars, Settled
<1>2. ASSUME NEW q \in Procs, Start(q) PROVE Found(p)
  BY <1>0, <1>2, <1>b DEF Start, Settled, LineInv
<1>3. ASSUME NEW q \in Procs, End(q, "dead"), Abdicate(q) PROVE Found(p)
  <2>1. p # q /\ Settled(p)
    BY <1>3, <1>e
  <2>2. monarchOf'[p] = monarchOf[p]
    BY <1>3, <2>1 DEF Abdicate, LifeInv
  <2>3. monarchOf[p] # q
    BY <1>0, <1>3, <2>2 DEF End, Alive, LineInv
  <2>4. monarchOf[p] \in Alive => mon'[monarchOf[p]] = mon[monarchOf[p]]
    BY <1>3, <2>3 DEF Abdicate, MonarchInv, Alive
  <2> QED
    BY <1>a, <2>1, <2>2, <2>4 DEF Keeps
<1>4. ASSUME NEW q \in Procs, Connect(q) PROVE Found(p)
  <2>1. PICK k \in Procs : \E m \in Instances(k) : Meet(q, k, m)
    BY <1>4 DEF Connect
  <2>2. q # p /\ Settled(p)
    BY <1>0, <1>4 DEF Connect, LineInv, Settled
  <2> QED
    BY <1>d, <2>1, <2>2
<1>5. ASSUME NEW q \in Procs, NEW a, NEW b, BecomeWindow(q, a, b) PROVE p # q /\ Settled(p)
  BY <1>0, <1>5 DEF BecomeWindow, LineInv, Settled
<1>6. ASSUME NEW q \in Procs, NEW target \in Targets, ProposeAsKing(q, target) PROVE Found(p)
  BY <1>5, <1>6, <1>b DEF ProposeAsKing
<1>7. ASSUME NEW k \in Procs, NEW target, NEW found \in Lookup(k, target), Settled(p),
             mon' = [mon EXCEPT ![k] = found.monarch], UNCHANGED monarchOf
      PROVE  Found(p)
  <2>1. p \in Alive
    BY <1>7 DEF Settled, Alive
  <2>2. Keeps(mon[k], found.monarch, p)
    BY <1>7, <2>1, LookupKeeps
  <2> QED
    BY <1>7, <1>c, <2>2
<1>8. ASSUME NEW q \in Procs, NEW target \in Targets, Propose(q, target) PROVE Found(p)
  <2>1. monarchOf[q] \in Procs /\ UNCHANGED monarchOf
    BY <1>8 DEF Propose, MonarchAlive, Alive
  <2>2. \E asked : \E found \in Lookup(monarchOf[q], asked) :
          mon' = [mon EXCEPT ![monarchOf[q]] = found.monarch]
    BY <1>8 DEF Propose
  <2>3. End(q, "dead") \/ \E a, b : BecomeWindow(q, a, b)
    BY <1>8 DEF Propose
  <2>4. Settled(p)
    BY <1>5, <1>e, <2>3
  <2> QED
    BY <1>7, <2>1, <2>2, <2>4
<1>9. ASSUME NEW q \in Procs, CreateOurPeasant(q) PROVE Found(p)
  BY <1>0, <1>9, <1>g DEF CreateOurPeasant, LineInv, LifeInv, Settled
<1>10. ASSUME NEW q \in Procs, CreateOurPeasantAgain(q) PROVE Found(p)
  BY <1>10, <1>f DEF CreateOurPeasantAgain, Settled
<1>11. ASSUME NEW q \in Procs, NEW time \in stamped[q], ActivateWindow(q, time) PROVE Found(p)
  <2>1. Settled(p) /\ UNCHANGED monarchOf
    BY <1>0, <1>11 DEF ActivateWindow, Settled
  <2>2. CASE Hooked(q)
    <3> DEFINE k == monarchOf[q]
               m == HandleActivatePeasant(mon[k], id[q], time)
    <3>1. k \in Procs /\ mon' = [mon EXCEPT ![k] = m]
      BY <1>11, <2>2 DEF ActivateWindow, Hooked, MonarchAlive, Alive
    <3>2. m.peasants = mon[k].peasants
      BY <3>1 DEF HandleActivatePeasant, MonarchInv, Sound
    <3> HIDE DEF k, m
    <3>3. Keeps(mon[k], m, p)
      BY <3>2 DEF Keeps, Finds
    <3> QED
      BY <1>c, <2>1, <3>1, <3>3
  <2>3. CASE ~Hooked(q)
    BY <1>11, <1>b, <2>1, <2>3 DEF ActivateWindow
  <2> QED
    BY <2>2, <2>3
<1>12. ASSUME NEW q \in Procs, Rename(q) \/ Watch(q) \/ Stamp(q) \/ Close(q) PROVE Found(p)
  BY <1>0, <1>12, <1>b DEF Rename, Watch, Stamp, Close, Settled, LineInv, LifeInv
<1>13. ASSUME NEW q \in Procs, Elect(q) PROVE Found(p)
  <2>1. PICK k \in Procs : \E m \in Instances(k) :
          IF last[q] = 0
          THEN Meet(q, k, m) /\ ReportNull(q, k)
          ELSE /\ Meet(q, k, HandleActivatePeasant(m, id[q], last[q]))
               /\ waiter' = [waiter EXCEPT ![q] = "add"]
               /\ UNCHANGED <<phase, line, peasant, activity>>
    BY <1>13 DEF Elect
  <2>2. PICK m \in Instances(k) :
          \/ Meet(q, k, m) /\ ReportNull(q, k)
          \/ /\ Meet(q, k, HandleActivatePeasant(m, id[q], last[q]))
             /\ waiter' = [waiter EXCEPT ![q] = "add"]
             /\ UNCHANGED phase
    BY <2>1
  <2>3. CASE Meet(q, k, m) /\ ReportNull(q, k)
    BY <1>13, <1>f, <2>3 DEF Elect, Settled
  <2>4. CASE /\ Meet(q, k, HandleActivatePeasant(m, id[q], last[q]))
             /\ waiter' = [waiter EXCEPT ![q] = "add"]
             /\ UNCHANGED phase
    <3>1. q # p /\ Settled(p)
      BY <1>0, <2>4 DEF LifeInv, Settled
    <3>2. Sound(m)
      BY SoundCreated DEF Instances, MonarchInv
    <3>3. HandleActivatePeasant(m, id[q], last[q]).peasants = m.peasants
      BY <3>2 DEF HandleActivatePeasant, Sound
    <3> QED
      BY <1>d, <2>4, <3>1, <3>3
  <2> QED
    BY <2>2, <2>3, <2>4
<1>14. ASSUME NEW q \in Procs, ElectAdd(q) PROVE Found(p)
  <2>1. UNCHANGED monarchOf /\ (Settled(p) \/ p = q)
    BY <1>0, <1>14 DEF ElectAdd, Settled, LifeInv
  <2>2. CASE MonarchAlive(q)
    BY <1>14, <1>g, <2>1, <2>2 DEF ElectAdd
  <2>3. CASE ~MonarchAlive(q)
    BY <1>0, <1>14, <1>b, <2>3 DEF ElectAdd, Settled, LifeInv
  <2> QED
    BY <2>2, <2>3
<1>15. ASSUME NEW q \in Procs, NEW new \in Names, RequestRename(q, new) PROVE Found(p)
  <2>1. monarchOf[q] \in Procs /\ UNCHANGED monarchOf /\ Settled(p)
    BY <1>0, <1>15 DEF RequestRename, Hooked, MonarchAlive, Alive, Settled
  <2>2. \E target : \E found \in Lookup(monarchOf[q], target) :
          mon' = [mon EXCEPT ![monarchOf[q]] = found.monarch]
    BY <1>15 DEF RequestRename
  <2> QED
    BY <1>7, <2>1, <2>2
<1>16. ASSUME NEW q \in Procs, NEW target \in Targets, SummonWindow(q, target) PROVE Found(p)
  BY <1>0, <1>7, <1>16 DEF SummonWindow, Settled
<1>17. ASSUME NEW q \in Procs, ProposeFails(q) \/ Join(q) \/ Kill(q) PROVE Found(p)
  BY <1>3, <1>17 DEF ProposeFails, Join, Kill
<1> QED
  BY <1>1, <1>2, <1>4, <1>6, <1>8, <1>9, <1>10, <1>11, <1>12, <1>13, <1>14, <1>15, <1>16, <1>17
     DEF Next, Step, Election

\* Whatever dies, is elected or looked up in between, a window that has found its
\* monarch can be found there by its ID, until another process has the same one.
THEOREM WindowsStayTracked == Spec => []WindowsAreTracked
<1>1. Init => WindowsAreTracked
  BY DEF Init, WindowsAreTracked, Hooked
<1> QED
  BY <1>1, NextTracked, Invariance, PTL DEF Spec
-----------------------------------------------------------------------------
(***************************************************************************)
(* What no step may do                                                     *)
(***************************************************************************)

\* An ID is for life: neither an election nor another window changes the ID that a
\* process was given, although AddPeasant is called again after every election
\* (WindowManager.cpp:303-321, Monarch.cpp:58-82).
IdsAreForLife == [][\A p \in Procs : id[p] # 0 => id'[p] = id[p]]_vars

\* No step of the system takes an ID from a process, or gives it another one.
THEOREM IdsNeverChange == Spec => IdsAreForLife
<1>1. LineInv /\ MonarchInv /\ LifeInv /\ [Next]_vars => [\A p \in Procs : id[p] # 0 => id'[p] = id[p]]_vars
  BY IdsLast
<1> QED
  BY <1>1, Invariance, PTL DEF Spec, IdsAreForLife

\* A king keeps the crown for as long as it is in line: COM sends it to itself when it
\* has to look for a monarch again (WindowManager.cpp:226-266).
KingForLife == [][\A p \in InLine : isKing[p] /\ p \in InLine' => isKing'[p]]_vars

\* Meeting a monarch takes the crown from no king.
LEMMA MeetCrown ==
  ASSUME LineInv, NEW q \in InLine, isKing[q], NEW p \in Procs, NEW k \in Procs, NEW m, Meet(p, k, m)
  PROVE  isKing'[q]
<1>1. k = q \/ p # q
  BY DEF LineInv, SeatInv, KingInv, Meet, IsFirst, InLine
<1> QED
  BY <1>1 DEF Meet, LineInv, KingInv, InLine

\* Neither does any other step, but for those that end the king.
LEMMA CrownLasts ==
  ASSUME LineInv, [Next]_vars, NEW q \in InLine, isKing[q], q \in InLine'
  PROVE  isKing'[q]
<1> USE DEF line, crown, peasant, activity
<1>0. q \in Procs /\ isKing \in [Procs -> BOOLEAN] /\ seat \in [Procs -> Nat]
  BY DEF InLine, LineInv, SeatInv, KingInv
<1>1. ASSUME NEW p \in Procs, NEW how, End(p, how), Abdicate(p) PROVE isKing'[q]
  BY <1>0, <1>1 DEF End, Abdicate, InLine
<1>2. ASSUME isKing' = isKing PROVE isKing'[q]
  BY <1>2
<1>3. ASSUME NEW p \in Procs, Step(p) PROVE isKing'[q]
  <2>1. CASE Connect(p) \/ CreateOurPeasantAgain(p)
    BY <2>1, MeetCrown DEF Connect, CreateOurPeasantAgain
  <2>2. CASE ProposeFails(p) \/ Join(p)
    BY <1>1, <2>2 DEF ProposeFails, Join
  <2>3. CASE \/ \E target \in Targets : ProposeAsKing(p, target) \/ Propose(p, target)
             \/ CreateOurPeasant(p) \/ Rename(p)
             \/ \E time \in stamped[p] : ActivateWindow(p, time)
    BY <1>2, <2>3 DEF ProposeAsKing, Propose, CreateOurPeasant, Rename, ActivateWindow
  <2> QED
    BY <1>3, <2>1, <2>2, <2>3 DEF Step
<1>4. ASSUME NEW p \in Procs, Election(p) PROVE isKing'[q]
  <2>1. CASE Elect(p)
    BY <2>1, MeetCrown DEF Elect
  <2>2. CASE Watch(p) \/ ElectAdd(p)
    BY <1>2, <2>2 DEF Watch, ElectAdd
  <2> QED
    BY <1>4, <2>1, <2>2 DEF Election
<1>5. ASSUME NEW p \in Procs, Start(p) \/ Stamp(p) \/ Close(p) PROVE isKing'[q]
  BY <1>2, <1>5 DEF Start, Stamp, Close
<1>6. ASSUME NEW p \in Procs, Kill(p) PROVE isKing'[q]
  BY <1>1, <1>6 DEF Kill
<1>7. ASSUME NEW p \in Procs,
             \/ \E new \in Names : RequestRename(p, new)
             \/ \E target \in Targets : SummonWindow(p, target)
      PROVE  isKing'[q]
  BY <1>2, <1>7 DEF RequestRename, SummonWindow
<1>8. CASE UNCHANGED vars
  BY <1>2, <1>8 DEF vars
<1> QED
  BY <1>3, <1>4, <1>5, <1>6, <1>7, <1>8 DEF Next

\* Nobody is crowned in the place of a king, and no king loses its crown, before it
\* leaves the line of succession.
THEOREM CrownStays == Spec => KingForLife
<1>1. LineInv /\ [Next]_vars => [\A p \in InLine : isKing[p] /\ p \in InLine' => isKing'[p]]_vars
  BY CrownLasts
<1> QED
  BY <1>1, LineOfSuccession, PTL DEF Spec, KingForLife

\* A living process refers to the monarch of process k.
Held(k) == \E q \in Alive : monarchOf[q] = k

\* A monarch whom a process still refers to counts its IDs upwards as long as it lives.
\* With IdsStayFresh: it gives no ID a second time, also not that of a window that is
\* gone (Monarch.cpp:58-82).
NextIdNeverFalls == [][\A k \in Procs : Held(k) /\ k \in Alive' => mon'[k].next >= mon[k].next]_vars

\* Forgetting the dead and an activation leave the next ID alone, and so do lookups.
LEMMA SameNext ==
  ASSUME NEW m, Sound(m)
  PROVE  /\ \A ids : Forget(m, ids).next = m.next
         /\ \A i, time : HandleActivatePeasant(m, i, time).next = m.next
  BY DEF Forget, HandleActivatePeasant, Sound

\* A lookup may forget windows on its way; what it leaves counts on from the same ID.
LEMMA LookupSameNext ==
  ASSUME MonarchInv, NEW k \in Procs, NEW target, NEW found \in Lookup(k, target)
  PROVE  found.monarch.next = mon[k].next
<1> DEFINE m == mon[k]
           Same(r) == r.monarch.next = m.next
<1>0. \A ids : Forget(m, ids).next = m.next
  BY SameNext DEF MonarchInv
<1>1. \A i : Same(GetPeasant(m, i, Alive))
  BY <1>0 DEF GetPeasant, Result
<1>2. \A named : \A r \in LookupPeasantIdForName(m, named, Alive) : Same(r)
  BY <1>0 DEF LookupPeasantIdForName, Result
<1>3. \A skipped : \A r \in GetMostRecentPeasantID(m, Alive, skipped) : Same(r)
  BY <1>0 DEF GetMostRecentPeasantID, Result
<1>4. Same(Result(0, m))
  BY DEF Result
<1> QED
  BY <1>1, <1>2, <1>3, <1>4 DEF Lookup

\* AddPeasant may only raise it.
LEMMA AddedNext ==
  ASSUME NEW m, Sound(m), NEW p, NEW provided \in Nat
  PROVE  AddPeasant(m, p, provided).next >= m.next
  BY DEF AddPeasant, NextID, Sound

\* A monarch that is met anew is the one that others hold.
LEMMA MeetNext ==
  ASSUME MonarchInv, NEW k \in Procs, Held(k), NEW p \in Procs, NEW j \in Procs,
         NEW m \in Instances(j), NEW new, new.next = m.next, Meet(p, j, new)
  PROVE  mon'[k].next >= mon[k].next
<1>0. mon[k].next \in Nat /\ DOMAIN mon = Procs
  BY DEF MonarchInv, Sound
<1>1. CASE j = k
  <2>1. m = mon[k]
    BY <1>1 DEF Instances, Held
  <2> QED
    BY <1>0, <1>1, <2>1 DEF Meet
<1>2. CASE j # k
  BY <1>0, <1>2 DEF Meet
<1> QED
  BY <1>1, <1>2

\* No step has the next ID fall, but for those that end the monarch.
LEMMA NextIdGrows ==
  ASSUME LineInv, MonarchInv, LifeInv, [Next]_vars, NEW k \in Procs, Held(k), k \in Alive'
  PROVE  mon'[k].next >= mon[k].next
<1> USE DEF line, crown, peasant, activity
<1>0. mon[k].next \in Nat /\ DOMAIN mon = Procs /\ phase \in [Procs -> Phase]
  BY DEF MonarchInv, Sound, LineInv
<1>a. ASSUME mon' = mon PROVE mon'[k].next >= mon[k].next
  BY <1>0, <1>a
<1>b. ASSUME NEW p \in Procs, NEW how \in {"dead", "crashed"}, End(p, how), Abdicate(p)
      PROVE  mon'[k].next >= mon[k].next
  <2>1. p # k
    BY <1>0, <1>b DEF End, Alive
  <2> QED
    BY <1>0, <1>b, <2>1 DEF Abdicate
<1>c. ASSUME NEW j \in Procs, NEW new, new.next >= mon[j].next, mon' = [mon EXCEPT ![j] = new]
      PROVE  mon'[k].next >= mon[k].next
  BY <1>0, <1>c
<1>d. ASSUME NEW p \in Procs, MonarchAlive(p), Enlist(p) PROVE mon'[k].next >= mon[k].next
  <2>1. monarchOf[p] \in Procs /\ id[p] \in Nat
    BY <1>d DEF MonarchAlive, Alive, MonarchInv
  <2>2. AddPeasant(mon[monarchOf[p]], p, id[p]).next >= mon[monarchOf[p]].next
    BY <2>1, AddedNext DEF MonarchInv
  <2> QED
    BY <1>c, <1>d, <2>1, <2>2 DEF Enlist
<1>e. ASSUME NEW j \in Procs, NEW target, NEW found \in Lookup(j, target), mon' = [mon EXCEPT ![j] = found.monarch]
      PROVE  mon'[k].next >= mon[k].next
  <2>1. found.monarch.next = mon[j].next /\ mon[j].next \in Nat
    BY <1>e, LookupSameNext DEF MonarchInv, Sound
  <2> QED
    BY <1>0, <1>e, <2>1
<1>1. ASSUME NEW p \in Procs, Connect(p) \/ CreateOurPeasantAgain(p) PROVE mon'[k].next >= mon[k].next
  <2>1. PICK j \in Procs : \E m \in Instances(j) : Meet(p, j, m)
    BY <1>1 DEF Connect, CreateOurPeasantAgain
  <2>2. PICK m \in Instances(j) : Meet(p, j, m)
    BY <2>1
  <2> QED
    BY <2>2, MeetNext
<1>2. ASSUME NEW p \in Procs, NEW target \in Targets, Propose(p, target) PROVE mon'[k].next >= mon[k].next
  <2>1. monarchOf[p] \in Procs
    BY <1>2 DEF Propose, MonarchAlive, Alive
  <2>2. \E asked : \E found \in Lookup(monarchOf[p], asked) :
          mon' = [mon EXCEPT ![monarchOf[p]] = found.monarch]
    BY <1>2 DEF Propose
  <2> QED
    BY <1>e, <2>1, <2>2
<1>3. ASSUME NEW p \in Procs, CreateOurPeasant(p) PROVE mon'[k].next >= mon[k].next
  BY <1>3, <1>d DEF CreateOurPeasant
<1>4. ASSUME NEW p \in Procs, NEW time \in stamped[p], ActivateWindow(p, time) PROVE mon'[k].next >= mon[k].next
  <2>1. CASE Hooked(p)
    <3> DEFINE j == monarchOf[p]
               new == HandleActivatePeasant(mon[j], id[p], time)
    <3>1. j \in Procs
      BY <2>1 DEF Hooked, MonarchAlive, Alive
    <3>2. new.next = mon[j].next /\ mon[j].next \in Nat
      BY <3>1, SameNext DEF MonarchInv, Sound
    <3>3. mon' = [mon EXCEPT ![j] = new]
      BY <1>4, <2>1 DEF ActivateWindow
    <3> HIDE DEF new, j
    <3> QED
      BY <1>0, <3>1, <3>2, <3>3
  <2>2. CASE ~Hooked(p)
    BY <1>4, <1>a, <2>2 DEF ActivateWindow
  <2> QED
    BY <2>1, <2>2
<1>5. ASSUME NEW p \in Procs, ProposeFails(p) \/ Join(p) \/ Kill(p) PROVE mon'[k].next >= mon[k].next
  BY <1>5, <1>b DEF ProposeFails, Join, Kill
<1>6. ASSUME NEW p \in Procs,
             \/ Start(p) \/ Rename(p) \/ Watch(p) \/ Stamp(p) \/ Close(p)
             \/ \E target \in Targets : ProposeAsKing(p, target)
      PROVE mon'[k].next >= mon[k].next
  BY <1>6, <1>a DEF Start, Rename, Watch, Stamp, Close, ProposeAsKing
<1>7. ASSUME NEW p \in Procs, Elect(p) PROVE mon'[k].next >= mon[k].next
  <2>1. PICK j \in Procs : \E m \in Instances(j) :
          Meet(p, j, m) \/ Meet(p, j, HandleActivatePeasant(m, id[p], last[p]))
    BY <1>7 DEF Elect
  <2>2. PICK m \in Instances(j) : Meet(p, j, m) \/ Meet(p, j, HandleActivatePeasant(m, id[p], last[p]))
    BY <2>1
  <2>3. Sound(m)
    BY SoundCreated DEF Instances, MonarchInv
  <2>4. HandleActivatePeasant(m, id[p], last[p]).next = m.next
    BY <2>3, SameNext
  <2> QED
    BY <2>2, <2>4, MeetNext
<1>8. ASSUME NEW p \in Procs, ElectAdd(p) PROVE mon'[k].next >= mon[k].next
  BY <1>8, <1>a, <1>d DEF ElectAdd
<1>9. ASSUME NEW p \in Procs, NEW new \in Names, RequestRename(p, new) PROVE mon'[k].next >= mon[k].next
  <2>1. monarchOf[p] \in Procs
    BY <1>9 DEF RequestRename, Hooked, MonarchAlive, Alive
  <2>2. \E target : \E found \in Lookup(monarchOf[p], target) :
          mon' = [mon EXCEPT ![monarchOf[p]] = found.monarch]
    BY <1>9 DEF RequestRename
  <2> QED
    BY <1>e, <2>1, <2>2
<1>10. ASSUME NEW p \in Procs, NEW target \in Targets, SummonWindow(p, target) PROVE mon'[k].next >= mon[k].next
  BY <1>10, <1>e DEF SummonWindow
<1>11. CASE UNCHANGED vars
  BY <1>11, <1>a DEF vars
<1> QED
  BY <1>1, <1>2, <1>3, <1>4, <1>5, <1>6, <1>7, <1>8, <1>9, <1>10, <1>11 DEF Next, Step, Election

\* The counter of a monarch that somebody refers to only goes up, whatever dies,
\* is looked up, forgotten or elected meanwhile.
THEOREM IdsCountUp == Spec => NextIdNeverFalls
<1>1. LineInv /\ MonarchInv /\ LifeInv /\ [Next]_vars =>
        [\A k \in Procs : Held(k) /\ k \in Alive' => mon'[k].next >= mon[k].next]_vars
  BY NextIdGrows
<1> QED
  BY <1>1, Invariance, PTL DEF Spec, NextIdNeverFalls
=============================================================================
