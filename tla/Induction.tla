------------------------------ MODULE Induction ------------------------------
(***************************************************************************)
(* Induction over the natural numbers, in the form the proofs of this      *)
(* project use: the property is a set of numbers, and a recursive function *)
(* is given by the values of its steps.  Both are ordinary arguments, so   *)
(* the lemmas can be cited like any other fact.  Then the two changes the  *)
(* code makes to a list: an element leaves it, or is put into the middle.  *)
(***************************************************************************)
EXTENDS Integers, Sequences, SequenceTheorems, WellFoundedInduction, TLAPS

\* Every set of natural numbers that is not empty has a least element.
LEMMA Least ==
  ASSUME NEW T, T \subseteq Nat, T # {}
  PROVE  \E n \in T : \A k \in T : n <= k
<1> DEFINE R == OpToRel(<, Nat)
<1>1. IsWellFoundedOn(R, Nat)
  BY NatLessThanWellFounded
<1>2. \A j, k \in Nat : j < k => <<j, k>> \in R
  BY DEF OpToRel
<1> HIDE DEF R
<1>3. PICK n \in T : \A k \in T : ~ (<<k, n>> \in R)
  BY <1>1, WFMin
<1>4. \A k \in T : ~ (k < n)
  BY <1>2, <1>3
<1>5. \A k \in T : n <= k
  BY <1>4
<1> QED
  BY <1>5

\* A set with 0 and the successors of its elements has every number: the least
\* one it does not have would have a predecessor that it has.
LEMMA SetInduction ==
  ASSUME NEW S, 0 \in S, \A n \in Nat : n \in S => n + 1 \in S
  PROVE  \A n \in Nat : n \in S
<1> SUFFICES ASSUME Nat \ S # {} PROVE FALSE
  OBVIOUS
<1>1. PICK n \in Nat \ S : \A k \in Nat \ S : n <= k
  BY Least
<1>2. n - 1 \in Nat /\ n - 1 \in S
  BY <1>1
<1> QED
  BY <1>1, <1>2

\* The same for the numbers up to N.
LEMMA SetInductionUpTo ==
  ASSUME NEW N \in Nat, NEW S, 0 \in S, \A n \in 1 .. N : n - 1 \in S => n \in S
  PROVE  \A n \in 0 .. N : n \in S
<1> DEFINE T == {n \in Nat : n <= N => n \in S}
<1>1. 0 \in T
  OBVIOUS
<1>2. ASSUME NEW n \in Nat, n \in T PROVE n + 1 \in T
  <2>1. CASE n + 1 <= N
    <3>1. n \in S /\ n + 1 \in 1 .. N /\ (n + 1) - 1 = n
      BY <1>2, <2>1
    <3> QED
      BY <3>1
  <2> QED
    BY <2>1
<1> HIDE DEF T
<1>3. \A n \in Nat : n \in T
  BY <1>1, <1>2, SetInduction
<1> QED
  BY <1>3 DEF T

\* f is the function computed from "base" with one step per number up to N.
Computes(f, S, base, step, N) ==
  /\ f \in [0 .. N -> S]
  /\ f[0] = base
  /\ \A n \in 1 .. N : f[n] = step[n][f[n - 1]]

\* There is such a function.
LEMMA RecursionUpTo ==
  ASSUME NEW S, NEW base \in S, NEW step \in [Nat -> [S -> S]], NEW N \in Nat
  PROVE  \E f : Computes(f, S, base, step, N)
<1> DEFINE G(f, n) == f[0] = base /\ \A k \in 1 .. n : f[k] = step[k][f[k - 1]]
           I == {n \in Nat : \E f \in [0 .. n -> S] : G(f, n)}
<1>1. 0 \in I
  <2>1. [k \in 0 .. 0 |-> base] \in [0 .. 0 -> S] /\ G([k \in 0 .. 0 |-> base], 0)
    OBVIOUS
  <2> QED
    BY <2>1
<1>2. ASSUME NEW n \in Nat, n \in I PROVE n + 1 \in I
  <2>1. PICK f \in [0 .. n -> S] : G(f, n)
    BY <1>2
  <2> DEFINE v == step[n + 1][f[n]]
             g == [k \in 0 .. (n + 1) |-> IF k = n + 1 THEN v ELSE f[k]]
  <2>2. f[n] \in S /\ v \in S
    OBVIOUS
  <2>3. g \in [0 .. (n + 1) -> S] /\ g[n + 1] = v /\ \A k \in 0 .. n : g[k] = f[k]
    BY <2>2
  <2> HIDE DEF g
  <2>4. ASSUME NEW k \in 1 .. (n + 1) PROVE g[k] = step[k][g[k - 1]]
    <3>1. CASE k = n + 1
      BY <2>3, <3>1
    <3>2. CASE k \in 1 .. n
      <4>1. g[k] = f[k] /\ g[k - 1] = f[k - 1]
        BY <2>3, <3>2
      <4> QED
        BY <2>1, <3>2, <4>1
    <3> QED
      BY <3>1, <3>2
  <2>5. g[0] = base
    BY <2>1, <2>3
  <2> QED
    BY <2>3, <2>4, <2>5
<1> HIDE DEF I
<1>3. N \in I
  BY <1>1, <1>2, SetInduction
<1> QED
  BY <1>3 DEF I, Computes
-----------------------------------------------------------------------------
\* r has the elements of a, then those of b.
Joined(r, a, b, i, j) ==
  /\ Len(r) = i + j
  /\ \A n \in 1 .. i : r[n] = a[n]
  /\ \A n \in 1 .. j : r[i + n] = b[n]

\* A sequence put together from two parts.
LEMMA TwoParts ==
  ASSUME NEW E, NEW a \in Seq(E), NEW b \in Seq(E)
  PROVE  a \o b \in Seq(E) /\ Joined(a \o b, a, b, Len(a), Len(b))
<1> DEFINE r == a \o b
           i == Len(a)
           j == Len(b)
<1>1. r \in Seq(E) /\ Len(r) = i + j /\ i \in Nat /\ j \in Nat
  BY ConcatProperties
<1>2. \A n \in 1 .. (i + j) : r[n] = IF n <= i THEN a[n] ELSE b[n - i]
  BY ConcatProperties
<1> HIDE DEF i, j, r
<1>3. \A n \in 1 .. i : r[n] = a[n]
  BY <1>1, <1>2
<1>4. ASSUME NEW n \in 1 .. j PROVE r[i + n] = b[n]
  <2>1. i + n \in 1 .. (i + j) /\ ~ (i + n <= i) /\ (i + n) - i = n
    BY <1>1
  <2> QED
    BY <1>2, <2>1
<1> QED
  BY <1>1, <1>3, <1>4 DEF Joined, i, j, r

\* r is s without its k-th element.
Removed(r, s, k) ==
  /\ Len(r) = Len(s) - 1
  /\ \A n \in 1 .. (k - 1) : r[n] = s[n]
  /\ \A n \in k .. (Len(s) - 1) : r[n] = s[n + 1]

\* What is in front of an element and what is behind it, put together.
LEMMA RemovedAt ==
  ASSUME NEW E, NEW s \in Seq(E), NEW k \in 1 .. Len(s), NEW r,
         r = SubSeq(s, 1, k - 1) \o SubSeq(s, k + 1, Len(s))
  PROVE  r \in Seq(E) /\ Removed(r, s, k)
<1> DEFINE a == SubSeq(s, 1, k - 1)
           b == SubSeq(s, k + 1, Len(s))
<1>0. Len(s) \in Nat /\ k - 1 \in Nat /\ Len(s) - k \in Nat
  OBVIOUS
<1>1. a \in Seq(E) /\ Len(a) = k - 1 /\ \A n \in 1 .. (k - 1) : a[n] = s[n]
  BY <1>0
<1>2. b \in Seq(E) /\ Len(b) = Len(s) - k /\ \A n \in 1 .. (Len(s) - k) : b[n] = s[k + n]
  BY <1>0
<1> HIDE DEF a, b
<1>3. r = a \o b
  BY DEF a, b
<1>4. /\ r \in Seq(E) /\ Len(r) = (k - 1) + (Len(s) - k)
      /\ \A n \in 1 .. (k - 1) : r[n] = a[n]
      /\ \A n \in 1 .. (Len(s) - k) : r[(k - 1) + n] = b[n]
  <2>1. r \in Seq(E) /\ Joined(r, a, b, Len(a), Len(b))
    BY <1>1, <1>2, <1>3, TwoParts
  <2>2. Joined(r, a, b, k - 1, Len(s) - k)
    BY <1>1, <1>2, <1>3, <2>1
  <2> QED
    BY <2>1, <2>2 DEF Joined
<1>5. ASSUME NEW n \in k .. (Len(s) - 1) PROVE r[n] = s[n + 1]
  <2>1. n - (k - 1) \in 1 .. (Len(s) - k) /\ (k - 1) + (n - (k - 1)) = n /\ k + (n - (k - 1)) = n + 1
    BY <1>0
  <2>2. r[(k - 1) + (n - (k - 1))] = s[k + (n - (k - 1))]
    BY <1>2, <1>4, <2>1
  <2> QED
    BY <2>1, <2>2
<1>6. (k - 1) + (Len(s) - k) = Len(s) - 1
  BY <1>0
<1>7. Len(r) = Len(s) - 1
  BY <1>4, <1>6
<1> QED
  BY <1>1, <1>4, <1>5, <1>7 DEF Removed

\* r is s with e behind the first k elements.
Inserted(r, s, k, e) ==
  /\ Len(r) = Len(s) + 1
  /\ \A n \in 1 .. k : r[n] = s[n]
  /\ r[k + 1] = e
  /\ \A n \in (k + 2) .. (Len(s) + 1) : r[n] = s[n - 1]

\* A new element between the first k ones and the rest.
LEMMA InsertedAt ==
  ASSUME NEW E, NEW s \in Seq(E), NEW k \in 0 .. Len(s), NEW e \in E, NEW r,
         r = SubSeq(s, 1, k) \o <<e>> \o SubSeq(s, k + 1, Len(s))
  PROVE  r \in Seq(E) /\ Inserted(r, s, k, e)
<1> DEFINE a == SubSeq(s, 1, k)
           b == SubSeq(s, k + 1, Len(s))
           c == a \o <<e>>
<1>0. Len(s) \in Nat /\ k + 1 \in Nat /\ Len(s) - k \in Nat
  OBVIOUS
<1>1. a \in Seq(E) /\ Len(a) = k /\ \A n \in 1 .. k : a[n] = s[n]
  BY <1>0
<1>2. b \in Seq(E) /\ Len(b) = Len(s) - k /\ \A n \in 1 .. (Len(s) - k) : b[n] = s[k + n]
  BY <1>0
<1> HIDE DEF a, b
<1>3. c \in Seq(E) /\ Len(c) = k + 1 /\ c[k + 1] = e /\ \A n \in 1 .. k : c[n] = a[n]
  BY <1>1
<1>4. r = c \o b
  BY DEF a, b
<1> HIDE DEF c
<1>5. /\ r \in Seq(E) /\ Len(r) = (k + 1) + (Len(s) - k)
      /\ \A n \in 1 .. (k + 1) : r[n] = c[n]
      /\ \A n \in 1 .. (Len(s) - k) : r[(k + 1) + n] = b[n]
  <2>1. r \in Seq(E) /\ Joined(r, c, b, Len(c), Len(b))
    BY <1>1, <1>2, <1>3, <1>4, TwoParts
  <2>2. Joined(r, c, b, k + 1, Len(s) - k)
    BY <1>1, <1>2, <1>3, <2>1
  <2> QED
    BY <2>1, <2>2 DEF Joined
<1>6. ASSUME NEW n \in (k + 2) .. (Len(s) + 1) PROVE r[n] = s[n - 1]
  <2>1. n - (k + 1) \in 1 .. (Len(s) - k) /\ (k + 1) + (n - (k + 1)) = n /\ k + (n - (k + 1)) = n - 1
    BY <1>0
  <2>2. r[(k + 1) + (n - (k + 1))] = s[k + (n - (k + 1))]
    BY <1>2, <1>5, <2>1
  <2> QED
    BY <2>1, <2>2
<1>7. k + 1 \in 1 .. (k + 1) /\ \A n \in 1 .. k : n \in 1 .. (k + 1)
  BY <1>0
<1>8. r[k + 1] = e /\ \A n \in 1 .. k : r[n] = s[n]
  BY <1>1, <1>3, <1>5, <1>7
<1>9. (k + 1) + (Len(s) - k) = Len(s) + 1
  BY <1>0
<1>10. Len(r) = Len(s) + 1
  BY <1>5, <1>9
<1> QED
  BY <1>5, <1>6, <1>8, <1>10 DEF Inserted
=============================================================================
