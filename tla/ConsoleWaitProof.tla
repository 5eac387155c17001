-------------------------- MODULE ConsoleWaitProof --------------------------
(***************************************************************************)
(* Machine-checked proofs about the console server's waits, for any number *)
(* of processes, threads and handles and any amount of input.  The         *)
(* operations of the model take the data under the lock and give it back,  *)
(* so each has a lemma: sound data in, sound data out.  NotifyWaiters goes *)
(* along a queue that its own steps shorten; the induction is over the     *)
(* blocks of the queue as it was.                                          *)
(***************************************************************************)
EXTENDS ConsoleWait, Induction, FiniteSetTheorems

\* A thread is one of a process.
LEMMA ThreadClient == ASSUME NEW t \in Threads PROVE t[1] \in Clients
  BY ConstantsAssumption

\* What is left of a queue when a block has been taken out.
Unlinked(r, queue, t) ==
  /\ r \in Seq(Threads) /\ Distinct(r)
  /\ \A u \in Threads : Has(r, u) <=> Has(queue, u) /\ u # t

\* The erased block is gone, and no other one.
LEMMA UnlinkTakesOut ==
  ASSUME NEW queue \in Seq(Threads), Distinct(queue), NEW t \in Threads
  PROVE  Unlinked(Unlink(queue, t), queue, t)
<1> DEFINE r == Unlink(queue, t)
           n == Len(queue)
           k == CHOOSE i \in DOMAIN queue : queue[i] = t
<1>0. n \in Nat /\ DOMAIN queue = 1 .. n /\ Len(queue) = n
  OBVIOUS
<1> HIDE DEF n
<1>1. CASE \A i \in DOMAIN queue : queue[i] # t
  BY <1>1 DEF Unlink, Unlinked, Has
<1>2. CASE ~ \A i \in DOMAIN queue : queue[i] # t
  <2>1. k \in 1 .. n /\ queue[k] = t /\ r = SubSeq(queue, 1, k - 1) \o SubSeq(queue, k + 1, Len(queue))
    BY <1>0, <1>2 DEF Unlink
  <2> HIDE DEF k, r
  <2>2. r \in Seq(Threads) /\ Removed(r, queue, k)
    BY <1>0, <2>1, RemovedAt
  <2>3. /\ DOMAIN r = 1 .. (n - 1)
        /\ \A i \in 1 .. (k - 1) : r[i] = queue[i]
        /\ \A i \in k .. (n - 1) : r[i] = queue[i + 1]
    BY <1>0, <2>2 DEF Removed
  <2>4. Distinct(r)
    <3> SUFFICES ASSUME NEW i \in 1 .. (n - 1), NEW j \in 1 .. (n - 1), r[i] = r[j] PROVE i = j
      BY <2>3 DEF Distinct
    <3> DEFINE From(a) == IF a < k THEN a ELSE a + 1
    <3>1. ASSUME NEW a \in 1 .. (n - 1) PROVE From(a) \in 1 .. n /\ r[a] = queue[From(a)]
      <4>1. CASE a < k
        BY <1>0, <2>1, <2>3, <4>1
      <4>2. CASE a >= k
        <5>1. a \in k .. (n - 1) /\ From(a) = a + 1 /\ a + 1 \in 1 .. n
          BY <1>0, <2>1, <4>2
        <5> QED
          BY <2>3, <5>1
      <4> QED
        BY <1>0, <2>1, <4>1, <4>2
    <3>2. From(i) = From(j)
      <4> HIDE DEF From
      <4> QED
        BY <1>0, <3>1 DEF Distinct
    <3> QED
      BY <1>0, <2>1, <3>2
  <2>5. ASSUME NEW u \in Threads PROVE Has(r, u) <=> Has(queue, u) /\ u # t
    <3>1. ASSUME Has(r, u) PROVE Has(queue, u) /\ u # t
      <4>1. PICK i \in 1 .. (n - 1) : r[i] = u
        BY <2>3, <3>1 DEF Has
      <4>2. PICK j \in 1 .. n : queue[j] = u /\ j # k
        <5>1. CASE i < k
          BY <1>0, <2>1, <2>3, <4>1, <5>1
        <5>2. CASE i >= k
          BY <1>0, <2>1, <2>3, <4>1, <5>2
        <5> QED
          BY <2>1, <5>1, <5>2
      <4> QED
        BY <1>0, <2>1, <4>2 DEF Has, Distinct
    <3>2. ASSUME Has(queue, u), u # t PROVE Has(r, u)
      <4>1. PICK j \in 1 .. n : queue[j] = u
        BY <1>0, <3>2 DEF Has
      <4>2. j # k
        BY <2>1, <3>2, <4>1
      <4>3. CASE j < k
        <5>1. j \in 1 .. (k - 1) /\ j \in 1 .. (n - 1)
          BY <1>0, <2>1, <4>3
        <5> QED
          BY <2>3, <4>1, <5>1 DEF Has
      <4>4. CASE j > k
        <5>0. j - 1 \in 1 .. (n - 1) /\ j - 1 \in k .. (n - 1) /\ (j - 1) + 1 = j
          BY <1>0, <2>1, <4>4
        <5>1. j - 1 \in 1 .. (n - 1) /\ r[j - 1] = u
          BY <2>3, <4>1, <5>0
        <5> QED
          BY <2>3, <5>1 DEF Has
      <4> QED
        BY <1>0, <2>1, <4>2, <4>3, <4>4
    <3> QED
      BY <3>1, <3>2
  <2> QED
    BY <2>2, <2>4, <2>5 DEF Unlinked, r
<1> QED
  BY <1>1, <1>2

\* What ~ConsoleWaitBlock changes
LEMMA DestroyFields ==
  ASSUME NEW x \in Locked, NEW t \in Threads, NEW y, y = Destroy(x, t)
  PROVE  /\ y.storage = x.storage /\ y.signalled = x.signalled
         /\ y.inQ = Unlink(x.inQ, t) /\ y.outQ = Unlink(x.outQ, t)
         /\ y.procQ = [x.procQ EXCEPT ![t[1]] = Unlink(x.procQ[t[1]], t)]
         /\ y.call = [x.call EXCEPT ![t] = NoCall]
         /\ y.pending = x.pending /\ y.cooked = x.cooked /\ y.failed = x.failed
         /\ y.readCount = Count(x.readCount, x.call[t], -1)
<1>1.    /\ y.storage = x.storage /\ y.signalled = x.signalled
         /\ y.pending = x.pending /\ y.cooked = x.cooked /\ y.failed = x.failed
  BY DEF Locked, Destroy
<1>2.    /\ y.inQ = Unlink(x.inQ, t) /\ y.outQ = Unlink(x.outQ, t)
  BY DEF Locked, Destroy
<1>3.    /\ y.procQ = [x.procQ EXCEPT ![t[1]] = Unlink(x.procQ[t[1]], t)]
  BY DEF Locked, Destroy
<1>4.    /\ y.call = [x.call EXCEPT ![t] = NoCall]
  BY DEF Locked, Destroy
<1>5. y.readCount = Count(x.readCount, x.call[t], -1)
  BY DEF Locked, Destroy
<1> QED
  BY <1>1, <1>2, <1>3, <1>4, <1>5

\* The sets whose sizes the counts are
LEMMA ReadsFinite ==
  ASSUME NEW x, NEW h
  PROVE  IsFiniteSet(Reads(x, h)) /\ Cardinality(Reads(x, h)) \in Nat
  BY ConstantsAssumption, FS_Subset, FS_CardinalityType DEF Reads

\* A call is a read through a handle, or has none.
LEMMA CallKinds ==
  ASSUME NEW c \in Calls
  PROVE  /\ c # NoCall => c.kind \in ReadKinds \/ c.kind = "write"
         /\ c.kind \in ReadKinds => c.handle \in Handles /\ c.kind # "write"
         /\ c.kind \notin ReadKinds => c.handle = Null
         /\ c.kind \in Kinds => c # NoCall
  BY ConstantsAssumption DEF Calls, NoCall, ReadKinds, Kinds

\* ~ReadData keeps the count right.
LEMMA CountDown ==
  ASSUME NEW x \in Locked, CountInv(x), NEW t \in Threads, x.call[t] # NoCall, NEW y,
         y.call = [x.call EXCEPT ![t] = NoCall], y.readCount = Count(x.readCount, x.call[t], -1)
  PROVE  CountInv(y) /\ y.readCount \in [Handles -> Nat]
<1> DEFINE c == x.call[t]
<1>1. c \in Calls /\ x.call \in [Threads -> Calls] /\ x.readCount \in [Handles -> Nat]
  BY DEF Locked
<1>2. NoCall.handle = Null /\ Null \notin Handles
  BY ConstantsAssumption DEF NoCall
<1>3. ASSUME NEW h \in Handles, h # c.handle PROVE Reads(y, h) = Reads(x, h)
  BY <1>1, <1>2, <1>3 DEF Reads
<1>4. CASE c.kind \in ReadKinds
  <2>1. c.handle \in Handles /\ c.kind # "write"
    BY <1>1, <1>4, CallKinds
  <2>2. y.readCount = [x.readCount EXCEPT ![c.handle] = @ + (-1)]
    BY <2>1 DEF Count
  <2>3. t \in Reads(x, c.handle) /\ Reads(y, c.handle) = Reads(x, c.handle) \ {t}
    BY <1>1, <1>2, <2>1 DEF Reads
  <2>4. Cardinality(Reads(y, c.handle)) = Cardinality(Reads(x, c.handle)) - 1
    BY <2>3, ReadsFinite, FS_RemoveElement
  <2>5. Cardinality(Reads(y, c.handle)) \in Nat /\ Cardinality(Reads(x, c.handle)) \in Nat
    BY ReadsFinite
  <2> HIDE DEF c
  <2>6. \A h \in Handles : y.readCount[h] = Cardinality(Reads(y, h)) /\ y.readCount[h] \in Nat
    BY <1>1, <1>3, <2>1, <2>2, <2>4, <2>5, ReadsFinite DEF CountInv
  <2> QED
    BY <1>1, <2>1, <2>2, <2>6 DEF CountInv
<1>5. CASE c.kind = "write"
  <2>1. c.handle = Null /\ y.readCount = x.readCount
    BY <1>1, <1>5, CallKinds DEF Count, ReadKinds
  <2> HIDE DEF c
  <2> QED
    BY <1>1, <1>2, <1>3, <2>1 DEF CountInv
<1> QED
  BY <1>1, <1>4, <1>5, CallKinds

\* The destruction of a block leaves the data sound, unless the pointer to the cooked
\* read is left behind.
LEMMA DestroySound ==
  ASSUME NEW held \in Threads \cup {Null}, NEW x, Sound(x, held), NEW t \in Threads,
         x.call[t] # NoCall, x.cooked # t, NEW y, y = Destroy(x, t),
         NEW next, next = IF t = held THEN Null ELSE held
  PROVE  Sound(y, next)
<1>1. x \in Locked /\ QueuesInv(x, held) /\ CountInv(x)
  BY DEF Sound
<1>2. /\ y.storage = x.storage /\ y.signalled = x.signalled /\ y.cooked = x.cooked
      /\ y.inQ = Unlink(x.inQ, t) /\ y.outQ = Unlink(x.outQ, t)
      /\ y.procQ = [x.procQ EXCEPT ![t[1]] = Unlink(x.procQ[t[1]], t)]
      /\ y.call = [x.call EXCEPT ![t] = NoCall]
      /\ y.readCount = Count(x.readCount, x.call[t], -1)
  BY <1>1, DestroyFields
<1>3. /\ x.call \in [Threads -> Calls] /\ x.procQ \in [Clients -> Seq(Threads)]
      /\ x.inQ \in Seq(Threads) /\ x.outQ \in Seq(Threads) /\ t[1] \in Clients
      /\ x.cooked \in Threads \cup {Null}
  BY <1>1, ThreadClient DEF Locked
<1>4. /\ Unlinked(Unlink(x.inQ, t), x.inQ, t) /\ Unlinked(Unlink(x.outQ, t), x.outQ, t)
      /\ Unlinked(Unlink(x.procQ[t[1]], t), x.procQ[t[1]], t)
  BY <1>1, <1>3, UnlinkTakesOut DEF QueuesInv
<1>5. CountInv(y) /\ y.readCount \in [Handles -> Nat]
  BY <1>1, <1>2, CountDown
<1>6. y \in Locked
  <2>1. NoCall \in Calls /\ 0 \in 0 .. UserBuffer
    BY ConstantsAssumption DEF Calls
  <2>2. Count(x.readCount, x.call[t], -1) \in [Handles -> Nat]
    BY <1>2, <1>5
  <2> QED
    BY <1>1, <1>3, <1>4, <2>1, <2>2 DEF Locked, Destroy, Unlinked
<1>7. QueuesInv(y, next)
  <2>1. ASSUME NEW u \in Threads PROVE InQueue(y, next, u) <=> InQueue(x, held, u) /\ u # t
    BY <1>2, <1>3, ConstantsAssumption DEF InQueue
  <2>2. \A u \in Threads : u # t => y.call[u] = x.call[u]
    BY <1>2, <1>3
  <2>3. /\ Distinct(y.inQ) /\ Distinct(y.outQ)
        /\ \A u \in Threads : /\ Has(y.inQ, u) <=> Has(x.inQ, u) /\ u # t
                              /\ Has(y.outQ, u) <=> Has(x.outQ, u) /\ u # t
    BY <1>2, <1>4 DEF Unlinked
  <2>4. ASSUME NEW u \in Threads PROVE Has(y.procQ[u[1]], u) <=> Has(x.procQ[u[1]], u) /\ u # t
    <3>1. u[1] \in Clients
      BY ThreadClient
    <3>2. CASE u[1] = t[1]
      BY <1>2, <1>3, <1>4, <3>2 DEF Unlinked
    <3>3. CASE u[1] # t[1]
      BY <1>2, <1>3, <3>1, <3>3
    <3> QED
      BY <3>2, <3>3
  <2>5. ASSUME NEW c \in Clients
        PROVE  Distinct(y.procQ[c]) /\ \A i \in DOMAIN y.procQ[c] : y.procQ[c][i][1] = c
    <3>1. CASE c = t[1]
      <4>1. y.procQ[c] = Unlink(x.procQ[c], t) /\ Unlinked(y.procQ[c], x.procQ[c], t)
        BY <1>2, <1>3, <1>4, <3>1
      <4>2. ASSUME NEW i \in DOMAIN y.procQ[c] PROVE y.procQ[c][i][1] = c
        <5>1. y.procQ[c][i] \in Threads
          BY <4>1 DEF Unlinked
        <5>2. Has(x.procQ[c], y.procQ[c][i])
          BY <4>1, <5>1 DEF Unlinked, Has
        <5> QED
          BY <1>1, <5>2 DEF QueuesInv, Has
      <4> QED
        BY <4>1, <4>2 DEF Unlinked
    <3>2. CASE c # t[1]
      BY <1>1, <1>2, <1>3, <3>2 DEF QueuesInv
    <3> QED
      BY <3>1, <3>2
  <2> QED
    BY <1>1, <2>1, <2>2, <2>3, <2>4, <2>5 DEF QueuesInv
<1>8. CookedInv(y) /\ InputInv(y)
  BY <1>2, <1>3 DEF Sound, CookedInv, InputInv
<1>9. next # Null => y.call[next] # NoCall
  BY <1>2, <1>3 DEF Sound
<1> QED
  BY <1>5, <1>6, <1>7, <1>8, <1>9 DEF Sound

\* The least of some numbers is one of them.
LEMMA MinIsOne ==
  ASSUME NEW T, T \subseteq Nat, T # {}
  PROVE  Min(T) \in T
<1>1. \E n \in T : \A k \in T : n <= k
  BY Least
<1> QED
  BY <1>1 DEF Min

\* y differs from x in nothing but the input and what a reader has of it.
Quiet(y, x) ==
  /\ y \in Locked
  /\ y.inQ = x.inQ /\ y.outQ = x.outQ /\ y.procQ = x.procQ
  /\ y.call = x.call /\ y.readCount = x.readCount /\ y.failed = x.failed
  /\ y.cooked = x.cooked \/ y.cooked = Null

\* Nothing that only changes the input can make the data unsound.
LEMMA QuietSound ==
  ASSUME NEW held, NEW x, Sound(x, held), NEW y, Quiet(y, x), InputInv(y)
  PROVE  Sound(y, held)
<1>1. QueuesInv(y, held)
  <2>1. \A t \in Threads : InQueue(y, held, t) <=> InQueue(x, held, t)
    BY DEF Quiet, InQueue
  <2> QED
    BY <2>1 DEF Sound, Quiet, QueuesInv
<1>2. CountInv(y)
  BY DEF Sound, Quiet, CountInv, Reads
<1>3. CookedInv(y)
  BY DEF Sound, Quiet, CookedInv
<1> QED
  BY <1>1, <1>2, <1>3 DEF Sound, Quiet

\* A read takes events out, and resets the event with the last one.
LEMMA ConsumeQuiet ==
  ASSUME NEW x \in Locked, InputInv(x), NEW n \in Nat
  PROVE  Quiet(Consume(x, n), x) /\ InputInv(Consume(x, n))
<1> DEFINE rest == SubSeq(x.storage, n + 1, Len(x.storage))
           s == IF n > 0 /\ rest = <<>> THEN FALSE ELSE x.signalled
           y == [x EXCEPT !.storage = rest, !.signalled = s]
<1>1. x.storage \in Seq(Events) /\ x.signalled \in BOOLEAN
  BY DEF Locked
<1>2. rest \in Seq(Events) /\ Len(rest) <= Len(x.storage) /\ Len(rest) \in Nat /\ Len(x.storage) \in Nat
      /\ (x.storage = <<>> => rest = <<>>)
  BY <1>1
<1>3. s \in BOOLEAN
  BY <1>1
<1>4. rest # <<>> => s
  BY <1>2 DEF InputInv
<1>5. Consume(x, n) = y
  BY DEF Consume, Locked
<1> HIDE DEF rest, s
<1>6. y \in Locked
  BY <1>2, <1>3 DEF Locked
<1>7. Quiet(y, x)
  BY <1>6 DEF Locked, Quiet
<1>8. y.storage = rest /\ y.signalled = s
  BY DEF Locked
<1>9. InputInv(y)
  BY <1>2, <1>4, <1>8, ConstantsAssumption DEF InputInv
<1> QED
  BY <1>5, <1>7, <1>9

\* The reads find characters in what there is.
LEMMA Positions ==
  ASSUME NEW x \in Locked
  PROVE  /\ Len(x.storage) \in Nat /\ DOMAIN x.storage = 1 .. Len(x.storage)
         /\ Characters(x) \subseteq Nat /\ Enters(x) \subseteq Nat
         /\ IsFiniteSet(Characters(x)) /\ Cardinality(Characters(x)) \in Nat
<1>1. Len(x.storage) \in Nat /\ DOMAIN x.storage = 1 .. Len(x.storage)
  BY DEF Locked
<1>2. Characters(x) \subseteq 1 .. Len(x.storage) /\ Enters(x) \subseteq 1 .. Len(x.storage)
  BY <1>1 DEF Characters, Enters
<1>3. IsFiniteSet(1 .. Len(x.storage))
  BY <1>1, FS_Interval
<1>4. IsFiniteSet(Characters(x))
  BY <1>2, <1>3, FS_Subset
<1> QED
  BY <1>1, <1>2, <1>4, FS_CardinalityType

\* What a reader's answer may be.
Answered(a, x) ==
  /\ Quiet(a.x, x) /\ InputInv(a.x) /\ a.done \in BOOLEAN

\* A raw read only takes input.
LEMMA RawReadAnswers ==
  ASSUME NEW x \in Locked, InputInv(x) PROVE Answered(RawRead(x), x)
<1>1. CASE Characters(x) = {}
  BY <1>1, Positions, ConsumeQuiet DEF RawRead, Wait, Answered
<1>2. CASE Characters(x) # {}
  <2>1. Min(Characters(x)) \in Nat
    BY <1>2, Positions, MinIsOne
  <2> QED
    BY <1>2, <2>1, ConsumeQuiet DEF RawRead, Done, Answered
<1> QED
  BY <1>1, <1>2

\* So does a direct one.
LEMMA DirectReadAnswers ==
  ASSUME NEW x \in Locked, InputInv(x) PROVE Answered(DirectRead(x), x)
<1>1. Quiet(x, x)
  BY DEF Quiet
<1> QED
  BY <1>1, ConsumeQuiet DEF DirectRead, Wait, Done, Answered

\* Only a read that is done takes back the pointer to it, and such a read does.
LEMMA CookedReadAnswers ==
  ASSUME NEW x \in Locked, InputInv(x), NEW t \in Threads, x.call[t].kind = "cooked"
  PROVE  Answered(CookedRead(x, t), x) /\ (CookedRead(x, t).done => CookedRead(x, t).x.cooked = Null)
<1>0. x.line \in [Threads -> 0 .. UserBuffer] /\ x.pending \in [Handles -> BOOLEAN]
      /\ x.call[t].handle \in Handles /\ x.cooked \in Threads \cup {Null}
  BY CallKinds DEF Locked, ReadKinds, Kinds
<1>1. CASE Enters(x) = {}
  <2> DEFINE y == Consume(x, Len(x.storage))
             typed == x.line[t] + Cardinality(Characters(x))
             m == Min({typed, UserBuffer})
             z == [y EXCEPT !.line[t] = m]
  <2>1. CookedRead(x, t) = Wait(z)
    BY <1>1 DEF CookedRead
  <2>2. Quiet(y, x) /\ InputInv(y)
    BY ConsumeQuiet, Positions
  <2>3. m \in 0 .. UserBuffer
    <3>1. typed \in Nat /\ UserBuffer \in Nat
      BY <1>0, Positions, ConstantsAssumption
    <3> HIDE DEF typed
    <3>2. {typed, UserBuffer} \subseteq Nat /\ {typed, UserBuffer} # {}
      BY <3>1
    <3>3. \E a \in {typed, UserBuffer} : \A b \in {typed, UserBuffer} : a <= b
      BY <3>2, Least
    <3>4. m \in {typed, UserBuffer} /\ m <= UserBuffer
      BY <3>3 DEF Min
    <3> QED
      BY <3>1, <3>4
  <2> HIDE DEF y, m
  <2>4. z \in Locked /\ z.storage = y.storage /\ z.signalled = y.signalled
    BY <2>2, <2>3 DEF Quiet, Locked
  <2>5. Quiet(z, x)
    BY <2>2, <2>4 DEF Quiet, Locked
  <2>6. InputInv(z)
    BY <2>2, <2>4 DEF InputInv
  <2> QED
    BY <2>1, <2>5, <2>6 DEF Wait, Answered
<1>2. CASE Enters(x) # {}
  <2> DEFINE end == Min(Enters(x))
             y == Consume(x, end)
             h == x.call[t].handle
             typed == x.line[t] + Cardinality(Characters(x) \cap 1 .. end)
             p == y.pending[h] \/ typed > UserBuffer
             z == [y EXCEPT !.cooked = Null, !.pending[h] = p]
  <2>1. CookedRead(x, t) = Done(z)
    BY <1>2 DEF CookedRead
  <2>2. Quiet(y, x) /\ InputInv(y)
    BY <1>2, ConsumeQuiet, Positions, MinIsOne
  <2> HIDE DEF y, typed
  <2>3. p \in BOOLEAN
    BY <1>0, <2>2 DEF Quiet, Locked
  <2> HIDE DEF p
  <2>4. z \in Locked /\ z.storage = y.storage /\ z.signalled = y.signalled /\ z.cooked = Null
    BY <2>2, <2>3 DEF Quiet, Locked
  <2>5. Quiet(z, x)
    BY <2>2, <2>4 DEF Quiet, Locked
  <2>6. InputInv(z)
    BY <2>2, <2>4 DEF InputInv
  <2> QED
    <3>1. Done(z).x = z /\ Done(z).done = TRUE
      BY DEF Done
    <3> HIDE DEF z
    <3> QED
      BY <2>1, <2>4, <2>5, <2>6, <3>1 DEF Answered
<1> QED
  BY <1>1, <1>2

\* The reasons that no waiter may survive
Final == {"ThreadDying", "HandleClosing"}

\* Whatever a waiter of any kind does when it is notified, it keeps the lock's data
\* sound, takes the pointer to a cooked read back before that read goes, and goes for
\* good when its handle or its process does.
LEMMA NotifyAnswers ==
  ASSUME NEW x \in Locked, InputInv(x), CookedInv(x), NEW t \in Threads, x.call[t] # NoCall, NEW reason
  PROVE  /\ Answered(Notify(x, t, reason), x)
         /\ Notify(x, t, reason).done => Notify(x, t, reason).x.cooked # t
         /\ reason \in Final => Notify(x, t, reason).done
<1> DEFINE kind == x.call[t].kind
           a == Notify(x, t, reason)
           n == Min({1, Len(x.storage)})
           y == [x EXCEPT !.cooked = Null]
<1>1. kind \in {"raw", "cooked", "direct", "write"}
  BY CallKinds DEF Locked, ReadKinds, Kinds
<1>2. Quiet(x, x) /\ (kind # "cooked" => x.cooked # t) /\ t # Null
  BY ConstantsAssumption DEF Quiet, CookedInv
<1>3. Quiet(y, x) /\ InputInv(y) /\ y.cooked = Null
  BY DEF Quiet, InputInv, Locked
<1>4. n \in Nat
  <2>1. {1, Len(x.storage)} \subseteq Nat /\ {1, Len(x.storage)} # {}
    BY Positions
  <2> QED
    BY <2>1, MinIsOne
<1>5. Answered(Wait(x), x) /\ Wait(x).done = FALSE /\ Answered(Done(x), x) /\ Done(x).x = x /\ Done(x).done
  BY <1>2 DEF Answered, Wait, Done
<1>6. Answered(Done(y), x) /\ Done(y).x.cooked = Null /\ Done(y).done
  BY <1>3 DEF Answered, Done
<1>7. Answered(RawRead(x), x)
  BY RawReadAnswers
<1>8. Answered(Done(Consume(x, n)), x) /\ Done(Consume(x, n)).done
  <2> DEFINE z == Consume(x, n)
  <2>1. Quiet(z, x) /\ InputInv(z)
    BY <1>4, ConsumeQuiet
  <2> HIDE DEF z
  <2>2. Done(z).x = z /\ Done(z).done = TRUE
    BY DEF Done
  <2>3. Answered(Done(z), x) /\ Done(z).done
    BY <2>1, <2>2 DEF Answered
  <2> QED
    BY <2>3 DEF z
<1>9. ASSUME NEW b, Answered(b, x), kind # "cooked" PROVE b.x.cooked # t
  BY <1>2, <1>9 DEF Answered, Quiet
<1> HIDE DEF y, n
<1>10. CASE kind = "raw"
  <2>1. \/ reason = "CtrlC" /\ a = Wait(x)
        \/ reason # "none" /\ a = Done(x)
        \/ reason = "none" /\ a = RawRead(x)
    BY <1>10 DEF Notify, Ignores, GiveUp
  <2> QED
    BY <1>5, <1>7, <1>9, <1>10, <2>1 DEF Final
<1>11. CASE kind = "cooked"
  <2>1. \/ reason # "none" /\ a = Done(y)
        \/ reason = "none" /\ a = CookedRead(x, t)
    BY <1>11 DEF Notify, Ignores, GiveUp, y
  <2> QED
    BY <1>2, <1>6, <1>11, <2>1, CookedReadAnswers DEF Final
<1>12. CASE kind = "direct"
  <2>1. \/ reason \in {"CtrlC", "CtrlBreak"} /\ a = Wait(x)
        \/ reason # "none" /\ a = Done(x)
        \/ reason = "none" /\ a = Done(Consume(x, n))
    BY <1>12 DEF Notify, Ignores, GiveUp, n
  <2> QED
    BY <1>5, <1>8, <1>9, <1>12, <2>1 DEF Final
<1>13. CASE kind = "write"
  <2>1. a = Done(x)
    BY <1>13 DEF Notify, Ignores, GiveUp
  <2> QED
    BY <1>5, <1>9, <1>13, <2>1 DEF Final
<1> QED
  BY <1>1, <1>10, <1>11, <1>12, <1>13

\* y is x but for the FAIL_FAST_IFs that were met.
Failed(y, x, failures) == y = [x EXCEPT !.failed = failures]

\* A FAIL_FAST_IF changes nothing else,
LEMMA FailedFields ==
  ASSUME NEW x \in Locked, NEW failures \in SUBSET Assertions, NEW y, Failed(y, x, failures)
  PROVE  /\ y \in Locked
         /\ y.storage = x.storage /\ y.signalled = x.signalled
         /\ y.inQ = x.inQ /\ y.outQ = x.outQ /\ y.procQ = x.procQ
         /\ y.call = x.call /\ y.readCount = x.readCount /\ y.cooked = x.cooked /\ y.pending = x.pending
         /\ y.failed = failures
  BY DEF Failed, Locked

\* ... so the data stays sound.
LEMMA FailedSound ==
  ASSUME NEW held, NEW x, Sound(x, held), NEW failures \in SUBSET Assertions, NEW y, Failed(y, x, failures)
  PROVE  Sound(y, held)
<1>0. x \in Locked
  BY DEF Sound
<1>1. /\ y \in Locked
      /\ y.storage = x.storage /\ y.signalled = x.signalled
      /\ y.inQ = x.inQ /\ y.outQ = x.outQ /\ y.procQ = x.procQ
      /\ y.call = x.call /\ y.readCount = x.readCount /\ y.cooked = x.cooked
  BY <1>0, FailedFields
<1>2. QueuesInv(y, held)
  <2>1. \A t \in Threads : InQueue(y, held, t) <=> InQueue(x, held, t)
    BY <1>1 DEF InQueue
  <2> QED
    BY <1>1, <2>1 DEF Sound, QueuesInv
<1>3. CountInv(y)
  BY <1>1 DEF Sound, CountInv, Reads
<1>4. CookedInv(y) /\ InputInv(y)
  BY <1>1 DEF Sound, CookedInv, InputInv
<1> QED
  BY <1>1, <1>2, <1>3, <1>4 DEF Sound

\* A waiter that is notified is counted by its handle.
LEMMA AssertedSound ==
  ASSUME NEW held, NEW x, Sound(x, held), NEW t \in Threads, x.call[t] # NoCall, NEW y, y = Asserted(x, t)
  PROVE  Sound(y, held) /\ y.call = x.call /\ y.failed \subseteq x.failed \cup {"pending"}
<1> DEFINE c == x.call[t]
<1>0. x \in Locked /\ c \in Calls /\ x.failed \in SUBSET Assertions /\ "pending" \in Assertions
  BY DEF Sound, Locked, Assertions
<1>1. ASSUME c.kind \in ReadKinds PROVE x.readCount[c.handle] # 0
  <2>1. c.handle \in Handles /\ t \in Reads(x, c.handle)
    BY <1>0, <1>1, CallKinds DEF Reads
  <2>2. Cardinality(Reads(x, c.handle)) # 0
    BY <2>1, ReadsFinite, FS_EmptySet
  <2> QED
    BY <2>1, <2>2 DEF Sound, CountInv
<1>2. FailFastIf(x, c.kind \in ReadKinds /\ x.readCount[c.handle] = 0, "uncounted") = x
  BY <1>0, <1>1 DEF FailFastIf, Locked
<1>3. y = FailFastIf(x, c.kind = "cooked" /\ x.pending[c.handle], "pending")
  BY <1>2 DEF Asserted
<1>4. PICK failures \in {x.failed, x.failed \cup {"pending"}} : Failed(y, x, failures)
  BY <1>3 DEF FailFastIf, Failed
<1>5. failures \in SUBSET Assertions
  BY <1>0
<1> QED
  BY <1>0, <1>4, <1>5, FailedFields, FailedSound

\* What it means for one block to be notified
Notified(y, x, held, t, reason) ==
  /\ Sound(y, held)
  /\ \A u \in Threads : y.call[u] = x.call[u] \/ (u = t /\ y.call[u] = NoCall)
  /\ reason \in Final => y.call[t] = NoCall
  /\ y.failed \subseteq x.failed \cup {"pending"}

\* ConsoleWaitBlock::Notify does that.
LEMMA NotifyBlockNotifies ==
  ASSUME NEW held \in Threads \cup {Null}, NEW x, Sound(x, held), NEW reason,
         NEW t \in Threads, x.call[t] # NoCall, t # held
  PROVE  Notified(NotifyBlock(x, t, reason), x, held, t, reason)
<1> DEFINE z == Asserted(x, t)
           a == Notify(z, t, reason)
           y == NotifyBlock(x, t, reason)
<1>1. Sound(z, held) /\ z.call = x.call /\ z.failed \subseteq x.failed \cup {"pending"}
  BY AssertedSound
<1> HIDE DEF z
<1>2. z \in Locked /\ InputInv(z) /\ CookedInv(z)
  BY <1>1 DEF Sound
<1>3. /\ Quiet(a.x, z) /\ InputInv(a.x) /\ a.done \in BOOLEAN
      /\ a.done => a.x.cooked # t
      /\ reason \in Final => a.done
  BY <1>1, <1>2, NotifyAnswers DEF Answered
<1>4. y = IF a.done THEN Destroy(a.x, t) ELSE FailFastIf(a.x, reason = "ThreadDying", "survives")
  BY DEF NotifyBlock, z
<1> DEFINE w == a.x
<1>5. Sound(w, held)
  BY <1>1, <1>3, QuietSound
<1>6. w \in Locked /\ w.call = x.call /\ w.failed = z.failed
  BY <1>1, <1>3 DEF Quiet
<1>7. ASSUME a.done PROVE Notified(y, x, held, t, reason)
  <2>1. y = Destroy(w, t) /\ w.cooked # t
    BY <1>3, <1>4, <1>7
  <2> HIDE DEF w, y
  <2>2. held = IF t = held THEN Null ELSE held
    OBVIOUS
  <2>3. Sound(y, held)
    BY <1>5, <1>6, <2>1, <2>2, DestroySound
  <2>4. y.call = [w.call EXCEPT ![t] = NoCall] /\ y.failed = w.failed
    BY <1>6, <2>1 DEF Destroy, Locked
  <2>5. x.call \in [Threads -> Calls]
    BY DEF Sound, Locked
  <2> QED
    BY <1>1, <1>6, <2>3, <2>4, <2>5 DEF Notified
<1>8. ASSUME ~a.done PROVE Notified(y, x, held, t, reason)
  <2>1. y = w /\ reason \notin Final
    BY <1>3, <1>4, <1>6, <1>8 DEF FailFastIf, Final, Locked
  <2> HIDE DEF w, y
  <2> QED
    BY <1>1, <1>5, <1>6, <2>1 DEF Notified
<1> QED
  BY <1>3, <1>7, <1>8

\* The blocks of a queue are those of calls that wait.
Waiters(queue, x, held) ==
  /\ queue \in Seq(Threads) /\ Distinct(queue)
  /\ \A i \in 1 .. Len(queue) : x.call[queue[i]] # NoCall /\ queue[i] # held

\* s is what x has become when the first n blocks of the queue have been notified.
Phase(s, n, x, queue, held, reason) ==
  /\ Sound(s, held)
  /\ \A u \in Threads : \/ s.call[u] = x.call[u]
                        \/ s.call[u] = NoCall /\ \E i \in 1 .. n : queue[i] = u
  /\ reason \in Final => \A i \in 1 .. n : s.call[queue[i]] = NoCall
  /\ s.failed \subseteq x.failed \cup {"pending"}

\* The next block still waits: no earlier one was the same.
LEMMA PhaseStep ==
  ASSUME NEW held \in Threads \cup {Null}, NEW x, NEW reason, NEW queue, Waiters(queue, x, held),
         NEW n \in 1 .. Len(queue), NEW s, Phase(s, n - 1, x, queue, held, reason)
  PROVE  Phase(NotifyBlock(s, queue[n], reason), n, x, queue, held, reason)
<1> DEFINE t == queue[n]
           y == NotifyBlock(s, t, reason)
           m == n - 1
<1>0. Len(queue) \in Nat /\ t \in Threads /\ m \in Nat /\ n = m + 1 /\ DOMAIN queue = 1 .. Len(queue)
  BY DEF Waiters
<1>1. \A i \in 1 .. m : i \in 1 .. Len(queue) /\ queue[i] # t /\ queue[i] \in Threads
  BY <1>0 DEF Waiters, Distinct
<1>2. s.call[t] = x.call[t] /\ s.call[t] # NoCall /\ t # held
  BY <1>0, <1>1 DEF Phase, Waiters
<1>3. Sound(s, held)
  BY DEF Phase
<1>4. Notified(y, s, held, t, reason)
  BY <1>0, <1>2, <1>3, NotifyBlockNotifies
<1> HIDE DEF y
<1>5. ASSUME NEW u \in Threads
      PROVE  \/ y.call[u] = x.call[u]
             \/ y.call[u] = NoCall /\ \E i \in 1 .. n : queue[i] = u
  <2>1. CASE u = t
    BY <1>0, <1>2, <1>4, <2>1 DEF Notified
  <2>2. CASE u # t
    <3>1. y.call[u] = s.call[u]
      BY <1>4, <2>2 DEF Notified
    <3>2. \A i \in 1 .. m : i \in 1 .. n
      BY <1>0
    <3> QED
      BY <3>1, <3>2 DEF Phase
  <2> QED
    BY <2>1, <2>2
<1>6. ASSUME reason \in Final, NEW i \in 1 .. n PROVE y.call[queue[i]] = NoCall
  <2>1. CASE i = n
    BY <1>4, <1>6, <2>1 DEF Notified
  <2>2. CASE i \in 1 .. m
    BY <1>1, <1>4, <1>6, <2>2 DEF Notified, Phase
  <2> QED
    BY <1>0, <2>1, <2>2
<1>7. y.failed \subseteq x.failed \cup {"pending"}
  BY <1>4 DEF Notified, Phase
<1>8. Phase(y, n, x, queue, held, reason)
  BY <1>4, <1>5, <1>6, <1>7 DEF Phase, Notified
<1> QED
  BY <1>8 DEF y

\* Nothing has been notified yet.
LEMMA PhaseStart ==
  ASSUME NEW x, NEW held, Sound(x, held), NEW queue, NEW reason
  PROVE  Phase(x, 0, x, queue, held, reason)
<1>1. \A i \in 1 .. 0 : x.call[queue[i]] = NoCall
  OBVIOUS
<1>2. x.failed \subseteq x.failed \cup {"pending"}
  OBVIOUS
<1> QED
  BY <1>1, <1>2 DEF Phase

\* The states that NotifyWaiters goes through
LEMMA NotifyWalk ==
  ASSUME NEW held \in Threads \cup {Null}, NEW x, Sound(x, held), NEW reason, NEW queue, Waiters(queue, x, held)
  PROVE  \E after : /\ \A all : NotifyWaiters(x, queue, all, reason)
                                = after[IF all \/ queue = <<>> THEN Len(queue) ELSE 1]
                   /\ \A n \in 0 .. Len(queue) : Phase(after[n], n, x, queue, held, reason)
<1> DEFINE N == Len(queue)
           K(s, n) == NotifyBlock(s, queue[n], reason)
           P(s, n) == Phase(s, n, x, queue, held, reason)
           S == Locked
           step == [n \in Nat |-> [s \in S |-> IF K(s, n) \in S THEN K(s, n) ELSE s]]
           G(f) == f = [n \in 0 .. N |-> IF n = 0 THEN x ELSE K(f[n - 1], n)]
<1>0. N \in Nat /\ x \in S
  BY DEF Waiters, Sound
<1>1. \A n, s : P(s, n) => s \in S
  BY DEF Phase, Sound
<1>2. P(x, 0)
  BY PhaseStart
<1>3. ASSUME NEW n \in 1 .. N, NEW s, P(s, n - 1) PROVE P(K(s, n), n)
  BY <1>3, PhaseStep
<1> HIDE DEF N, K, P, S
<1>4. step \in [Nat -> [S -> S]] /\ \A n \in 1 .. N : \A s \in S : K(s, n) \in S => step[n][s] = K(s, n)
  BY <1>0
<1> HIDE DEF step
<1>5. PICK f : Computes(f, S, x, step, N)
  BY <1>0, <1>4, RecursionUpTo
<1>6. \A n \in 1 .. N : P(f[n - 1], n - 1) => f[n] = K(f[n - 1], n) /\ P(f[n], n)
  <2> SUFFICES ASSUME NEW n \in 1 .. N, P(f[n - 1], n - 1)
               PROVE  f[n] = K(f[n - 1], n) /\ P(f[n], n)
    OBVIOUS
  <2>1. P(K(f[n - 1], n), n) /\ f[n - 1] \in S
    BY <1>1, <1>3
  <2>2. K(f[n - 1], n) \in S
    BY <1>1, <2>1
  <2>3. f[n] = step[n][f[n - 1]]
    BY <1>5 DEF Computes
  <2> QED
    BY <1>4, <2>1, <2>2, <2>3
<1> DEFINE I(g) == {n \in 0 .. N : P(g[n], n)}
<1>7. \A n \in 0 .. N : P(f[n], n)
  <2>1. 0 \in I(f)
    BY <1>0, <1>2, <1>5 DEF Computes
  <2>2. \A n \in 1 .. N : n - 1 \in I(f) => n \in I(f)
    BY <1>0, <1>6
  <2> HIDE DEF I
  <2>3. \A n \in 0 .. N : n \in I(f)
    BY <1>0, <2>1, <2>2, SetInductionUpTo
  <2> QED
    BY <2>3 DEF I
<1>8. G(f)
  <2>1. \A n \in 1 .. N : n - 1 \in 0 .. N
    BY <1>0
  <2> QED
    BY <1>0, <1>5, <1>6, <1>7, <2>1 DEF Computes
<1> DEFINE after == CHOOSE g : G(g)
<1>9. G(after)
  BY <1>8
<1>10. \A all : NotifyWaiters(x, queue, all, reason) = after[IF all \/ queue = <<>> THEN Len(queue) ELSE 1]
  BY DEF NotifyWaiters, N, K
<1> HIDE DEF after
<1>11. after[0] = x /\ \A n \in 1 .. N : after[n] = K(after[n - 1], n)
  BY <1>0, <1>9
<1>12. \A n \in 0 .. N : P(after[n], n)
  <2>1. 0 \in I(after)
    BY <1>0, <1>2, <1>11
  <2>2. \A n \in 1 .. N : n - 1 \in I(after) => n \in I(after)
    BY <1>0, <1>3, <1>11
  <2> HIDE DEF I
  <2>3. \A n \in 0 .. N : n \in I(after)
    BY <1>0, <2>1, <2>2, SetInductionUpTo
  <2> QED
    BY <2>3 DEF I
<1> QED
  BY <1>10, <1>12 DEF N, P

\* The queues hold waiters.
LEMMA QueuesOfWaiters ==
  ASSUME NEW x, NEW held, Sound(x, held)
  PROVE  /\ Waiters(x.inQ, x, held) /\ Waiters(x.outQ, x, held)
         /\ \A c \in Clients : Waiters(x.procQ[c], x, held)
<1>0. /\ x.inQ \in Seq(Threads) /\ x.outQ \in Seq(Threads) /\ x.procQ \in [Clients -> Seq(Threads)]
      /\ QueuesInv(x, held)
  BY DEF Sound, Locked
<1>1. ASSUME NEW queue \in Seq(Threads), Distinct(queue),
             \A t \in Threads : Has(queue, t) => InQueue(x, held, t)
      PROVE  Waiters(queue, x, held)
  <2>1. ASSUME NEW i \in 1 .. Len(queue) PROVE x.call[queue[i]] # NoCall /\ queue[i] # held
    <3>1. queue[i] \in Threads /\ Has(queue, queue[i])
      BY DEF Has
    <3> QED
      BY <1>1, <3>1 DEF InQueue
  <2> QED
    BY <1>1, <2>1 DEF Waiters
<1>2. Waiters(x.inQ, x, held) /\ Waiters(x.outQ, x, held)
  BY <1>0, <1>1 DEF QueuesInv
<1>3. ASSUME NEW c \in Clients PROVE Waiters(x.procQ[c], x, held)
  <2>1. ASSUME NEW t \in Threads, Has(x.procQ[c], t) PROVE InQueue(x, held, t)
    <3>1. t[1] = c
      BY <1>0, <2>1 DEF QueuesInv, Has
    <3> QED
      BY <1>0, <2>1, <3>1 DEF QueuesInv
  <2>2. x.procQ[c] \in Seq(Threads) /\ Distinct(x.procQ[c])
    BY <1>0 DEF QueuesInv
  <2> QED
    BY <1>1, <2>1, <2>2
<1> QED
  BY <1>2, <1>3

\* What NotifyWaiters leaves of x
Woken(y, x, queue, held, all, reason) ==
  /\ Sound(y, held)
  /\ \A u \in Threads : y.call[u] = x.call[u] \/ y.call[u] = NoCall
  /\ reason \in Final /\ all => \A u \in Threads : Has(queue, u) => y.call[u] = NoCall
  /\ y.failed \subseteq x.failed \cup {"pending"}

\* NotifyWaiters, of all or of one, ends in the last of these states.
LEMMA NotifyWaitersWakes ==
  ASSUME NEW held \in Threads \cup {Null}, NEW x, Sound(x, held), NEW reason, NEW queue,
         Waiters(queue, x, held), NEW all \in BOOLEAN
  PROVE  Woken(NotifyWaiters(x, queue, all, reason), x, queue, held, all, reason)
<1> DEFINE N == Len(queue)
           y == NotifyWaiters(x, queue, all, reason)
<1>0. N \in Nat /\ DOMAIN queue = 1 .. N /\ (queue # <<>> => N > 0)
  BY DEF Waiters
<1>1. PICK after : /\ \A a : NotifyWaiters(x, queue, a, reason)
                                = after[IF a \/ queue = <<>> THEN Len(queue) ELSE 1]
                   /\ \A n \in 0 .. Len(queue) : Phase(after[n], n, x, queue, held, reason)
  BY NotifyWalk
<1>2. PICK n \in 0 .. N : y = after[n] /\ (all => n = N)
  <2>1. CASE all \/ queue = <<>>
    <3>1. y = after[N] /\ N \in 0 .. N
      BY <1>0, <1>1, <2>1
    <3> QED
      BY <3>1
  <2>2. CASE ~ (all \/ queue = <<>>)
    <3>1. y = after[1] /\ 1 \in 0 .. N /\ ~all
      BY <1>0, <1>1, <2>2
    <3> QED
      BY <3>1
  <2> QED
    BY <2>1, <2>2
<1>3. Phase(y, n, x, queue, held, reason)
  BY <1>1, <1>2
<1> HIDE DEF y
<1>4. ASSUME reason \in Final, all, NEW u \in Threads, Has(queue, u) PROVE y.call[u] = NoCall
  <2>1. PICK i \in 1 .. N : queue[i] = u
    BY <1>0, <1>4 DEF Has
  <2> QED
    BY <1>2, <1>3, <1>4, <2>1 DEF Phase
<1>5. Woken(y, x, queue, held, all, reason)
  BY <1>3, <1>4 DEF Phase, Woken
<1> QED
  BY <1>5 DEF y
-----------------------------------------------------------------------------
(***************************************************************************)
(* Handles, new calls and new input                                        *)
(***************************************************************************)

\* No call is added, and nothing fails that might not.
Fewer(y, x) ==
  /\ \A u \in Threads : y.call[u] = x.call[u] \/ y.call[u] = NoCall
  /\ y.failed \subseteq x.failed \cup {"pending"}

\* Two such changes are one.
LEMMA FewerTwice ==
  ASSUME NEW x, NEW y, NEW z, Fewer(y, x), Fewer(z, y) PROVE Fewer(z, x)
  BY DEF Fewer

\* Changes of the input add no call.
LEMMA QuietFewer ==
  ASSUME NEW x, NEW y, Quiet(y, x) PROVE Fewer(y, x)
  BY DEF Quiet, Fewer

\* A flush leaves no event and resets the event.
LEMMA FlushQuiet ==
  ASSUME NEW x \in Locked PROVE Quiet(Flush(x), x) /\ InputInv(Flush(x))
<1>1. << >> \in Seq(Events) /\ Len(<< >>) = 0 /\ 0 <= MaxEvents
  BY ConstantsAssumption
<1>2. Flush(x) \in Locked /\ Flush(x).storage = << >>
  BY <1>1 DEF Flush, Locked
<1>3. Quiet(Flush(x), x)
  BY <1>2 DEF Quiet, Flush, Locked
<1> QED
  BY <1>1, <1>2, <1>3 DEF InputInv

\* Nobody reads through a handle that is closed: whoever does is in the queue of the
\* input, since no call is between its try and its queues, and gives up there.
LEMMA CloseInputHandleCloses ==
  ASSUME NEW x, Sound(x, Null), NEW h \in Handles
  PROVE  /\ Sound(CloseInputHandle(x, h), Null) /\ Fewer(CloseInputHandle(x, h), x)
         /\ \A t \in Threads : CloseInputHandle(x, h).call[t].handle # h
<1> DEFINE completed == [x EXCEPT !.pending[h] = FALSE]
           notified == NotifyWaiters(completed, x.inQ, TRUE, "HandleClosing")
           woken == IF x.readCount[h] = 0 THEN completed ELSE notified
           closed == FailFastIf(woken, woken.readCount[h] > 0, "left")
<1>0. x \in Locked /\ InputInv(x) /\ h # Null
  BY ConstantsAssumption DEF Sound
<1>1. Quiet(completed, x) /\ InputInv(completed)
  BY <1>0 DEF Quiet, Locked, InputInv
<1>2. CloseInputHandle(x, h) = IF opened = {h} THEN Flush(closed) ELSE closed
  BY DEF CloseInputHandle
<1> HIDE DEF completed
<1>3. Sound(completed, Null) /\ Fewer(completed, x)
  BY <1>1, QuietSound, QuietFewer
<1>4. completed.call = x.call /\ completed.readCount = x.readCount /\ completed.inQ = x.inQ
  BY <1>1 DEF Quiet
<1>5. Sound(woken, Null) /\ Fewer(woken, x) /\ \A t \in Threads : woken.call[t].handle # h
  <2>1. CASE x.readCount[h] = 0
    <3>1. Reads(x, h) = {}
      BY <2>1, ReadsFinite, FS_EmptySet DEF Sound, CountInv
    <3> QED
      BY <1>3, <1>4, <2>1, <3>1 DEF Reads
  <2>2. CASE x.readCount[h] # 0
    <3>1. Waiters(x.inQ, completed, Null)
      BY <1>3, <1>4, QueuesOfWaiters
    <3>2. Woken(notified, completed, x.inQ, Null, TRUE, "HandleClosing")
      BY <1>3, <3>1, NotifyWaitersWakes
    <3> HIDE DEF notified
    <3>3. Sound(notified, Null) /\ Fewer(notified, x)
      BY <1>3, <3>2, FewerTwice DEF Woken, Fewer
    <3>4. ASSUME NEW t \in Threads PROVE notified.call[t].handle # h
      <4>0. NoCall.handle = Null
        BY DEF NoCall
      <4>1. CASE x.call[t].handle = h
        <5>1. x.call[t].kind \in ReadKinds /\ x.call[t] # NoCall /\ t # Null
          BY <1>0, <4>0, <4>1, CallKinds, ConstantsAssumption DEF Locked
        <5>2. Has(x.inQ, t)
          BY <5>1 DEF Sound, QueuesInv, InQueue
        <5> QED
          BY <1>0, <3>2, <4>0, <5>2 DEF Woken, Final
      <4>2. CASE x.call[t].handle # h
        BY <1>0, <1>4, <3>2, <4>0, <4>2 DEF Woken
      <4> QED
        BY <4>1, <4>2
    <3> QED
      BY <2>2, <3>3, <3>4
  <2> QED
    BY <2>1, <2>2
<1> HIDE DEF woken
<1>6. closed = woken
  <2>1. Reads(woken, h) = {}
    BY <1>5 DEF Reads
  <2>2. woken.readCount[h] = 0
    BY <1>5, <2>1, FS_EmptySet DEF Sound, CountInv
  <2>3. woken \in Locked
    BY <1>5 DEF Sound
  <2> QED
    BY <2>2, <2>3 DEF FailFastIf, Locked
<1>7. Quiet(Flush(woken), woken) /\ InputInv(Flush(woken))
  BY <1>5, FlushQuiet DEF Sound
<1>8. Sound(Flush(woken), Null) /\ Fewer(Flush(woken), x) /\ Flush(woken).call = woken.call
  BY <1>5, <1>7, QuietSound, QuietFewer, FewerTwice DEF Quiet
<1> QED
  BY <1>2, <1>5, <1>6, <1>8

\* A new block at the end of a queue
LEMMA Appended ==
  ASSUME NEW queue \in Seq(Threads), Distinct(queue), NEW t \in Threads, ~Has(queue, t)
  PROVE  /\ Append(queue, t) \in Seq(Threads) /\ Distinct(Append(queue, t))
         /\ \A u \in Threads : Has(Append(queue, t), u) <=> Has(queue, u) \/ u = t
<1> DEFINE r == Append(queue, t)
           n == Len(queue)
<1>1. /\ n \in Nat /\ DOMAIN queue = 1 .. n /\ DOMAIN r = 1 .. (n + 1) /\ r \in Seq(Threads)
      /\ r[n + 1] = t /\ \A i \in 1 .. n : r[i] = queue[i]
  OBVIOUS
<1> HIDE DEF r, n
<1>2. Distinct(r)
  BY <1>1 DEF Distinct, Has
<1>3. ASSUME NEW u \in Threads PROVE Has(r, u) <=> Has(queue, u) \/ u = t
  <2>1. \A i \in 1 .. (n + 1) : i \in 1 .. n \/ i = n + 1
    BY <1>1
  <2>2. \A i \in 1 .. n : i \in 1 .. (n + 1)
    BY <1>1
  <2>3. n + 1 \in 1 .. (n + 1)
    BY <1>1
  <2> QED
    BY <1>1, <2>1, <2>2, <2>3 DEF Has
<1> QED
  BY <1>1, <1>2, <1>3 DEF r

\* The call that is tried has its count, and is in no queue.
LEMMA ConstructSound ==
  ASSUME NEW x, Sound(x, Null), NEW t \in Threads, x.call[t] = NoCall, NEW kind, NEW h,
         [kind |-> kind, handle |-> h] \in Calls, kind \in Kinds, NEW y, y = Construct(x, t, kind, h)
  PROVE  /\ Sound(y, t) /\ y.failed = x.failed
         /\ y.call = [x.call EXCEPT ![t] = [kind |-> kind, handle |-> h]]
<1> DEFINE c == [kind |-> kind, handle |-> h]
<1>0. /\ x \in Locked /\ QueuesInv(x, Null) /\ CountInv(x) /\ x.call \in [Threads -> Calls]
      /\ x.readCount \in [Handles -> Nat] /\ x.cooked \in Threads \cup {Null}
  BY DEF Sound, Locked
<1>1. c.kind = kind /\ c.handle = h /\ c # NoCall /\ c \in Calls
  BY CallKinds DEF NoCall, Kinds
<1>2. /\ y.storage = x.storage /\ y.signalled = x.signalled /\ y.inQ = x.inQ /\ y.outQ = x.outQ
      /\ y.procQ = x.procQ /\ y.cooked = x.cooked /\ y.failed = x.failed
  BY <1>0 DEF Construct, Locked
<1>3. y.call = [x.call EXCEPT ![t] = c]
  BY <1>0 DEF Construct, Locked
<1>4. y.readCount = Count(x.readCount, c, 1)
  BY <1>0 DEF Construct, Locked
<1> HIDE DEF c
<1>5. NoCall.handle = Null /\ Null \notin Handles /\ Null \notin Threads
  BY ConstantsAssumption DEF NoCall
<1>6. ASSUME NEW g \in Handles, g # c.handle PROVE Reads(y, g) = Reads(x, g)
  BY <1>0, <1>3, <1>5, <1>6 DEF Reads
<1>7. CountInv(y) /\ y.readCount \in [Handles -> Nat]
  <2>1. CASE c.kind \in ReadKinds
    <3>1. c.handle \in Handles /\ c.kind # "write"
      BY <1>1, <2>1, CallKinds
    <3>2. y.readCount = [x.readCount EXCEPT ![c.handle] = @ + 1]
      BY <1>4, <3>1 DEF Count
    <3>3. t \notin Reads(x, c.handle) /\ Reads(y, c.handle) = Reads(x, c.handle) \cup {t}
      BY <1>0, <1>3, <1>5, <3>1 DEF Reads
    <3>4. Cardinality(Reads(y, c.handle)) = Cardinality(Reads(x, c.handle)) + 1
      BY <3>3, ReadsFinite, FS_AddElement
    <3>5. \A g \in Handles : y.readCount[g] = Cardinality(Reads(y, g)) /\ y.readCount[g] \in Nat
      BY <1>0, <1>6, <3>1, <3>2, <3>4, ReadsFinite DEF CountInv
    <3> QED
      BY <1>0, <3>1, <3>2, <3>5 DEF CountInv
  <2>2. CASE c.kind = "write"
    <3>1. c.handle = Null /\ y.readCount = x.readCount
      BY <1>1, <1>4, <2>2, CallKinds DEF Count, ReadKinds
    <3> QED
      BY <1>0, <1>5, <1>6, <3>1 DEF CountInv
  <2> QED
    BY <1>1, <2>1, <2>2 DEF ReadKinds
<1>8. y \in Locked
  <2>1. 0 \in 0 .. UserBuffer
    BY ConstantsAssumption
  <2>2. Count(x.readCount, c, 1) \in [Handles -> Nat]
    BY <1>4, <1>7
  <2> QED
    BY <1>0, <1>1, <2>1, <2>2 DEF Construct, Locked, c
<1>9. QueuesInv(y, t)
  <2>1. \A u \in Threads : InQueue(y, t, u) <=> InQueue(x, Null, u)
    BY <1>0, <1>3, <1>5 DEF InQueue
  <2>2. \A u \in Threads : InQueue(x, Null, u) => y.call[u] = x.call[u]
    BY <1>0, <1>3 DEF InQueue
  <2> QED
    BY <1>0, <1>2, <2>1, <2>2 DEF QueuesInv
<1>10. CookedInv(y) /\ InputInv(y) /\ y.call[t] # NoCall
  <2>1. x.cooked # t
    BY <1>5 DEF Sound, CookedInv, NoCall
  <2> QED
    BY <1>0, <1>1, <1>2, <1>3, <2>1 DEF Sound, CookedInv, InputInv
<1> QED
  BY <1>2, <1>3, <1>7, <1>8, <1>9, <1>10 DEF Sound, c

\* The pointer to the cooked read is set once the read is there.
LEMMA PointerSound ==
  ASSUME NEW x, NEW t \in Threads, Sound(x, t), x.call[t].kind = "cooked",
         NEW y, y = [x EXCEPT !.cooked = t]
  PROVE  Sound(y, t) /\ y.call = x.call /\ y.failed = x.failed
<1>0. x \in Locked
  BY DEF Sound
<1>1. y \in Locked
  BY <1>0 DEF Locked
<1>2. /\ y.storage = x.storage /\ y.signalled = x.signalled /\ y.inQ = x.inQ /\ y.outQ = x.outQ
      /\ y.procQ = x.procQ /\ y.cooked = t /\ y.failed = x.failed
      /\ y.call = x.call /\ y.readCount = x.readCount
  BY <1>0 DEF Locked
<1>3. QueuesInv(y, t)
  <2>1. \A u \in Threads : InQueue(y, t, u) <=> InQueue(x, t, u)
    BY <1>2 DEF InQueue
  <2> QED
    BY <1>2, <2>1 DEF Sound, QueuesInv
<1>4. CountInv(y) /\ CookedInv(y) /\ InputInv(y)
  BY <1>2 DEF Sound, CountInv, Reads, CookedInv, InputInv
<1> QED
  BY <1>1, <1>2, <1>3, <1>4 DEF Sound

\* An event that is stored sets the event of the buffer.
LEMMA StoreQuiet ==
  ASSUME NEW x \in Locked, InputInv(x), Len(x.storage) < MaxEvents, NEW event \in Events
  PROVE  Quiet(Store(x, event), x) /\ InputInv(Store(x, event))
<1> DEFINE y == Store(x, event)
<1>1. x.storage \in Seq(Events) /\ x.signalled \in BOOLEAN
  BY DEF Locked
<1>2. Append(x.storage, event) \in Seq(Events) /\ Len(Append(x.storage, event)) <= MaxEvents
  BY <1>1, ConstantsAssumption
<1>3. y \in Locked
  BY <1>1, <1>2 DEF Store, Locked
<1>4. y.storage = Append(x.storage, event) /\ (x.storage = <<>> => y.signalled) /\ (x.signalled => y.signalled)
  BY DEF Store, Locked
<1>5. Quiet(y, x)
  BY <1>3 DEF Quiet, Store, Locked
<1> QED
  BY <1>2, <1>4, <1>5 DEF InputInv

\* s is what is kept of n events.
Kept(s, n) == s \in Seq(Events) /\ Len(s) <= n

\* What is flushed was there.
LEMMA FlushAllButKeysQuiet ==
  ASSUME NEW x \in Locked, InputInv(x)
  PROVE  Quiet(FlushAllButKeys(x), x) /\ InputInv(FlushAllButKeys(x))
<1> DEFINE b == x.storage
           N == Len(b)
           S == Seq(Events)
           empty == << >>
           K(s, n) == KeepUnlessMouse(s, b[n])
           step == [n \in Nat |-> [s \in S |-> IF n \in 1 .. N THEN K(s, n) ELSE s]]
           G(f) == f = [n \in 0 .. N |-> IF n = 0 THEN empty ELSE K(f[n - 1], n)]
<1>0. b \in S /\ N \in Nat /\ empty \in S /\ \A n \in 1 .. N : \A s \in S : K(s, n) \in S
  BY DEF KeepUnlessMouse, Locked
<1>00. ASSUME NEW n \in 1 .. N, NEW s, Kept(s, n - 1) PROVE Kept(K(s, n), n)
  <2>1. b[n] \in Events /\ n \in Int /\ s \in Seq(Events) /\ Len(s) \in Nat
    BY <1>0, <1>00 DEF Kept
  <2>2. CASE K(s, n) = s
    BY <1>00, <2>1, <2>2 DEF Kept
  <2>3. CASE K(s, n) = Append(s, b[n])
    <3>1. Append(s, b[n]) \in Seq(Events) /\ Len(Append(s, b[n])) = Len(s) + 1
      BY <2>1
    <3> QED
      BY <1>00, <2>1, <2>3, <3>1 DEF Kept
  <2> QED
    BY <2>2, <2>3 DEF KeepUnlessMouse
<1>01. Kept(empty, 0)
  BY DEF Kept
<1>02. FlushAllButKeys(x) = [x EXCEPT !.storage = (CHOOSE g : G(g))[N]]
  BY DEF FlushAllButKeys
<1> HIDE DEF N, S, empty, K
<1>1. step \in [Nat -> [S -> S]] /\ \A n \in 1 .. N : \A s \in S : step[n][s] = K(s, n)
  BY <1>0
<1> HIDE DEF step
<1>2. PICK f : Computes(f, S, empty, step, N)
  BY <1>0, <1>1, RecursionUpTo
<1>3. ASSUME NEW n \in 1 .. N PROVE f[n] = K(f[n - 1], n)
  <2>1. n - 1 \in 0 .. N
    BY <1>0
  <2> QED
    BY <1>1, <1>2, <2>1 DEF Computes
<1>4. G(f)
  BY <1>0, <1>2, <1>3 DEF Computes
<1> DEFINE kept == CHOOSE g : G(g)
<1>5. G(kept)
  BY <1>4
<1>6. FlushAllButKeys(x) = [x EXCEPT !.storage = kept[N]]
  BY <1>02
<1> HIDE DEF kept
<1>7. kept[0] = empty /\ \A n \in 1 .. N : kept[n] = K(kept[n - 1], n)
  BY <1>0, <1>5
<1> DEFINE I == {n \in 0 .. N : Kept(kept[n], n)}
<1>8. Kept(kept[N], N)
  <2>1. 0 \in I
    BY <1>0, <1>01, <1>7
  <2>2. \A n \in 1 .. N : n - 1 \in I => n \in I
    BY <1>0, <1>00, <1>7
  <2>3. N \in 0 .. N
    BY <1>0
  <2> HIDE DEF I
  <2>4. \A n \in 0 .. N : n \in I
    BY <1>0, <2>1, <2>2, SetInductionUpTo
  <2> QED
    BY <2>3, <2>4 DEF I
<1> DEFINE rest == kept[N]
           y == [x EXCEPT !.storage = rest]
<1>9. rest \in Seq(Events) /\ Len(rest) <= N /\ Len(rest) \in Nat /\ (rest # << >> => Len(rest) > 0)
  BY <1>8 DEF Kept
<1> HIDE DEF rest
<1>10. Quiet(y, x) /\ y.storage = rest /\ y.signalled = x.signalled
  BY <1>9 DEF Quiet, Locked
<1>11. InputInv(y)
  <2>1. rest # << >> => b # << >>
    BY <1>0, <1>9 DEF N
  <2>2. Len(rest) <= MaxEvents
    BY <1>0, <1>9, ConstantsAssumption DEF InputInv, N
  <2> QED
    BY <1>10, <2>1, <2>2 DEF InputInv
<1> QED
  BY <1>6, <1>10, <1>11 DEF rest
-----------------------------------------------------------------------------
(***************************************************************************)
(* The invariant                                                           *)
(***************************************************************************)

\* The console starts with nobody waiting.
LEMMA InitInv == Init => IInv
<1> SUFFICES ASSUME Init PROVE IInv
  OBVIOUS
<1>0. NoCall.handle = Null /\ NoCall \in Calls /\ NoCall.kind \notin Kinds /\ Null \notin Handles
  BY ConstantsAssumption DEF NoCall, Calls, Kinds
<1>1. q \in Locked
  <2>1. << >> \in Seq(Events) /\ << >> \in Seq(Threads) /\ 0 \in 0 .. UserBuffer /\ 0 \in Nat
    BY ConstantsAssumption
  <2>2. [h \in Handles |-> FALSE] \in [Handles -> BOOLEAN]
    BY Zenon
  <2> QED
    BY <1>0, <2>1, <2>2 DEF Init, Locked
<1>2. QueuesInv(q, io)
  BY <1>0, ThreadClient DEF Init, QueuesInv, Distinct, Has, InQueue
<1>3. CountInv(q)
  <2> SUFFICES ASSUME NEW h \in Handles PROVE q.readCount[h] = Cardinality(Reads(q, h))
    BY DEF CountInv
  <2>1. Reads(q, h) = {}
    BY <1>0 DEF Init, Reads
  <2> QED
    BY <2>1, FS_EmptySet DEF Init
<1>4. CookedInv(q) /\ InputInv(q) /\ io = Null
  BY ConstantsAssumption DEF Init, CookedInv, InputInv
<1>5. Owned(q, attached, opened)
  BY <1>0 DEF Init, Owned, ReadKinds
<1>6. OthersTyped
  BY DEF Init, OthersTyped
<1>7. q.failed = {}
  BY DEF Init
<1> QED
  BY <1>1, <1>2, <1>3, <1>4, <1>5, <1>6, <1>7 DEF IInv, Sound

\* A call that stays has its process and its handle.
LEMMA FewerOwned ==
  ASSUME NEW x, NEW y, Fewer(y, x), NEW processes, NEW handles, Owned(x, processes, handles)
  PROVE  Owned(y, processes, handles)
<1>1. NoCall.kind \notin ReadKinds
  BY DEF NoCall, ReadKinds, Kinds
<1> QED
  BY <1>1 DEF Fewer, Owned

\* The steps that add no call, keep io and close nothing.
LEMMA FewerInv ==
  ASSUME IInv, OthersTyped', Sound(q', io), Fewer(q', q),
         UNCHANGED <<attached, opened, io>>
  PROVE  IInv'
<1>1. Owned(q', attached, opened)
  BY FewerOwned DEF IInv
<1> QED
  BY <1>1 DEF IInv, Fewer, Owned

\* A wake-up of readers or writers adds no call.
LEMMA WokenFewer ==
  ASSUME NEW x, NEW held \in Threads \cup {Null}, Sound(x, held), NEW queue,
         queue = x.inQ \/ queue = x.outQ, NEW all \in BOOLEAN, NEW reason
  PROVE  /\ Sound(NotifyWaiters(x, queue, all, reason), held)
         /\ Fewer(NotifyWaiters(x, queue, all, reason), x)
<1>1. Waiters(queue, x, held)
  BY QueuesOfWaiters
<1>2. Woken(NotifyWaiters(x, queue, all, reason), x, queue, held, all, reason)
  BY <1>1, NotifyWaitersWakes
<1> QED
  BY <1>2 DEF Woken, Fewer

\* Output goes on.
LEMMA UnblockInv ==
  ASSUME IInv, NEW x, Sound(x, io), Fewer(x, q), NEW reason, Unblock(x, reason),
         UNCHANGED <<attached, opened, lineMode, io>>
  PROVE  IInv'
<1>1. OthersTyped' /\ io \in Threads \cup {Null}
  BY DEF IInv, OthersTyped, Unblock
<1> DEFINE y == NotifyWaiters(x, x.outQ, TRUE, "none")
<1>2. Sound(y, io) /\ Fewer(y, x)
  BY <1>1, WokenFewer
<1>3. q' = y \/ q' = x
  BY DEF Unblock
<1> HIDE DEF y
<1>4. Sound(q', io) /\ Fewer(q', q)
  BY <1>2, <1>3, FewerTwice
<1> QED
  BY <1>1, <1>4, FewerInv

\* ConsoleCloseObject leaves no read through the handle.
LEMMA CloseObjectInv == ASSUME IInv, NEW h \in Handles, CloseObject(h) PROVE IInv'
<1>1. io = Null /\ UNCHANGED <<attached, flags, io>> /\ q' = CloseInputHandle(q, h) /\ opened' = opened \ {h}
      /\ lineMode' \in BOOLEAN
  BY DEF CloseObject, Idle, IInv, OthersTyped
<1>2. Sound(q', Null) /\ Fewer(q', q) /\ \A t \in Threads : q'.call[t].handle # h
  BY <1>1, CloseInputHandleCloses DEF IInv
<1>3. Owned(q', attached, opened)
  BY <1>2, FewerOwned DEF IInv
<1>4. Owned(q', attached', opened')
  BY <1>1, <1>2, <1>3 DEF Owned
<1>5. OthersTyped'
  BY <1>1 DEF IInv, OthersTyped
<1> QED
  BY <1>1, <1>2, <1>4, <1>5 DEF IInv, Fewer

\* The calls of a process that ends are all in its queue, and none survives.
LEMMA DisconnectInv == ASSUME IInv, NEW c \in Clients, Disconnect(c) PROVE IInv'
<1> DEFINE h == <<c, "connect">>
           x == CloseInputHandle(q, h)
           queue == x.procQ[c]
<1>1. io = Null /\ UNCHANGED <<flags, io>> /\ attached' = attached \ {c} /\ opened' = opened \ {h}
      /\ lineMode' \in BOOLEAN /\ q' = NotifyWaiters(x, queue, TRUE, "ThreadDying")
  BY DEF Disconnect, Idle, IInv, OthersTyped
<1>2. h \in Handles
  BY ConstantsAssumption
<1>3. Sound(x, Null) /\ Fewer(x, q) /\ \A t \in Threads : x.call[t].handle # h
  BY <1>1, <1>2, CloseInputHandleCloses DEF IInv
<1> HIDE DEF x, h
<1>4. Waiters(queue, x, Null)
  BY <1>3, QueuesOfWaiters
<1> HIDE DEF queue
<1>5. Woken(q', x, queue, Null, TRUE, "ThreadDying")
  BY <1>1, <1>3, <1>4, NotifyWaitersWakes
<1>6. Sound(q', Null) /\ Fewer(q', q)
  BY <1>3, <1>5, FewerTwice DEF Woken, Fewer
<1>7. Owned(q', attached, opened)
  BY <1>6, FewerOwned DEF IInv
<1>8. ASSUME NEW t \in Threads, t[1] = c PROVE q'.call[t] = NoCall
  <2>1. CASE x.call[t] = NoCall
    BY <1>5, <2>1 DEF Woken
  <2>2. CASE x.call[t] # NoCall
    <3>1. Has(queue, t)
      BY <1>3, <1>8, <2>2, ConstantsAssumption DEF Sound, QueuesInv, InQueue, queue
    <3> QED
      BY <1>5, <3>1 DEF Woken, Final
  <2> QED
    BY <2>1, <2>2
<1>9. ASSUME NEW t \in Threads, q'.call[t].kind \in ReadKinds PROVE q'.call[t].handle # h
  <2>1. q'.call[t] = x.call[t] \/ q'.call[t] = NoCall
    BY <1>5 DEF Woken
  <2>2. NoCall.kind \notin ReadKinds
    BY DEF NoCall, ReadKinds, Kinds
  <2> QED
    BY <1>3, <1>9, <2>1, <2>2
<1>10. Owned(q', attached', opened')
  BY <1>1, <1>7, <1>8, <1>9 DEF Owned
<1>11. OthersTyped'
  BY <1>1 DEF IInv, OthersTyped
<1> QED
  BY <1>1, <1>6, <1>10, <1>11 DEF IInv, Fewer

\* A call of thread t that is tried: z is the state with its waiter.
Begun(z, t, kind, h) ==
  /\ Sound(z, t) /\ z.failed = q.failed
  /\ z.call = [q.call EXCEPT ![t] = [kind |-> kind, handle |-> h]]

\* A call that is tried is answered and destroyed, or kept for s_CreateWait.
LEMMA TriedInv ==
  ASSUME IInv, io = Null, NEW t \in Threads, t[1] \in attached,
         NEW kind, NEW h, kind \in ReadKinds => h \in opened,
         NEW z, Begun(z, t, kind, h), NEW a, Answered(a, z), a.done => a.x.cooked # t, Tried(t, a)
  PROVE  IInv'
<1> DEFINE w == a.x
           c == [kind |-> kind, handle |-> h]
<1>0. UNCHANGED <<attached, opened, lineMode, flags>> /\ Null \notin Threads
  BY ConstantsAssumption DEF Tried
<1>1. Sound(w, t) /\ w.call = z.call /\ w.failed = q.failed /\ a.done \in BOOLEAN
  BY QuietSound DEF Answered, Begun, Quiet
<1>2. c.kind = kind /\ c.handle = h
  OBVIOUS
<1>3. q.call \in [Threads -> Calls] /\ z.call = [q.call EXCEPT ![t] = c]
  BY DEF IInv, Sound, Locked, Begun
<1> HIDE DEF w, c
<1>4. Owned(w, attached, opened)
  BY <1>1, <1>2, <1>3 DEF Owned, IInv
<1>5. CASE ~a.done
  <2>1. q' = w /\ io' = t
    BY <1>5 DEF Tried, w
  <2>2. OthersTyped'
    BY <1>0, <2>1 DEF OthersTyped, IInv
  <2>3. Owned(q', attached', opened')
    BY <1>0, <1>4, <2>1
  <2> QED
    BY <1>1, <2>1, <2>2, <2>3 DEF IInv
<1>6. CASE a.done
  <2>1. q' = Destroy(w, t) /\ io' = Null /\ w.cooked # t
    BY <1>6 DEF Tried, w
  <2>2. w \in Locked /\ w.call[t] # NoCall /\ t # Null
    BY <1>0, <1>1 DEF Sound
  <2>3. Null = IF t = t THEN Null ELSE t
    OBVIOUS
  <2>4. Sound(q', Null)
    BY <1>1, <2>1, <2>2, <2>3, DestroySound
  <2>5. q'.call = [w.call EXCEPT ![t] = NoCall] /\ q'.failed = w.failed
    BY <2>1, <2>2 DEF Destroy, Locked
  <2>6. Fewer(q', w)
    BY <2>2, <2>5 DEF Fewer, Locked
  <2>7. Owned(q', attached', opened')
    BY <1>0, <1>4, <2>6, FewerOwned
  <2>8. OthersTyped'
    BY <1>0, <2>1 DEF OthersTyped, IInv
  <2> QED
    BY <1>1, <2>1, <2>4, <2>5, <2>7, <2>8 DEF IInv
<1> QED
  BY <1>1, <1>5, <1>6

\* A reader that is not a cooked one leaves the pointer to the cooked read alone.
LEMMA PointerElsewhere ==
  ASSUME NEW z, NEW t \in Threads, Sound(z, t), z.call[t].kind # "cooked", NEW a, Answered(a, z)
  PROVE  a.x.cooked # t
  BY ConstantsAssumption DEF Sound, CookedInv, Answered, Quiet

\* The calls that may wait
LEMMA CallsInv ==
  ASSUME IInv, NEW t \in Threads, NEW h \in Handles,
         ReadLine(t, h) \/ ReadCharacter(t, h) \/ GetConsoleInput(t, h) \/ WriteConsole(t)
  PROVE  IInv'
<1>0. io = Null /\ t[1] \in attached /\ q.call[t] = NoCall /\ (~WriteConsole(t) => h \in opened) /\ Sound(q, Null)
  BY DEF ReadLine, ReadCharacter, GetConsoleInput, WriteConsole, Callable, Idle, IInv
<1>1. /\ \A kind \in ReadKinds : [kind |-> kind, handle |-> h] \in Calls /\ kind \in Kinds
      /\ [kind |-> "write", handle |-> Null] \in Calls /\ "write" \in Kinds /\ "write" \notin ReadKinds
      /\ "raw" \in ReadKinds /\ "cooked" \in ReadKinds /\ "direct" \in ReadKinds
  BY DEF Calls, ReadKinds, Kinds
<1>2. q.call \in [Threads -> Calls]
  BY DEF IInv, Sound, Locked
<1>3. ASSUME NEW kind \in Kinds, NEW g, [kind |-> kind, handle |-> g] \in Calls
      PROVE  /\ Begun(Construct(q, t, kind, g), t, kind, g)
             /\ Construct(q, t, kind, g).call[t].kind = kind
             /\ Construct(q, t, kind, g) \in Locked /\ InputInv(Construct(q, t, kind, g))
  <2> DEFINE z == Construct(q, t, kind, g)
  <2>1. Sound(z, t) /\ z.failed = q.failed /\ z.call = [q.call EXCEPT ![t] = [kind |-> kind, handle |-> g]]
    BY <1>0, <1>3, ConstructSound
  <2> HIDE DEF z
  <2>2. z.call[t].kind = kind
    BY <1>2, <2>1
  <2>3. Begun(z, t, kind, g) /\ z \in Locked /\ InputInv(z)
    BY <2>1 DEF Begun, Sound
  <2> QED
    BY <2>2, <2>3 DEF z
<1>4. CASE ReadCharacter(t, h)
  <2> DEFINE z == Construct(q, t, "raw", h)
             a == RawRead(z)
  <2>1. Begun(z, t, "raw", h) /\ z.call[t].kind = "raw" /\ z \in Locked /\ InputInv(z)
    BY <1>1, <1>3
  <2>2. Tried(t, a)
    BY <1>4 DEF ReadCharacter
  <2> HIDE DEF z
  <2>3. Answered(a, z)
    BY <2>1, RawReadAnswers
  <2> HIDE DEF a
  <2>4. a.x.cooked # t
    BY <2>1, <2>3, PointerElsewhere DEF Begun
  <2>5. h \in opened
    BY <1>4 DEF ReadCharacter, Callable
  <2> QED
    BY <1>0, <2>1, <2>2, <2>3, <2>4, <2>5, TriedInv
<1>5. CASE GetConsoleInput(t, h)
  <2> DEFINE z == Construct(q, t, "direct", h)
             a == DirectRead(z)
  <2>1. Begun(z, t, "direct", h) /\ z.call[t].kind = "direct" /\ z \in Locked /\ InputInv(z)
    BY <1>1, <1>3
  <2>2. Tried(t, a)
    BY <1>5 DEF GetConsoleInput
  <2> HIDE DEF z
  <2>3. Answered(a, z)
    BY <2>1, DirectReadAnswers
  <2> HIDE DEF a
  <2>4. a.x.cooked # t
    BY <2>1, <2>3, PointerElsewhere DEF Begun
  <2>5. h \in opened
    BY <1>5 DEF GetConsoleInput, Callable
  <2> QED
    BY <1>0, <2>1, <2>2, <2>3, <2>4, <2>5, TriedInv
<1>6. CASE WriteConsole(t)
  <2> DEFINE z == Construct(q, t, "write", Null)
             a == Wait(z)
  <2>1. Begun(z, t, "write", Null) /\ z.call[t].kind = "write" /\ z \in Locked /\ InputInv(z)
    BY <1>1, <1>3
  <2>2. Tried(t, a)
    BY <1>6 DEF WriteConsole
  <2> HIDE DEF z
  <2>3. Quiet(z, z)
    BY <2>1 DEF Quiet
  <2>4. Answered(a, z) /\ a.done = FALSE
    BY <2>1, <2>3 DEF Answered, Wait
  <2> HIDE DEF a
  <2>5. a.x.cooked # t
    BY <2>1, <2>4, PointerElsewhere DEF Begun
  <2> QED
    BY <1>0, <1>1, <2>1, <2>2, <2>4, <2>5, TriedInv
<1>7. CASE ReadLine(t, h)
  <2> DEFINE y == Construct(q, t, "cooked", h)
             z == [y EXCEPT !.cooked = t]
             a == CookedRead(z, t)
  <2>1. Begun(y, t, "cooked", h) /\ y.call[t].kind = "cooked"
    BY <1>1, <1>3
  <2>2. Tried(t, a)
    BY <1>7 DEF ReadLine
  <2> HIDE DEF y
  <2>3. Sound(z, t) /\ z.call = y.call /\ z.failed = y.failed
    BY <2>1, PointerSound DEF Begun
  <2> HIDE DEF z
  <2>4. Begun(z, t, "cooked", h) /\ z \in Locked /\ InputInv(z) /\ z.call[t].kind = "cooked"
    BY <2>1, <2>3 DEF Begun, Sound
  <2>5. Answered(a, z) /\ (a.done => a.x.cooked = Null)
    BY <2>4, CookedReadAnswers
  <2> HIDE DEF a
  <2>6. a.done => a.x.cooked # t
    BY <2>5, ConstantsAssumption
  <2>7. h \in opened
    BY <1>7 DEF ReadLine, Callable
  <2> QED
    BY <1>0, <2>2, <2>4, <2>5, <2>6, <2>7, TriedInv
<1> QED
  BY <1>4, <1>5, <1>6, <1>7

\* The block that is queued was in no queue.
LEMMA CreateWaitInv == ASSUME IInv, CreateWait PROVE IInv'
<1> DEFINE t == io
           c == q.call[t]
           queued == [q EXCEPT !.procQ[t[1]] = Append(@, t)]
<1>0. /\ io # Null /\ io' = Null /\ UNCHANGED <<attached, opened, lineMode, flags>>
      /\ q' = IF c.kind = "write" THEN [queued EXCEPT !.outQ = Append(@, t)]
              ELSE [queued EXCEPT !.inQ = Append(@, t)]
  BY DEF CreateWait
<1>1. /\ t \in Threads /\ t[1] \in Clients /\ c # NoCall /\ q \in Locked /\ c \in Calls
      /\ q.call \in [Threads -> Calls] /\ q.procQ \in [Clients -> Seq(Threads)]
      /\ q.inQ \in Seq(Threads) /\ q.outQ \in Seq(Threads) /\ QueuesInv(q, t)
  BY <1>0, ThreadClient DEF IInv, OthersTyped, Sound, Locked
<1>2. ~Has(q.procQ[t[1]], t) /\ ~Has(q.inQ, t) /\ ~Has(q.outQ, t)
  BY <1>1 DEF QueuesInv, InQueue
<1>3. c.kind # "write" <=> c.kind \in ReadKinds
  BY <1>1, CallKinds
<1>4. /\ q'.procQ = [q.procQ EXCEPT ![t[1]] = Append(q.procQ[t[1]], t)]
      /\ q'.inQ = IF c.kind = "write" THEN q.inQ ELSE Append(q.inQ, t)
      /\ q'.outQ = IF c.kind = "write" THEN Append(q.outQ, t) ELSE q.outQ
  BY <1>0, <1>1 DEF Locked
<1>5. /\ q'.storage = q.storage /\ q'.signalled = q.signalled /\ q'.call = q.call
      /\ q'.readCount = q.readCount /\ q'.cooked = q.cooked /\ q'.failed = q.failed
  BY <1>0, <1>1 DEF Locked
<1>6. q' \in Locked
  <2>1. Append(q.procQ[t[1]], t) \in Seq(Threads) /\ Append(q.inQ, t) \in Seq(Threads)
        /\ Append(q.outQ, t) \in Seq(Threads)
    BY <1>1
  <2> QED
    BY <1>0, <1>1, <2>1 DEF Locked
<1> HIDE DEF queued
<1>7. QueuesInv(q', Null)
  <2>1. ASSUME NEW u \in Threads PROVE InQueue(q', Null, u) <=> InQueue(q, t, u) \/ u = t
    BY <1>0, <1>1, <1>5, ConstantsAssumption DEF InQueue
  <2>2. /\ Distinct(q'.inQ) /\ Distinct(q'.outQ)
        /\ \A u \in Threads : /\ Has(q'.inQ, u) <=> Has(q.inQ, u) \/ (u = t /\ c.kind \in ReadKinds)
                              /\ Has(q'.outQ, u) <=> Has(q.outQ, u) \/ (u = t /\ c.kind = "write")
    <3>1. Distinct(q.inQ) /\ Distinct(q.outQ)
      BY <1>1 DEF QueuesInv
    <3>2. CASE c.kind = "write"
      BY <1>1, <1>2, <1>3, <1>4, <3>1, <3>2, Appended
    <3>3. CASE c.kind # "write"
      BY <1>1, <1>2, <1>3, <1>4, <3>1, <3>3, Appended
    <3> QED
      BY <3>2, <3>3
  <2> DEFINE old == q.procQ[t[1]]
  <2>3. /\ Distinct(Append(old, t)) /\ Append(old, t) \in Seq(Threads)
        /\ \A u \in Threads : Has(Append(old, t), u) <=> Has(old, u) \/ u = t
    <3>1. Distinct(old) /\ old \in Seq(Threads)
      BY <1>1 DEF QueuesInv
    <3> QED
      BY <1>1, <1>2, <3>1, Appended
  <2>4. ASSUME NEW u \in Threads PROVE Has(q'.procQ[u[1]], u) <=> Has(q.procQ[u[1]], u) \/ u = t
    <3>1. u[1] \in Clients
      BY ThreadClient
    <3>2. CASE u[1] = t[1]
      BY <1>1, <1>4, <2>3, <3>2
    <3>3. CASE u[1] # t[1]
      BY <1>1, <1>4, <3>1, <3>3
    <3> QED
      BY <3>2, <3>3
  <2>5. ASSUME NEW p \in Clients
        PROVE  Distinct(q'.procQ[p]) /\ \A i \in DOMAIN q'.procQ[p] : q'.procQ[p][i][1] = p
    <3>1. CASE p = t[1]
      <4>1. q'.procQ[p] = Append(old, t)
        BY <1>1, <1>4, <3>1
      <4>2. ASSUME NEW i \in DOMAIN q'.procQ[p] PROVE q'.procQ[p][i][1] = p
        <5>1. q'.procQ[p][i] \in Threads /\ Has(q'.procQ[p], q'.procQ[p][i])
          BY <2>3, <4>1 DEF Has
        <5>2. Has(old, q'.procQ[p][i]) \/ q'.procQ[p][i] = t
          BY <2>3, <4>1, <5>1
        <5> QED
          BY <1>1, <3>1, <5>2 DEF QueuesInv, Has
      <4> QED
        BY <2>3, <4>1, <4>2
    <3>2. CASE p # t[1]
      BY <1>1, <1>4, <3>2 DEF QueuesInv
    <3> QED
      BY <3>1, <3>2
  <2> QED
    BY <1>1, <1>5, <2>1, <2>2, <2>4, <2>5 DEF QueuesInv
<1>8. CountInv(q') /\ CookedInv(q') /\ InputInv(q')
  BY <1>5 DEF IInv, Sound, CountInv, Reads, CookedInv, InputInv
<1>9. Owned(q', attached', opened')
  BY <1>0, <1>5 DEF IInv, Owned
<1>10. OthersTyped'
  BY <1>0 DEF IInv, OthersTyped
<1> QED
  BY <1>0, <1>5, <1>6, <1>7, <1>8, <1>9, <1>10 DEF IInv, Sound

\* Changes of the input only
LEMMA QuietInv ==
  ASSUME IInv, OthersTyped', Quiet(q', q), InputInv(q'), UNCHANGED <<attached, opened, io>>
  PROVE  IInv'
<1>1. Sound(q', io) /\ Fewer(q', q)
  BY QuietSound, QuietFewer DEF IInv
<1> QED
  BY <1>1, FewerInv

\* New input wakes up one reader, or output.
LEMMA WriteInv == ASSUME IInv, NEW event \in Events, Write(event) PROVE IInv'
<1>0. q \in Locked /\ InputInv(q) /\ Sound(q, io) /\ io \in Threads \cup {Null}
      /\ UNCHANGED <<attached, opened, lineMode, io>> /\ Len(q.storage) < MaxEvents
  BY DEF IInv, Sound, OthersTyped, Write
<1>1. CASE event \in KeysDown /\ "suspended" \in flags
  <2>1. Unblock(q, "suspended")
    BY <1>1 DEF Write
  <2>2. Fewer(q, q)
    BY DEF Fewer
  <2> QED
    BY <1>0, <2>1, <2>2, UnblockInv
<1>2. CASE ~ (event \in KeysDown /\ "suspended" \in flags)
  <2> DEFINE x == Store(q, event)
  <2>1. q' = NotifyWaiters(x, q.inQ, FALSE, "none") /\ flags' = flags
    BY <1>2 DEF Write
  <2>2. Quiet(x, q) /\ InputInv(x)
    BY <1>0, StoreQuiet
  <2> HIDE DEF x
  <2>3. Sound(x, io) /\ Fewer(x, q) /\ x.inQ = q.inQ
    BY <1>0, <2>2, QuietSound, QuietFewer DEF Quiet
  <2>4. Sound(q', io) /\ Fewer(q', x)
    BY <1>0, <2>1, <2>3, WokenFewer
  <2>5. Fewer(q', q)
    BY <2>3, <2>4, FewerTwice
  <2>6. OthersTyped'
    BY <1>0, <2>1 DEF IInv, OthersTyped
  <2> QED
    BY <1>0, <2>4, <2>5, <2>6, FewerInv
<1> QED
  BY <1>1, <1>2

\* Ctrl+C and Ctrl+Break
LEMMA TerminateReadInv ==
  ASSUME IInv, NEW x, Sound(x, io), Fewer(x, q), NEW reason, TerminateRead(x, reason) PROVE IInv'
<1> DEFINE y == NotifyWaiters(x, x.inQ, TRUE, reason)
<1>0. io \in Threads \cup {Null} /\ UNCHANGED <<attached, opened, lineMode, io>>
  BY DEF IInv, OthersTyped, TerminateRead
<1>1. (Unblock(y, "suspended")) \/ (q' = y /\ flags' = flags)
  BY DEF TerminateRead
<1>2. Sound(y, io) /\ Fewer(y, x)
  BY <1>0, WokenFewer
<1> HIDE DEF y
<1>3. Fewer(y, q)
  BY <1>2, FewerTwice
<1>4. CASE Unblock(y, "suspended")
  BY <1>0, <1>2, <1>3, <1>4, UnblockInv
<1>5. CASE q' = y /\ flags' = flags
  <2>1. OthersTyped'
    BY <1>0, <1>5 DEF IInv, OthersTyped
  <2> QED
    BY <1>0, <1>2, <1>3, <1>5, <2>1, FewerInv
<1> QED
  BY <1>1, <1>4, <1>5

\* Every step of either thread preserves the invariant.
LEMMA NextInv == IInv /\ [Next]_vars => IInv'
<1> SUFFICES ASSUME IInv, [Next]_vars PROVE IInv'
  OBVIOUS
<1>0. q \in Locked /\ InputInv(q) /\ Sound(q, io) /\ Fewer(q, q)
  BY DEF IInv, Sound, Fewer
<1>1. ASSUME q' = q, io' = io, opened \subseteq opened', attached \subseteq attached', OthersTyped' PROVE IInv'
  <2>1. Owned(q', attached', opened')
    BY <1>1 DEF IInv, Owned
  <2> QED
    BY <1>1, <2>1 DEF IInv
<1>2. ASSUME NEW c \in Clients, Connect(c) \/ CreateObject(c) PROVE IInv'
  <2>1. OthersTyped'
    BY <1>2, ConstantsAssumption DEF Connect, CreateObject, IInv, OthersTyped
  <2> QED
    BY <1>1, <1>2, <2>1 DEF Connect, CreateObject
<1>3. ASSUME NEW c \in Clients, Disconnect(c) PROVE IInv'
  BY <1>3, DisconnectInv
<1>4. ASSUME NEW h \in Handles, CloseObject(h) PROVE IInv'
  BY <1>4, CloseObjectInv
<1>5. ASSUME NEW t \in Threads, NEW h \in Handles, NEW rest \in BOOLEAN, ReadPending(t, h, rest) PROVE IInv'
  <2>1. OthersTyped' /\ UNCHANGED <<attached, opened, io>>
    BY <1>5 DEF ReadPending, IInv, OthersTyped
  <2>2. q' = [q EXCEPT !.pending[h] = rest]
    BY <1>5 DEF ReadPending
  <2>3. q' \in Locked /\ Quiet(q', q)
    BY <1>0, <2>2 DEF Locked, Quiet
  <2>4. InputInv(q')
    BY <1>0, <2>2 DEF Locked, InputInv
  <2> QED
    BY <2>1, <2>3, <2>4, QuietInv
<1>6. ASSUME NEW t \in Threads, NEW h \in Handles,
             ReadLine(t, h) \/ ReadCharacter(t, h) \/ GetConsoleInput(t, h) PROVE IInv'
  BY <1>6, CallsInv
<1>7. ASSUME NEW t \in Threads, WriteConsole(t) PROVE IInv'
  <2>1. PICK c \in Clients : TRUE
    BY ConstantsAssumption
  <2>2. <<c, "connect">> \in Handles
    BY ConstantsAssumption
  <2> QED
    BY <1>7, <2>2, CallsInv
<1>8. CASE CreateWait
  BY <1>8, CreateWaitInv
<1>9. ASSUME (\E on \in BOOLEAN : SetLineMode(on)) \/ Pause \/ Select PROVE IInv'
  <2>1. OthersTyped'
    BY <1>9 DEF SetLineMode, Pause, Select, IInv, OthersTyped, HoldReasons
  <2> QED
    BY <1>1, <1>9, <2>1 DEF SetLineMode, Pause, Select
<1>10. CASE FlushConsoleInputBuffer
  <2>1. OthersTyped' /\ UNCHANGED <<attached, opened, io>> /\ q' = Flush(q)
    BY <1>10 DEF FlushConsoleInputBuffer, IInv, OthersTyped
  <2> QED
    BY <1>0, <2>1, FlushQuiet, QuietInv
<1>11. CASE SetActiveScreenBuffer
  <2>1. OthersTyped' /\ UNCHANGED <<attached, opened, io>> /\ q' = FlushAllButKeys(q)
    BY <1>11 DEF SetActiveScreenBuffer, IInv, OthersTyped
  <2> QED
    BY <1>0, <2>1, FlushAllButKeysQuiet, QuietInv
<1>12. ASSUME NEW event \in Events, Write(event) PROVE IInv'
  BY <1>12, WriteInv
<1>13. CASE CtrlC
  BY <1>0, <1>13, TerminateReadInv DEF CtrlC
<1>14. CASE CtrlBreak
  <2>1. Sound(Flush(q), io) /\ Fewer(Flush(q), q)
    BY <1>0, FlushQuiet, QuietSound, QuietFewer
  <2> QED
    BY <1>14, <2>1, TerminateReadInv DEF CtrlBreak
<1>15. CASE ClearSelection
  BY <1>0, <1>15, UnblockInv DEF ClearSelection
<1>16. CASE UNCHANGED vars
  BY <1>1, <1>16 DEF vars, IInv, OthersTyped
<1> QED
  BY <1>2, <1>3, <1>4, <1>5, <1>6, <1>7, <1>8, <1>9, <1>10, <1>11, <1>12, <1>13, <1>14, <1>15, <1>16
     DEF Next, IoThread, User
-----------------------------------------------------------------------------
(***************************************************************************)
(* The theorems                                                            *)
(***************************************************************************)

\* The invariant holds in every state, for any number of processes, threads and handles.
THEOREM Invariance == Spec => []IInv
<1>1. Init => IInv
  BY InitInv
<1>2. IInv /\ [Next]_vars => IInv'
  BY NextInv
<1> QED
  BY <1>1, <1>2, PTL DEF Spec

\* The state has its type; a handle never counts more reads than there are threads.
THEOREM TypeCorrect == Spec => []TypeOK
<1>1. IInv => TypeOK
  <2> SUFFICES ASSUME IInv PROVE TypeOK
    OBVIOUS
  <2>1. ASSUME NEW h \in Handles PROVE q.readCount[h] <= Cardinality(Threads)
    <3>1. Reads(q, h) \subseteq Threads
      BY DEF Reads
    <3>2. Cardinality(Reads(q, h)) <= Cardinality(Threads)
      BY <3>1, ConstantsAssumption, FS_Subset
    <3> QED
      BY <3>2 DEF IInv, Sound, CountInv
  <2> QED
    BY <2>1 DEF IInv, OthersTyped, Sound, QueuesInv, InputInv, TypeOK
<1> QED
  BY <1>1, Invariance, PTL

\* How often a thread is in a queue of distinct ones
LEMMA TimesInQueue ==
  ASSUME NEW queue, Distinct(queue), NEW t
  PROVE  Cardinality({i \in DOMAIN queue : queue[i] = t}) = IF Has(queue, t) THEN 1 ELSE 0
<1> DEFINE D == {i \in DOMAIN queue : queue[i] = t}
<1>1. CASE Has(queue, t)
  <2>1. PICK k \in DOMAIN queue : queue[k] = t
    BY <1>1 DEF Has
  <2>2. D = {k}
    BY <2>1 DEF Distinct
  <2> QED
    BY <1>1, <2>2, FS_Singleton
<1>2. CASE ~Has(queue, t)
  <2>1. D = {}
    BY <1>2 DEF Has
  <2> QED
    BY <1>2, <2>1, FS_EmptySet
<1> QED
  BY <1>1, <1>2

\* Every wait block is in both of its queues or in neither, once, outlives neither its
\* process nor its handle and is counted by the handle; the pointer to the cooked read
\* is null or that of a waiting one; the event is set while there is input.
THEOREM WaitsStayConsistent == Spec => []WaitsAreConsistent
<1>1. IInv => WaitsAreConsistent
  <2> SUFFICES ASSUME IInv PROVE WaitsAreConsistent
    OBVIOUS
  <2>0. QueuesInv(q, io) /\ CountInv(q) /\ CookedInv(q) /\ InputInv(q) /\ Owned(q, attached, opened)
    BY DEF IInv, Sound
  <2>1. ASSUME NEW t \in Threads
        PROVE  LET c == q.call[t]
                   In(queue) == Cardinality({i \in DOMAIN queue : queue[i] = t})
                   queued == IF c = NoCall \/ t = io THEN 0 ELSE 1
               IN /\ In(q.procQ[t[1]]) = queued
                  /\ In(q.inQ) = IF c.kind \in ReadKinds THEN queued ELSE 0
                  /\ In(q.outQ) = IF c.kind = "write" THEN queued ELSE 0
                  /\ c # NoCall => t[1] \in attached
                  /\ c.kind \in ReadKinds => c.handle \in opened
    <3> DEFINE In(queue) == Cardinality({i \in DOMAIN queue : queue[i] = t})
    <3>1. t[1] \in Clients
      BY ThreadClient
    <3>2. /\ In(q.procQ[t[1]]) = IF Has(q.procQ[t[1]], t) THEN 1 ELSE 0
          /\ In(q.inQ) = IF Has(q.inQ, t) THEN 1 ELSE 0
          /\ In(q.outQ) = IF Has(q.outQ, t) THEN 1 ELSE 0
      BY <2>0, <3>1, TimesInQueue DEF QueuesInv
    <3> HIDE DEF In
    <3>3. /\ In(q.procQ[t[1]]) = IF q.call[t] = NoCall \/ t = io THEN 0 ELSE 1
          /\ In(q.inQ) = IF q.call[t].kind \in ReadKinds
                         THEN IF q.call[t] = NoCall \/ t = io THEN 0 ELSE 1 ELSE 0
          /\ In(q.outQ) = IF q.call[t].kind = "write"
                          THEN IF q.call[t] = NoCall \/ t = io THEN 0 ELSE 1 ELSE 0
      BY <2>0, <3>2 DEF QueuesInv, InQueue
    <3>4. /\ q.call[t] # NoCall => t[1] \in attached
          /\ q.call[t].kind \in ReadKinds => q.call[t].handle \in opened
      BY <2>0 DEF Owned
    <3> QED
      BY <3>3, <3>4 DEF In
  <2>2. \A h \in Handles : q.readCount[h] = Cardinality({t \in Threads : q.call[t].handle = h})
    BY <2>0 DEF CountInv, Reads
  <2>3. (q.cooked # Null => q.call[q.cooked].kind = "cooked") /\ (q.storage # <<>> => q.signalled)
    BY <2>0 DEF CookedInv, InputInv
  <2> QED
    BY <2>1, <2>2, <2>3 DEF WaitsAreConsistent
<1> QED
  BY <1>1, Invariance, PTL

\* No read is notified that its handle does not count, none survives its process, and
\* none is left when its handle is closed.
THEOREM NobodyLeftBehind == Spec => []NoReadLeftBehind
<1>1. IInv => NoReadLeftBehind
  BY DEF IInv, NoReadLeftBehind
<1> QED
  BY <1>1, Invariance, PTL
=============================================================================
