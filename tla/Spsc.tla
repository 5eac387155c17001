-------------------------------- MODULE Spsc --------------------------------
(***************************************************************************)
(* til::spsc: the lock-free single-producer single-consumer channel of     *)
(* src/src/inc/til/spsc.h.                                                 *)
(*                                                                         *)
(* Both ends run the same code, arc::acquire and arc::release, on their    *)
(* own position ("mine") and the other end's ("theirs"), so the state is   *)
(* indexed by side and every action takes the side as a parameter.  One    *)
(* action is one access to shared memory: a load, a store, a futex call,   *)
(* the exchange, or the copy of an acquired range.                         *)
(*                                                                         *)
(* A position packs an index and two flags in 32 bits; the model keeps the *)
(* three parts apart.  Items are the numbers 1, 2, 3, ... in the order in  *)
(* which the producer writes them; 0 is raw memory (no live object).       *)
(***************************************************************************)
EXTENDS Integers, FiniteSets

CONSTANTS
  Capacity,   \* _capacity: the number of slots of the ring
  MaxBatch,   \* bound: the largest count of one push_n / pop_n
  MaxItems    \* bound: the producer starts no operation beyond this many items

\* channel() throws for a capacity of 0.  An index must fit below revolution_flag
\* (30 bits); channel() does not check that, the model takes it for granted.
ASSUME CapacityAssumption == Capacity \in Nat \ {0}
ASSUME BoundAssumption == MaxBatch \in Nat \ {0} /\ MaxItems \in Nat

Producer == "producer"
Consumer == "consumer"
Side == {Producer, Consumer}
Other(s) == IF s = Producer THEN Consumer ELSE Producer

Slot == 0 .. Capacity - 1
NoItem == 0

VARIABLES
  pos,       \* _producer, _consumer: the atomic positions
  dropped,   \* _eitherSideDropped
  data,      \* _data: the object living in each slot, or NoItem
  freed,     \* the arc has been deleted
  pc,        \* where each side is in its code
  theirPos,  \* acquire()'s local copy of the other position
  acq,       \* the acquisition returned by acquire()
  op,        \* the running push_n / pop_n: remaining, blocking, forever
  ok,        \* "alive" of the last completed operation
  sent,      \* history: items whose slots the producer has released
  rcvd       \* history: items whose slots the consumer has released

vars == <<pos, dropped, data, freed, pc, theirPos, acq, op, ok, sent, rcvd>>

Position == [index : Slot, rev : {0, 1}, drop : {0, 1}]
Acquisition == [begin : Slot, end : 1 .. Capacity, next : Position]
Start == [index |-> 0, rev |-> 0, drop |-> 0]

Init ==
  /\ pos = [s \in Side |-> Start]
  /\ dropped = FALSE
  /\ data = [i \in Slot |-> NoItem]
  /\ freed = FALSE
  /\ pc = [s \in Side |-> "idle"]
  /\ theirPos = [s \in Side |-> Start]
  /\ acq = [s \in Side |-> [begin |-> 0, end |-> 1, next |-> Start]]
  /\ op = [s \in Side |-> [remaining |-> 0, blocking |-> TRUE, forever |-> TRUE]]
  /\ ok = [s \in Side |-> TRUE]
  /\ sent = 0
  /\ rcvd = 0
-----------------------------------------------------------------------------
(***************************************************************************)
(* The caller's operations                                                 *)
(***************************************************************************)

\* emplace / push / push_n and pop / pop_n, under either wait policy.
\* emplace and pop are push_n and pop_n of one item.
Begin(s, count, forever) ==
  /\ pc[s] = "idle"
  /\ s = Producer => sent + count <= MaxItems
  /\ op' = [op EXCEPT ![s] = [remaining |-> count, blocking |-> TRUE, forever |-> forever]]
  /\ pc' = [pc EXCEPT ![s] = "load"]
  /\ UNCHANGED <<pos, dropped, data, freed, theirPos, acq, ok, sent, rcvd>>

\* Mutation: only an empty ring makes anybody wait.
MustWaitEmptyOnly(s, mine, theirs) ==
  s = Consumer /\ mine.index = theirs.index /\ mine.rev = theirs.rev /\ mine.drop = theirs.drop

\* acquire() must wait: the ring is full (producer) or empty (consumer).
\* This is (myPos ^ theirPos) == waitMask; a drop flag always breaks it.
MustWait(s, mine, theirs) ==
  /\ mine.index = theirs.index
  /\ (mine.rev # theirs.rev) <=> (s = Producer)
  /\ mine.drop = theirs.drop

\* Mutation: the consumer stops at the drop flag, whatever is still queued.
ClosedAtOnce(s, mine, theirs) == theirs.drop = 1

\* acquire() gives up: the producer as soon as the consumer is gone, the
\* consumer once only the drop flag tells the two positions apart.
Closed(s, mine, theirs) ==
  /\ theirs.drop = 1
  /\ s = Producer \/ (mine.index = theirs.index /\ mine.rev = theirs.rev)

Smaller(a, b) == IF a <= b THEN a ELSE b

\* Mutation: the range that ends at the ring's end does not wrap.
RangeWithoutWrap(mine, theirs, slots) ==
  LET limit == IF theirs.index > mine.index THEN theirs.index ELSE Capacity
      end   == Smaller(limit, mine.index + slots)
  IN  [begin |-> mine.index, end |-> end, next |-> [index |-> end, rev |-> mine.rev, drop |-> 0]]

\* Mutation: the other position does not limit the range.
RangeUnlimited(mine, theirs, slots) ==
  LET end == Smaller(Capacity, mine.index + slots)
  IN  [begin |-> mine.index,
       end   |-> end,
       next  |-> IF end # Capacity
                 THEN [index |-> end, rev |-> mine.rev, drop |-> 0]
                 ELSE [index |-> 0, rev |-> 1 - mine.rev, drop |-> 0]]

\* Mutation: the revolution flag is not flipped.
RangeSameRevolution(mine, theirs, slots) ==
  LET limit == IF theirs.index > mine.index THEN theirs.index ELSE Capacity
      end   == Smaller(limit, mine.index + slots)
  IN  [begin |-> mine.index,
       end   |-> end,
       next  |-> [index |-> IF end # Capacity THEN end ELSE 0, rev |-> mine.rev, drop |-> 0]]

\* The acquisition acquire() computes from the two positions.
Range(mine, theirs, slots) ==
  LET limit == IF theirs.index > mine.index THEN theirs.index ELSE Capacity
      end   == Smaller(limit, mine.index + slots)
  IN  [begin |-> mine.index,
       end   |-> end,
       next  |-> IF end # Capacity
                 THEN [index |-> end, rev |-> mine.rev, drop |-> 0]
                 ELSE [index |-> 0, rev |-> 1 - mine.rev, drop |-> 0]]

\* The operation returns; "alive" is what acquire() reported last.
Return(s, alive) ==
  /\ ok' = [ok EXCEPT ![s] = alive]
  /\ pc' = [pc EXCEPT ![s] = "idle"]

\* acquire(): the acquire load of the other position, and what follows from it.
Acquire(s) ==
  /\ pc[s] = "load"
  /\ theirPos' = [theirPos EXCEPT ![s] = pos[Other(s)]]
  /\ IF MustWait(s, pos[s], pos[Other(s)])
     THEN IF op[s].blocking
          THEN pc' = [pc EXCEPT ![s] = "wait"] /\ UNCHANGED <<ok, acq>>
          ELSE Return(s, TRUE) /\ UNCHANGED acq
     ELSE IF Closed(s, pos[s], pos[Other(s)])
          THEN Return(s, FALSE) /\ UNCHANGED acq
          ELSE /\ acq' = [acq EXCEPT ![s] = Range(pos[s], pos[Other(s)], op[s].remaining)]
               /\ pc' = [pc EXCEPT ![s] = "copy"]
               /\ UNCHANGED ok
  /\ UNCHANGED <<pos, dropped, data, freed, op, sent, rcvd>>

\* Mutation: the wait does not compare before it sleeps.
WaitBlindly(s) ==
  /\ pc[s] = "wait"
  /\ pc' = [pc EXCEPT ![s] = "asleep"]
  /\ UNCHANGED <<pos, dropped, data, freed, theirPos, acq, op, ok, sent, rcvd>>

\* theirs.wait(theirPos): WaitOnAddress compares and goes to sleep atomically.
Wait(s) ==
  /\ pc[s] = "wait"
  /\ pc' = [pc EXCEPT ![s] = IF pos[Other(s)] = theirPos[s] THEN "asleep" ELSE "load"]
  /\ UNCHANGED <<pos, dropped, data, freed, theirPos, acq, op, ok, sent, rcvd>>

\* A futex wait may also return without a wake-up; acquire() loops.
SpuriousWake(s) ==
  /\ pc[s] = "asleep"
  /\ pc' = [pc EXCEPT ![s] = "load"]
  /\ UNCHANGED <<pos, dropped, data, freed, theirPos, acq, op, ok, sent, rcvd>>

\* The producer constructs items in, the consumer moves them out of and
\* destroys, the slots [begin, end) it acquired.
Copy(s) ==
  /\ pc[s] = "copy"
  /\ data' = [i \in Slot |->
                IF i \in acq[s].begin .. acq[s].end - 1
                THEN IF s = Producer THEN sent + 1 + (i - acq[s].begin) ELSE NoItem
                ELSE data[i]]
  /\ pc' = [pc EXCEPT ![s] = "store"]
  /\ UNCHANGED <<pos, dropped, freed, theirPos, acq, op, ok, sent, rcvd>>

Got(s) == acq[s].end - acq[s].begin

\* release(): the release store of the new position.
Store(s) ==
  /\ pc[s] = "store"
  /\ pos' = [pos EXCEPT ![s] = acq[s].next]
  /\ op' = [op EXCEPT ![s].remaining = @ - Got(s), ![s].blocking = @ /\ op[s].forever]
  /\ sent' = IF s = Producer THEN sent + Got(s) ELSE sent
  /\ rcvd' = IF s = Consumer THEN rcvd + Got(s) ELSE rcvd
  /\ pc' = [pc EXCEPT ![s] = "notify"]
  /\ UNCHANGED <<dropped, data, freed, theirPos, acq, ok>>

\* Mutation: nobody is ever woken.
WokenNever(s) == pc[Other(s)]

\* notify_one() wakes the other side if it sleeps on our position.
Woken(s) == IF pc[Other(s)] = "asleep" THEN "load" ELSE pc[Other(s)]

\* release(): mine.notify_one(), then the loop of push_n / pop_n.
Notify(s) ==
  /\ pc[s] = "notify"
  /\ LET done == op[s].remaining = 0
     IN  /\ pc' = [pc EXCEPT ![s] = IF done THEN "idle" ELSE "load", ![Other(s)] = Woken(s)]
         /\ ok' = IF done THEN [ok EXCEPT ![s] = TRUE] ELSE ok
  /\ UNCHANGED <<pos, dropped, data, freed, theirPos, acq, op, sent, rcvd>>
-----------------------------------------------------------------------------
(***************************************************************************)
(* Destruction of an end                                                   *)
(***************************************************************************)

\* drop(): the store of the drop flag.
DropStore(s) ==
  /\ pc[s] = "idle"
  /\ pos' = [pos EXCEPT ![s].drop = 1]
  /\ pc' = [pc EXCEPT ![s] = "dropNotify"]
  /\ UNCHANGED <<dropped, data, freed, theirPos, acq, op, ok, sent, rcvd>>

\* Mutation: the destructor sets the flag and wakes nobody.
DropNotifySilently(s) ==
  /\ pc[s] = "dropNotify"
  /\ pc' = [pc EXCEPT ![s] = "exchange"]
  /\ UNCHANGED <<pos, dropped, data, freed, theirPos, acq, op, ok, sent, rcvd>>

\* drop(): mine.notify_one()
DropNotify(s) ==
  /\ pc[s] = "dropNotify"
  /\ pc' = [pc EXCEPT ![s] = "exchange", ![Other(s)] = Woken(s)]
  /\ UNCHANGED <<pos, dropped, data, freed, theirPos, acq, op, ok, sent, rcvd>>

\* Mutation: ~arc forgets the items on the far side of the wrap.
DestroyedUnwrapped ==
  LET beg == pos[Consumer].index
      end == pos[Producer].index
  IN  IF end > beg THEN beg .. end - 1 ELSE {}

\* The slots ~arc destroys.
Destroyed ==
  LET beg == pos[Consumer].index
      end == pos[Producer].index
  IN  IF end > beg THEN beg .. end - 1
      ELSE IF pos[Consumer].rev # pos[Producer].rev
           THEN (0 .. end - 1) \cup (beg .. Capacity - 1)
           ELSE {}

\* drop(): the exchange; whoever comes second deletes the arc.
DropExchange(s) ==
  /\ pc[s] = "exchange"
  /\ dropped' = TRUE
  /\ IF dropped
     THEN /\ freed' = TRUE
          /\ data' = [i \in Slot |-> IF i \in Destroyed THEN NoItem ELSE data[i]]
     ELSE UNCHANGED <<freed, data>>
  /\ pc' = [pc EXCEPT ![s] = "gone"]
  /\ UNCHANGED <<pos, theirPos, acq, op, ok, sent, rcvd>>
-----------------------------------------------------------------------------
Step(s) ==
  \/ Acquire(s) \/ Wait(s) \/ Copy(s) \/ Store(s) \/ Notify(s)
  \/ DropNotify(s) \/ DropExchange(s)

Next ==
  \E s \in Side :
    \/ \E count \in 1 .. MaxBatch, forever \in BOOLEAN : Begin(s, count, forever)
    \/ DropStore(s)
    \/ SpuriousWake(s)
    \/ Step(s)

Spec == Init /\ [][Next]_vars
\* FAIRNESS: both threads keep running while inside an operation or a
\* destructor; nobody has to call anything, and no wake-up is spurious on demand.
FairSpec == Spec /\ \A s \in Side : WF_vars(Step(s))
-----------------------------------------------------------------------------
(***************************************************************************)
(* Properties                                                              *)
(***************************************************************************)

\* Positions stay inside the ring: an index never reaches the flag bits above
\* it, an acquired range is inside _data and never empty at its end (spsc.h:350-375).
TypeOK ==
  /\ pos \in [Side -> Position]
  /\ dropped \in BOOLEAN
  /\ data \in [Slot -> Nat]
  /\ freed \in BOOLEAN
  /\ pc \in [Side -> {"idle", "load", "wait", "asleep", "copy", "store", "notify",
                      "dropNotify", "exchange", "gone"}]
  /\ theirPos \in [Side -> Position]
  /\ acq \in [Side -> Acquisition]
  /\ op \in [Side -> [remaining : Nat, blocking : BOOLEAN, forever : BOOLEAN]]
  /\ ok \in [Side -> BOOLEAN]
  /\ sent \in Nat
  /\ rcvd \in Nat

Held(s) == IF pc[s] \in {"copy", "store"} THEN acq[s].begin .. acq[s].end - 1 ELSE {}

\* The two ends never touch the same slot at the same time, although neither
\* takes a lock: the ranges acquire() hands out are disjoint (spsc.h:171-209).
SlotsExclusive == Held(Producer) \cap Held(Consumer) = {}

\* The producer constructs only over raw memory: no item that was not yet
\* consumed is overwritten, however often the ring has wrapped (spsc.h:200-206).
NoOverwrite ==
  pc[Producer] = "copy" => \A i \in Held(Producer) : data[i] = NoItem

\* The consumer moves items out in exactly the order they were pushed, none
\* missing, none twice, none from raw memory, across any number of batches.
FifoOrder ==
  pc[Consumer] = "copy" =>
    \A i \in Held(Consumer) : data[i] = rcvd + 1 + (i - acq[Consumer].begin)

\* The channel never holds more items than it has slots (spsc.h:200).
WithinCapacity == rcvd <= sent /\ sent - rcvd <= Capacity

\* A consumer is told that the producer is gone only after it has received
\* every item ("finish consuming all values and then stop", spsc.h:337); a
\* producer only when the consumer really is gone.
DrainedBeforeClosed ==
  /\ ~ok[Consumer] => pos[Producer].drop = 1 /\ rcvd = sent
  /\ ~ok[Producer] => pos[Consumer].drop = 1

\* The arc is deleted by whichever end goes second, when no thread can touch
\* it any more, and ~arc destroys every item still queued: no leak, and no
\* object destroyed that was not constructed (spsc.h:297-304, 219-249).
CleanDeletion ==
  /\ freed => \A s \in Side : pc[s] = "gone"
  /\ freed => \A i \in Slot : data[i] = NoItem
  /\ (\A s \in Side : pc[s] = "gone") => freed

\* No lost wake-up: a side sleeps in WaitOnAddress only while there is nothing
\* for it to do, or while the other side is about to call notify_one().
NoLostWakeup ==
  \A s \in Side :
    pc[s] = "asleep" => \/ MustWait(s, pos[s], pos[Other(s)])
                        \/ pc[Other(s)] \in {"notify", "dropNotify"}

\* An operation blocked on an end that goes away returns: destroying one end
\* never leaves the other hanging in a blocking push or pop.
PeerGoneUnblocks ==
  \A s \in Side : pc[Other(s)] = "gone" ~> pc[s] \in {"idle", "gone"}

\* A blocked producer is released once items are consumed, a blocked consumer
\* once items arrive: nobody stays asleep while it could move an item.
SleeperServed ==
  \A s \in Side :
    (pc[s] = "asleep" /\ ~MustWait(s, pos[s], pos[Other(s)])) ~> pc[s] # "asleep"
-----------------------------------------------------------------------------
(***************************************************************************)
(* The inductive invariant behind the safety properties                    *)
(***************************************************************************)

SameRev == pos[Producer].rev = pos[Consumer].rev

\* The slots between the consumer's and the producer's position, going round.
Queued(i) ==
  IF SameRev THEN pos[Consumer].index <= i /\ i < pos[Producer].index
             ELSE pos[Consumer].index <= i \/ i < pos[Producer].index

\* The item a queued slot holds: its distance from the consumer's position.
ItemAt(i) ==
  rcvd + 1 + (IF pos[Consumer].index <= i
              THEN i - pos[Consumer].index
              ELSE i + Capacity - pos[Consumer].index)

\* The positions and the revolution flags encode the number of queued items.
PositionsInv ==
  /\ SameRev => /\ pos[Consumer].index <= pos[Producer].index
                /\ sent - rcvd = pos[Producer].index - pos[Consumer].index
  /\ ~SameRev => /\ pos[Producer].index <= pos[Consumer].index
                 /\ sent - rcvd = pos[Producer].index + Capacity - pos[Consumer].index

\* What an acquisition is worth until it is released, whatever the other side
\* does meanwhile: the producer's range stays free, the consumer's stays queued.
AcquisitionInv ==
  \A s \in Side : pc[s] \in {"copy", "store"} =>
    /\ acq[s].begin = pos[s].index
    /\ acq[s].begin < acq[s].end
    /\ acq[s].end <= acq[s].begin + op[s].remaining
    /\ acq[s].next = IF acq[s].end = Capacity
                     THEN [index |-> 0, rev |-> 1 - pos[s].rev, drop |-> 0]
                     ELSE [index |-> acq[s].end, rev |-> pos[s].rev, drop |-> 0]
    /\ s = Producer /\ ~SameRev => acq[s].end <= pos[Consumer].index
    /\ s = Consumer /\ SameRev => acq[s].end <= pos[Producer].index

\* What lives in every slot.
Content(i) ==
  IF freed THEN NoItem
  ELSE IF Queued(i)
       THEN IF pc[Consumer] = "store" /\ i \in Held(Consumer) THEN NoItem ELSE ItemAt(i)
       ELSE IF pc[Producer] = "store" /\ i \in Held(Producer)
            THEN sent + 1 + (i - acq[Producer].begin)
            ELSE NoItem

\* Every slot holds what the positions say it holds.
DataInv == \A i \in Slot : data[i] = Content(i)

\* The drop flags, _eitherSideDropped and the deletion follow the destructors.
LifetimeInv ==
  /\ \A s \in Side : pos[s].drop = 1 <=> (pc[s] \in {"dropNotify", "exchange", "gone"})
  /\ dropped <=> (\E s \in Side : pc[s] = "gone")
  /\ freed <=> (\A s \in Side : pc[s] = "gone")

\* A running operation has something left to move; a report that the other end
\* is gone stays true.
OperationInv ==
  /\ \A s \in Side : pc[s] \in {"load", "wait", "asleep", "copy", "store"} => op[s].remaining > 0
  /\ ~ok[Consumer] => pos[Producer].drop = 1 /\ SameRev /\ pos[Consumer].index = pos[Producer].index
  /\ ~ok[Producer] => pos[Consumer].drop = 1

\* A side waits on a value that makes it wait, and sleeps on an old one only
\* until the notification that is already on its way.
WaitInv ==
  \A s \in Side :
    /\ pc[s] \in {"wait", "asleep"} => MustWait(s, pos[s], theirPos[s])
    /\ pc[s] = "asleep" => \/ pos[Other(s)] = theirPos[s]
                           \/ pc[Other(s)] \in {"notify", "dropNotify"}

\* The strengthening that makes the safety properties inductive.
IInv ==
  /\ TypeOK
  /\ PositionsInv
  /\ AcquisitionInv
  /\ DataInv
  /\ LifetimeInv
  /\ OperationInv
  /\ WaitInv
=============================================================================
