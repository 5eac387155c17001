------------------------------ MODULE SpscProof ------------------------------
(***************************************************************************)
(* Machine-checked proofs about the SPSC channel, for every capacity, every *)
(* batch size and any number of items.                                     *)
(***************************************************************************)
EXTENDS SpscFifo, TLAPS

\* The invariant holds for the empty channel that channel() creates.
LEMMA InitInv == Init => IInv
<1> SUFFICES ASSUME Init PROVE IInv
  OBVIOUS
<1> USE CapacityAssumption DEF Init, Side, Producer, Consumer, Slot, Start, NoItem
<1>1. TypeOK
  <2>1. op \in [Side -> [remaining : Nat, blocking : BOOLEAN, forever : BOOLEAN]]
    <3>1. [remaining |-> 0, blocking |-> TRUE, forever |-> TRUE]
            \in [remaining : Nat, blocking : BOOLEAN, forever : BOOLEAN]
      OBVIOUS
    <3> QED
      BY <3>1, Zenon
  <2>2. dropped \in BOOLEAN /\ freed \in BOOLEAN /\ ok \in [Side -> BOOLEAN]
    BY Zenon
  <2> QED
    BY <2>1, <2>2 DEF TypeOK, Position, Acquisition
<1>2. PositionsInv
  BY DEF PositionsInv, SameRev
<1>3. AcquisitionInv
  BY DEF AcquisitionInv
<1>4. DataInv
  BY DEF DataInv, Content, Queued, SameRev
<1>5. LifetimeInv
  BY DEF LifetimeInv
<1>6. OperationInv
  BY DEF OperationInv
<1>7. WaitInv
  BY DEF WaitInv
<1> QED
  BY <1>1, <1>2, <1>3, <1>4, <1>5, <1>6, <1>7 DEF IInv

\* The type invariant, spelled out for the fields the arithmetic needs.
LEMMA FieldTypes ==
  ASSUME TypeOK
  PROVE  \A t \in Side :
           /\ pos[t].index \in Int /\ 0 <= pos[t].index /\ pos[t].index < Capacity
           /\ pos[t].rev \in {0, 1}
           /\ acq[t].begin \in Int /\ 0 <= acq[t].begin /\ acq[t].begin < Capacity
           /\ acq[t].end \in Int /\ 1 <= acq[t].end /\ acq[t].end <= Capacity
           /\ op[t].remaining \in Nat
<1>1. \A t \in Side : pos[t] \in Position /\ acq[t] \in Acquisition /\ op[t].remaining \in Nat
  BY DEF TypeOK
<1> QED
  BY <1>1, CapacityAssumption DEF Position, Acquisition, Slot

\* Starting an operation touches only the caller's own bookkeeping.
LEMMA BeginInv ==
  ASSUME IInv, NEW s \in Side, NEW count \in 1 .. MaxBatch, NEW forever \in BOOLEAN, Begin(s, count, forever)
  PROVE  IInv'
<1> USE CapacityAssumption DEF IInv, Begin, Side, Producer, Consumer, Other
<1>1. TypeOK'
  BY BoundAssumption DEF TypeOK
<1>2. PositionsInv'
  BY DEF PositionsInv, SameRev, TypeOK, Position, Acquisition, Slot, AcquisitionInv
<1>3. AcquisitionInv'
  BY DEF AcquisitionInv, SameRev, TypeOK, Position, Acquisition, Slot, PositionsInv, OperationInv
<1>4. DataInv'
  BY DEF DataInv, Content, Queued, SameRev, ItemAt, Held, TypeOK
<1>5. LifetimeInv'
  BY DEF LifetimeInv, TypeOK, Position, AcquisitionInv
<1>6. OperationInv'
  BY DEF OperationInv, TypeOK, SameRev, Position, AcquisitionInv, LifetimeInv, PositionsInv
<1>7. WaitInv'
  BY DEF WaitInv, TypeOK, MustWait, Position, LifetimeInv
<1> QED
  BY <1>1, <1>2, <1>3, <1>4, <1>5, <1>6, <1>7 DEF IInv

\* The range acquire() computes from the two positions is one the other side
\* keeps off: free for the producer, queued for the consumer.
LEMMA AcquireInv ==
  ASSUME IInv, NEW s \in Side, Acquire(s)
  PROVE  IInv'
<1> USE CapacityAssumption DEF IInv, Acquire, Return, Side, Producer, Consumer, Other
<1>0. /\ pos' = pos /\ data' = data /\ freed' = freed /\ sent' = sent /\ rcvd' = rcvd
      /\ op' = op /\ dropped' = dropped
      /\ \A t \in Side : pc'[t] \in {"copy", "store"} /\ t # s => pc[t] = pc'[t] /\ acq'[t] = acq[t]
      /\ \A t \in Side : pc'[t] = "store" <=> pc[t] = "store"
      /\ \A t \in Side : pc[t] = "store" => acq'[t] = acq[t]
  BY DEF TypeOK
<1>a. ASSUME ~MustWait(s, pos[s], pos[Other(s)]), ~Closed(s, pos[s], pos[Other(s)]),
             NEW r, r = Range(pos[s], pos[Other(s)], op[s].remaining), pc[s] = "load"
      PROVE  /\ r \in Acquisition
             /\ r.begin = pos[s].index
             /\ r.begin < r.end
             /\ r.end <= r.begin + op[s].remaining
             /\ r.next = IF r.end = Capacity
                         THEN [index |-> 0, rev |-> 1 - pos[s].rev, drop |-> 0]
                         ELSE [index |-> r.end, rev |-> pos[s].rev, drop |-> 0]
             /\ s = Producer /\ ~SameRev => r.end <= pos[Consumer].index
             /\ s = Consumer /\ SameRev => r.end <= pos[Producer].index
  <2>1. op[s].remaining \in Nat /\ op[s].remaining > 0
    BY <1>a DEF TypeOK, OperationInv
  <2> DEFINE m == pos[s]
             o == pos[Other(s)]
             limit == IF o.index > m.index THEN o.index ELSE Capacity
             end == Smaller(limit, m.index + op[s].remaining)
  <2>2. /\ m.index \in Slot /\ m.rev \in {0, 1} /\ o.index \in Slot /\ o.rev \in {0, 1}
    BY DEF TypeOK, Position
  <2>3. end \in 1 .. Capacity /\ m.index < end /\ end <= m.index + op[s].remaining /\ end <= limit
    BY <2>1, <2>2 DEF Smaller, Slot
  <2>4. /\ r.begin = m.index
        /\ r.end = end
        /\ r.next = IF end # Capacity
                    THEN [index |-> end, rev |-> m.rev, drop |-> 0]
                    ELSE [index |-> 0, rev |-> 1 - m.rev, drop |-> 0]
        /\ r = [begin |-> r.begin, end |-> r.end, next |-> r.next]
    BY <1>a DEF Range
  <2> HIDE DEF end
  <2>5. r.next \in Position
    <3>1. CASE end # Capacity
      BY <3>1, <2>2, <2>3, <2>4 DEF Position, Slot
    <3>2. CASE end = Capacity
      BY <3>2, <2>2, <2>3, <2>4 DEF Position, Slot
    <3> QED
      BY <3>1, <3>2
  <2>6. r \in Acquisition
    BY <2>2, <2>3, <2>4, <2>5 DEF Acquisition
  <2>7. s = Producer /\ ~SameRev => end <= pos[Consumer].index
    BY <1>a, <2>2, <2>3 DEF MustWait, Closed, PositionsInv, SameRev, LifetimeInv, TypeOK, Position, Slot
  <2>8. s = Consumer /\ SameRev => end <= pos[Producer].index
    BY <1>a, <2>2, <2>3 DEF MustWait, Closed, PositionsInv, SameRev, LifetimeInv, TypeOK, Position, Slot
  <2> QED
    BY <2>2, <2>3, <2>4, <2>6, <2>7, <2>8
<1>1. TypeOK'
  <2>1. theirPos' \in [Side -> Position]
    BY DEF TypeOK
  <2>2. acq' \in [Side -> Acquisition]
    <3>1. CASE acq' = acq
      BY <3>1 DEF TypeOK
    <3>2. CASE acq' # acq
      <4>1. /\ ~MustWait(s, pos[s], pos[Other(s)]) /\ ~Closed(s, pos[s], pos[Other(s)])
            /\ acq' = [acq EXCEPT ![s] = Range(pos[s], pos[Other(s)], op[s].remaining)]
        BY <3>2
      <4>2. Range(pos[s], pos[Other(s)], op[s].remaining) \in Acquisition
        BY <4>1, <1>a
      <4> QED
        BY <4>1, <4>2 DEF TypeOK
    <3> QED
      BY <3>1, <3>2
  <2>3. ok' \in [Side -> BOOLEAN]
    BY DEF TypeOK
  <2>4. pc' \in [Side -> {"idle", "load", "wait", "asleep", "copy", "store", "notify",
                          "dropNotify", "exchange", "gone"}]
    BY DEF TypeOK
  <2> QED
    BY <1>0, <2>1, <2>2, <2>3, <2>4 DEF TypeOK
<1>2. PositionsInv'
  BY <1>0 DEF PositionsInv, SameRev
<1>3. AcquisitionInv'
  <2>1. CASE pc'[s] = "copy"
    <3>1. /\ ~MustWait(s, pos[s], pos[Other(s)]) /\ ~Closed(s, pos[s], pos[Other(s)])
          /\ acq'[s] = Range(pos[s], pos[Other(s)], op[s].remaining) /\ pc[s] = "load"
      BY <2>1 DEF TypeOK
    <3> QED
      BY <3>1, <1>0, <1>a DEF AcquisitionInv, SameRev
  <2>2. CASE pc'[s] # "copy"
    <3>1. pc'[s] # "store"
      BY DEF TypeOK
    <3> QED
      BY <2>2, <3>1, <1>0 DEF AcquisitionInv, SameRev
  <2> QED
    BY <2>1, <2>2
<1>4. DataInv'
  BY <1>0 DEF DataInv, Content, Queued, SameRev, ItemAt, Held
<1>5. LifetimeInv'
  BY <1>0 DEF LifetimeInv, TypeOK
<1>6. OperationInv'
  BY <1>0 DEF OperationInv, TypeOK, SameRev, Closed, PositionsInv, Position, Slot, LifetimeInv
<1>7. WaitInv'
  BY DEF WaitInv, TypeOK, MustWait, Position, LifetimeInv
<1> QED
  BY <1>1, <1>2, <1>3, <1>4, <1>5, <1>6, <1>7 DEF IInv

\* WaitOnAddress sleeps only while the compared position is unchanged.
LEMMA WaitStepInv ==
  ASSUME IInv, NEW s \in Side, Wait(s)
  PROVE  IInv'
<1> USE CapacityAssumption DEF IInv, Wait, Side, Producer, Consumer, Other
<1>1. TypeOK'
  BY DEF TypeOK, Position, Acquisition, Slot, NoItem
<1>2. PositionsInv'
  BY DEF PositionsInv, SameRev, TypeOK, Position, Acquisition, Slot, AcquisitionInv
<1>3. AcquisitionInv'
  BY DEF AcquisitionInv, SameRev, TypeOK, Position, Acquisition, Slot, PositionsInv, OperationInv
<1>4. DataInv'
  BY DEF DataInv, Content, Queued, SameRev, ItemAt, Held, TypeOK, Position, Acquisition, Slot, NoItem, AcquisitionInv, PositionsInv
<1>5. LifetimeInv'
  BY DEF LifetimeInv, TypeOK, Position, AcquisitionInv
<1>6. OperationInv'
  BY DEF OperationInv, TypeOK, SameRev, Position, AcquisitionInv, LifetimeInv, PositionsInv
<1>7. WaitInv'
  BY DEF WaitInv, TypeOK, MustWait, Position, LifetimeInv
<1> QED
  BY <1>1, <1>2, <1>3, <1>4, <1>5, <1>6, <1>7 DEF IInv

\* A spurious wake-up only sends the sleeper back to its loop.
LEMMA SpuriousWakeInv ==
  ASSUME IInv, NEW s \in Side, SpuriousWake(s)
  PROVE  IInv'
<1> USE CapacityAssumption DEF IInv, SpuriousWake, Side, Producer, Consumer, Other
<1>1. TypeOK'
  BY DEF TypeOK, Position, Acquisition, Slot, NoItem
<1>2. PositionsInv'
  BY DEF PositionsInv, SameRev, TypeOK, Position, Acquisition, Slot, AcquisitionInv
<1>3. AcquisitionInv'
  BY DEF AcquisitionInv, SameRev, TypeOK, Position, Acquisition, Slot, PositionsInv, OperationInv
<1>4. DataInv'
  BY DEF DataInv, Content, Queued, SameRev, ItemAt, Held, TypeOK, Position, Acquisition, Slot, NoItem, AcquisitionInv, PositionsInv
<1>5. LifetimeInv'
  BY DEF LifetimeInv, TypeOK, Position, AcquisitionInv
<1>6. OperationInv'
  BY DEF OperationInv, TypeOK, SameRev, Position, AcquisitionInv, LifetimeInv, PositionsInv
<1>7. WaitInv'
  BY DEF WaitInv, TypeOK, MustWait, Position, LifetimeInv
<1> QED
  BY <1>1, <1>2, <1>3, <1>4, <1>5, <1>6, <1>7 DEF IInv

\* Copying turns exactly the acquired slots into live objects, or into raw memory.
LEMMA CopyInv ==
  ASSUME IInv, NEW s \in Side, Copy(s)
  PROVE  IInv'
<1> USE CapacityAssumption DEF IInv, Copy, Side, Producer, Consumer, Other
<1>1. TypeOK'
  <2>1. data' \in [Slot -> Nat]
    <3>1. ASSUME NEW i \in acq[s].begin .. acq[s].end - 1 PROVE sent + 1 + (i - acq[s].begin) \in Nat
      BY <3>1, FieldTypes DEF TypeOK
    <3> QED
      BY <3>1 DEF TypeOK, NoItem
  <2> QED
    BY <2>1 DEF TypeOK
<1>2. PositionsInv'
  BY DEF PositionsInv, SameRev, TypeOK, Position, Acquisition, Slot, AcquisitionInv
<1>3. AcquisitionInv'
  BY DEF AcquisitionInv, SameRev, TypeOK, Position, Acquisition, Slot, PositionsInv, OperationInv
<1>4. DataInv'
  <2> SUFFICES ASSUME NEW i \in Slot PROVE data'[i] = Content(i)'
    BY DEF DataInv
  <2>1. data[i] = Content(i) /\ i \in Int /\ 0 <= i /\ i < Capacity
    BY DEF DataInv, Slot
  <2>2. /\ Queued(i)' <=> Queued(i)
        /\ ItemAt(i)' = ItemAt(i)
        /\ \A t \in Side : t # s => pc'[t] = pc[t]
        /\ pc[s] = "copy" /\ pc'[s] = "store" /\ acq' = acq /\ freed' = freed /\ sent' = sent
        /\ ~freed
    BY DEF Queued, ItemAt, SameRev, TypeOK, LifetimeInv
  <2>3. data'[i] = IF i \in acq[s].begin .. acq[s].end - 1
                   THEN IF s = Producer THEN sent + 1 + (i - acq[s].begin) ELSE NoItem
                   ELSE data[i]
    OBVIOUS
  <2>4. CASE s = Producer
    <3>1. i \in acq[s].begin .. acq[s].end - 1 => ~Queued(i)
      BY <2>1, <2>2, <2>4, FieldTypes DEF AcquisitionInv, PositionsInv, Queued, SameRev
    <3> QED
      BY <2>1, <2>2, <2>3, <2>4, <3>1 DEF Content, Held
  <2>5. CASE s = Consumer
    <3>1. i \in acq[s].begin .. acq[s].end - 1 => Queued(i)
      BY <2>1, <2>2, <2>5, FieldTypes DEF AcquisitionInv, PositionsInv, Queued, SameRev
    <3> QED
      BY <2>1, <2>2, <2>3, <2>5, <3>1 DEF Content, Held
  <2> QED
    BY <2>4, <2>5
<1>5. LifetimeInv'
  BY DEF LifetimeInv, TypeOK, Position, AcquisitionInv
<1>6. OperationInv'
  BY DEF OperationInv, TypeOK, SameRev, Position, AcquisitionInv, LifetimeInv, PositionsInv
<1>7. WaitInv'
  BY DEF WaitInv, TypeOK, MustWait, Position, LifetimeInv
<1> QED
  BY <1>1, <1>2, <1>3, <1>4, <1>5, <1>6, <1>7 DEF IInv

\* The release store moves one position past the acquired range.
LEMMA StoreInv ==
  ASSUME IInv, NEW s \in Side, Store(s)
  PROVE  IInv'
<1> USE CapacityAssumption DEF IInv, Store, Got, Side, Producer, Consumer, Other
<1>0. /\ pc[s] = "store" /\ pc'[s] = "notify" /\ acq' = acq /\ data' = data /\ freed' = freed
      /\ \A t \in Side : t # s => pc'[t] = pc[t] /\ pos'[t] = pos[t] /\ op'[t] = op[t]
      /\ pos'[s] = acq[s].next
      /\ pos'[s].index = IF acq[s].end = Capacity THEN 0 ELSE acq[s].end
      /\ pos'[s].rev = IF acq[s].end = Capacity THEN 1 - pos[s].rev ELSE pos[s].rev
      /\ acq[s].begin = pos[s].index /\ acq[s].begin < acq[s].end
      /\ acq[s].end <= acq[s].begin + op[s].remaining
      /\ s = Producer /\ ~SameRev => acq[s].end <= pos[Consumer].index
      /\ s = Consumer /\ SameRev => acq[s].end <= pos[Producer].index
  BY DEF TypeOK, AcquisitionInv
<1>00. /\ s = Producer => sent' = sent + (acq[s].end - acq[s].begin) /\ rcvd' = rcvd
       /\ s = Consumer => rcvd' = rcvd + (acq[s].end - acq[s].begin) /\ sent' = sent
       /\ sent \in Int /\ rcvd \in Int
  BY DEF TypeOK
<1>1. TypeOK'
  <2>1. pos' \in [Side -> Position]
    <3>1. acq[s].next \in Position
      BY DEF TypeOK, Acquisition
    <3> QED
      BY <3>1 DEF TypeOK
  <2>2. op' \in [Side -> [remaining : Nat, blocking : BOOLEAN, forever : BOOLEAN]]
    <3>1. op[s].remaining - (acq[s].end - acq[s].begin) \in Nat
      BY <1>0, FieldTypes
    <3> QED
      BY <3>1 DEF TypeOK
  <2>3. sent' \in Nat /\ rcvd' \in Nat
    BY <1>0, <1>00, FieldTypes DEF TypeOK
  <2>4. pc' \in [Side -> {"idle", "load", "wait", "asleep", "copy", "store", "notify",
                          "dropNotify", "exchange", "gone"}]
    BY DEF TypeOK
  <2> QED
    BY <2>1, <2>2, <2>3, <2>4 DEF TypeOK
<1>2. PositionsInv'
  <2>1. CASE s = Producer
    <3>1. CASE acq[s].end = Capacity
      <4>1. SameRev /\ ~SameRev'
        BY <2>1, <3>1, <1>0, FieldTypes DEF PositionsInv, SameRev
      <4> QED
        BY <2>1, <3>1, <4>1, <1>0, <1>00, FieldTypes DEF PositionsInv
    <3>2. CASE acq[s].end # Capacity
      <4>1. SameRev' <=> SameRev
        BY <2>1, <3>2, <1>0 DEF SameRev
      <4> QED
        BY <2>1, <3>2, <4>1, <1>0, <1>00, FieldTypes DEF PositionsInv
    <3> QED
      BY <3>1, <3>2
  <2>2. CASE s = Consumer
    BY <2>2, <1>0, <1>00, FieldTypes DEF PositionsInv, SameRev
  <2> QED
    BY <2>1, <2>2
<1>3. AcquisitionInv'
  <2> SUFFICES ASSUME pc[Other(s)] \in {"copy", "store"} PROVE AcquisitionInv'
    BY <1>0 DEF AcquisitionInv
  <2>1. CASE s = Producer
    BY <2>1, <1>0, FieldTypes DEF AcquisitionInv, PositionsInv, SameRev
  <2>2. CASE s = Consumer
    BY <2>2, <1>0, FieldTypes DEF AcquisitionInv, PositionsInv, SameRev
  <2> QED
    BY <2>1, <2>2
<1>4. DataInv'
  <2> SUFFICES ASSUME NEW i \in Slot PROVE data'[i] = Content(i)'
    BY DEF DataInv
  <2>1. data[i] = Content(i) /\ i \in Int /\ 0 <= i /\ i < Capacity
    BY DEF DataInv, Slot
  <2>2. ~freed
    BY <1>0 DEF LifetimeInv
  <2>3. CASE s = Producer
    <3>1. Queued(i)' <=> Queued(i) \/ i \in Held(Producer)
      BY <2>1, <2>3, <1>0, FieldTypes DEF Queued, Held, PositionsInv, SameRev
    <3>2. i \in Held(Producer) => ~Queued(i) /\ ItemAt(i)' = sent + 1 + (i - acq[Producer].begin)
      <4> SUFFICES ASSUME i \in Held(Producer)
                   PROVE  ~Queued(i) /\ ItemAt(i)' = sent + 1 + (i - acq[Producer].begin)
        OBVIOUS
      <4>1. acq[Producer].begin <= i /\ i < acq[Producer].end
        BY <2>1, <2>3, <1>0, FieldTypes DEF Held
      <4>2. pos'[Consumer] = pos[Consumer] /\ rcvd' = rcvd /\ rcvd \in Int /\ sent \in Int
        BY <2>3, <1>0, <1>00
      <4>3. CASE SameRev
        BY <2>1, <2>3, <4>1, <4>2, <4>3, <1>0, FieldTypes DEF Queued, ItemAt, PositionsInv
      <4>4. CASE ~SameRev
        BY <2>1, <2>3, <4>1, <4>2, <4>4, <1>0, FieldTypes DEF Queued, ItemAt, PositionsInv
      <4> QED
        BY <4>3, <4>4
    <3>3. /\ ItemAt(i)' = ItemAt(i)
          /\ (i \in Held(Consumer))' <=> i \in Held(Consumer)
          /\ pc'[Consumer] = pc[Consumer]
          /\ i \in Held(Consumer) => Queued(i)
      BY <2>1, <2>3, <1>0, <1>00, FieldTypes DEF ItemAt, Held, AcquisitionInv, Queued, PositionsInv, SameRev
    <3> QED
      <4>1. CASE i \in Held(Producer)
        BY <2>1, <2>2, <2>3, <3>1, <3>2, <3>3, <4>1, <1>0 DEF Content
      <4>2. CASE i \notin Held(Producer)
        BY <2>1, <2>2, <2>3, <3>1, <3>3, <4>2, <1>0 DEF Content
      <4> QED
        BY <4>1, <4>2
  <2>4. CASE s = Consumer
    <3>1. Queued(i)' <=> Queued(i) /\ i \notin Held(Consumer)
      BY <2>1, <2>4, <1>0, FieldTypes DEF Queued, Held, PositionsInv, SameRev
    <3>2. Queued(i)' => ItemAt(i)' = ItemAt(i)
      BY <2>1, <2>4, <1>0, <1>00, FieldTypes DEF Queued, Held, ItemAt, PositionsInv, SameRev
    <3>3. /\ (i \in Held(Producer))' <=> i \in Held(Producer)
          /\ i \in Held(Producer) => ~Queued(i)
          /\ pc'[Producer] = pc[Producer]
      BY <2>1, <2>4, <1>0, FieldTypes DEF Held, AcquisitionInv, Queued, PositionsInv, SameRev
    <3>4. i \in Held(Consumer) => data[i] = NoItem
      <4>1. i \in Held(Consumer) => Queued(i)
        BY <2>1, <2>4, <1>0, FieldTypes DEF Held, Queued, PositionsInv, SameRev
      <4> QED
        BY <2>1, <2>2, <2>4, <4>1, <1>0 DEF Content
    <3> QED
      BY <2>1, <2>2, <2>4, <3>1, <3>2, <3>3, <3>4, <1>0, <1>00 DEF Content
  <2> QED
    BY <2>3, <2>4
<1>5. LifetimeInv'
  BY DEF LifetimeInv, TypeOK, Position, AcquisitionInv
<1>6. OperationInv'
  <2>1. \A t \in Side : pc'[t] \in {"load", "wait", "asleep", "copy", "store"} => op'[t].remaining > 0
    BY <1>0 DEF OperationInv
  <2>2. ok' = ok /\ (~ok[Producer] => s # Consumer)
    BY <1>0 DEF OperationInv, LifetimeInv
  <2>3. ~ok[Consumer] => s # Consumer /\ s # Producer
    BY <1>0, FieldTypes DEF OperationInv, LifetimeInv
  <2> QED
    BY <1>0, <2>1, <2>2, <2>3 DEF OperationInv, SameRev
<1>7. WaitInv'
  BY DEF WaitInv, TypeOK, MustWait, Position, LifetimeInv
<1> QED
  BY <1>1, <1>2, <1>3, <1>4, <1>5, <1>6, <1>7 DEF IInv

\* The wake-up after a release store.
LEMMA NotifyInv ==
  ASSUME IInv, NEW s \in Side, Notify(s)
  PROVE  IInv'
<1> USE CapacityAssumption DEF IInv, Notify, Woken, Side, Producer, Consumer, Other
<1>1. TypeOK'
  BY DEF TypeOK, Position, Acquisition, Slot, NoItem
<1>2. PositionsInv'
  BY DEF PositionsInv, SameRev, TypeOK, Position, Acquisition, Slot, AcquisitionInv
<1>3. AcquisitionInv'
  BY DEF AcquisitionInv, SameRev, TypeOK, Position, Acquisition, Slot, PositionsInv, OperationInv
<1>4. DataInv'
  BY DEF DataInv, Content, Queued, SameRev, ItemAt, Held, TypeOK, Position, Acquisition, Slot, NoItem, AcquisitionInv, PositionsInv
<1>5. LifetimeInv'
  BY DEF LifetimeInv, TypeOK, Position, AcquisitionInv
<1>6. OperationInv'
  BY DEF OperationInv, TypeOK, SameRev, Position, AcquisitionInv, LifetimeInv, PositionsInv
<1>7. WaitInv'
  BY DEF WaitInv, TypeOK, MustWait, Position, LifetimeInv
<1> QED
  BY <1>1, <1>2, <1>3, <1>4, <1>5, <1>6, <1>7 DEF IInv

\* Setting the drop flag leaves index and revolution alone.
LEMMA DropStoreInv ==
  ASSUME IInv, NEW s \in Side, DropStore(s)
  PROVE  IInv'
<1> USE CapacityAssumption DEF IInv, DropStore, Side, Producer, Consumer, Other
<1>0. /\ \A t \in Side : pos'[t].index = pos[t].index /\ pos'[t].rev = pos[t].rev
      /\ \A t \in Side : t # s => pos'[t] = pos[t] /\ pc'[t] = pc[t]
      /\ \A t \in Side : pc'[t] \in {"copy", "store"} => pc'[t] = pc[t]
      /\ \A t \in Side : pc'[t] = "store" <=> pc[t] = "store"
      /\ SameRev' <=> SameRev
  BY DEF TypeOK, Position, SameRev
<1>1. TypeOK'
  BY DEF TypeOK, Position, Acquisition, Slot, NoItem
<1>2. PositionsInv'
  BY <1>0 DEF PositionsInv
<1>3. AcquisitionInv'
  BY <1>0 DEF AcquisitionInv
<1>4. DataInv'
  BY <1>0 DEF DataInv, Content, Queued, ItemAt, Held
<1>5. LifetimeInv'
  BY DEF LifetimeInv, TypeOK, Position, AcquisitionInv
<1>6. OperationInv'
  BY DEF OperationInv, TypeOK, SameRev, Position, AcquisitionInv, LifetimeInv, PositionsInv
<1>7. WaitInv'
  BY DEF WaitInv, TypeOK, MustWait, Position, LifetimeInv
<1> QED
  BY <1>1, <1>2, <1>3, <1>4, <1>5, <1>6, <1>7 DEF IInv

\* The wake-up after the drop flag.
LEMMA DropNotifyInv ==
  ASSUME IInv, NEW s \in Side, DropNotify(s)
  PROVE  IInv'
<1> USE CapacityAssumption DEF IInv, DropNotify, Woken, Side, Producer, Consumer, Other
<1>1. TypeOK'
  BY DEF TypeOK, Position, Acquisition, Slot, NoItem
<1>2. PositionsInv'
  BY DEF PositionsInv, SameRev, TypeOK, Position, Acquisition, Slot, AcquisitionInv
<1>3. AcquisitionInv'
  BY DEF AcquisitionInv, SameRev, TypeOK, Position, Acquisition, Slot, PositionsInv, OperationInv
<1>4. DataInv'
  BY DEF DataInv, Content, Queued, SameRev, ItemAt, Held, TypeOK, Position, Acquisition, Slot, NoItem, AcquisitionInv, PositionsInv
<1>5. LifetimeInv'
  BY DEF LifetimeInv, TypeOK, Position, AcquisitionInv
<1>6. OperationInv'
  BY DEF OperationInv, TypeOK, SameRev, Position, AcquisitionInv, LifetimeInv, PositionsInv
<1>7. WaitInv'
  BY DEF WaitInv, TypeOK, MustWait, Position, LifetimeInv
<1> QED
  BY <1>1, <1>2, <1>3, <1>4, <1>5, <1>6, <1>7 DEF IInv

\* The second exchange deletes the arc and every queued item.
LEMMA DropExchangeInv ==
  ASSUME IInv, NEW s \in Side, DropExchange(s)
  PROVE  IInv'
<1> USE CapacityAssumption DEF IInv, DropExchange, Side, Producer, Consumer, Other
<1>0. pc'[s] = "gone" /\ pc[s] = "exchange" /\ pc[Other(s)] = pc'[Other(s)]
  BY DEF TypeOK
<1>1. TypeOK'
  <2>1. dropped' \in BOOLEAN /\ freed' \in BOOLEAN
    BY Zenon DEF TypeOK
  <2>2. data' \in [Slot -> Nat]
    BY DEF TypeOK, NoItem
  <2> QED
    BY <2>1, <2>2 DEF TypeOK
<1>2. PositionsInv'
  BY DEF PositionsInv, SameRev, TypeOK, Position, Acquisition, Slot, AcquisitionInv
<1>3. AcquisitionInv'
  BY DEF AcquisitionInv, SameRev, TypeOK, Position, Acquisition, Slot, PositionsInv, OperationInv
<1>4. DataInv'
  <2>1. CASE ~dropped
    BY <2>1, <1>0 DEF DataInv, Content, Queued, SameRev, ItemAt, Held, TypeOK, LifetimeInv
  <2>2. CASE dropped
    <3>1. pc[Other(s)] = "gone" /\ ~freed /\ freed'
      BY <2>2, <1>0 DEF LifetimeInv
    <3>2. ASSUME NEW i \in Slot, i \notin Destroyed PROVE data[i] = NoItem
      <4>1. data[i] = Content(i) /\ i \in Int /\ 0 <= i /\ i < Capacity
        BY DEF DataInv, Slot
      <4>2. ~Queued(i)
        BY <3>2, <4>1, FieldTypes DEF Destroyed, Queued, SameRev, PositionsInv
      <4> QED
        BY <3>1, <4>1, <4>2, <1>0 DEF Content
    <3> QED
      BY <3>1, <3>2, <2>2 DEF DataInv, Content
  <2> QED
    BY <2>1, <2>2
<1>5. LifetimeInv'
  BY DEF LifetimeInv, TypeOK, Position, AcquisitionInv
<1>6. OperationInv'
  BY DEF OperationInv, TypeOK, SameRev, Position, AcquisitionInv, LifetimeInv, PositionsInv
<1>7. WaitInv'
  BY DEF WaitInv, TypeOK, MustWait, Position, LifetimeInv
<1> QED
  BY <1>1, <1>2, <1>3, <1>4, <1>5, <1>6, <1>7 DEF IInv

\* Every step keeps the inductive invariant.
LEMMA NextInv == IInv /\ [Next]_vars => IInv'
<1> SUFFICES ASSUME IInv, [Next]_vars PROVE IInv'
  OBVIOUS
<1>1. CASE UNCHANGED vars
  BY <1>1 DEF vars, IInv, TypeOK, PositionsInv, AcquisitionInv, DataInv, LifetimeInv, OperationInv,
    WaitInv, SameRev, Content, Queued, ItemAt, Held
<1>2. CASE Next
  <2>1. PICK s \in Side :
          \/ \E count \in 1 .. MaxBatch, forever \in BOOLEAN : Begin(s, count, forever)
          \/ DropStore(s)
          \/ SpuriousWake(s)
          \/ Step(s)
    BY <1>2 DEF Next
  <2>2. CASE \E count \in 1 .. MaxBatch, forever \in BOOLEAN : Begin(s, count, forever)
    BY <2>2, BeginInv
  <2>3. CASE DropStore(s)
    BY <2>3, DropStoreInv
  <2>4. CASE SpuriousWake(s)
    BY <2>4, SpuriousWakeInv
  <2>5. CASE Step(s)
    BY <2>5, AcquireInv, WaitStepInv, CopyInv, StoreInv, NotifyInv, DropNotifyInv, DropExchangeInv
      DEF Step
  <2> QED
    BY <2>1, <2>2, <2>3, <2>4, <2>5
<1> QED
  BY <1>1, <1>2

\* The inductive invariant holds in every reachable state of the channel.
THEOREM Invariance == Spec => []IInv
<1>1. Init => IInv
  BY InitInv
<1>2. IInv /\ [Next]_vars => IInv'
  BY NextInv
<1> QED
  BY <1>1, <1>2, PTL DEF Spec

\* Type correctness: positions stay inside the ring, every acquired range ends
\* inside it, and no count goes below zero.
THEOREM TypeCorrect == Spec => []TypeOK
<1>1. IInv => TypeOK
  BY DEF IInv
<1> QED
  BY <1>1, Invariance, PTL

\* The producer's and the consumer's ranges never overlap, without any lock.
THEOREM Exclusion == Spec => []SlotsExclusive
<1>1. IInv => SlotsExclusive
  BY FieldTypes DEF IInv, SlotsExclusive, Held, AcquisitionInv, PositionsInv, SameRev, Side, Producer, Consumer
<1> QED
  BY <1>1, Invariance, PTL

\* No item is overwritten before the consumer has released its slot.
THEOREM NothingOverwritten == Spec => []NoOverwrite
<1>1. IInv => NoOverwrite
  <2> SUFFICES ASSUME IInv, pc[Producer] = "copy", NEW i \in Held(Producer) PROVE data[i] = NoItem
    BY DEF NoOverwrite
  <2> USE DEF IInv, Side, Producer, Consumer
  <2>1. i \in Slot /\ i \in Int /\ acq[Producer].begin <= i /\ i < acq[Producer].end
    BY FieldTypes, CapacityAssumption DEF Held, Slot
  <2>2. ~Queued(i)
    BY <2>1, FieldTypes DEF Queued, AcquisitionInv, PositionsInv, SameRev
  <2> QED
    BY <2>1, <2>2 DEF DataInv, Content
<1> QED
  BY <1>1, Invariance, PTL

\* Items come out in the order they went in, none lost and none twice.
THEOREM FirstInFirstOut == Spec => []FifoOrder
<1>1. IInv => FifoOrder
  <2> SUFFICES ASSUME IInv, pc[Consumer] = "copy", NEW i \in Held(Consumer)
               PROVE  data[i] = rcvd + 1 + (i - acq[Consumer].begin)
    BY DEF FifoOrder
  <2> USE DEF IInv, Side, Producer, Consumer
  <2>1. /\ i \in Slot /\ i \in Int /\ acq[Consumer].begin <= i /\ i < acq[Consumer].end
        /\ acq[Consumer].begin = pos[Consumer].index
    BY FieldTypes, CapacityAssumption DEF Held, Slot, AcquisitionInv
  <2>2. Queued(i)
    BY <2>1, FieldTypes DEF Queued, AcquisitionInv, PositionsInv, SameRev
  <2>3. ~freed
    BY DEF LifetimeInv
  <2> QED
    BY <2>1, <2>2, <2>3 DEF DataInv, Content, ItemAt
<1> QED
  BY <1>1, Invariance, PTL

\* The ring never holds more than Capacity items, nor fewer than none.
THEOREM Bounded == Spec => []WithinCapacity
<1>1. IInv => WithinCapacity
  BY FieldTypes, CapacityAssumption DEF IInv, TypeOK, WithinCapacity, PositionsInv, SameRev, Side, Producer, Consumer
<1> QED
  BY <1>1, Invariance, PTL

\* The consumer learns that the producer is gone only after the last item.
THEOREM DrainBeforeClose == Spec => []DrainedBeforeClosed
<1>1. IInv => DrainedBeforeClosed
  BY FieldTypes DEF IInv, TypeOK, DrainedBeforeClosed, OperationInv, PositionsInv, Side, Producer, Consumer
<1> QED
  BY <1>1, Invariance, PTL

\* The arc is deleted exactly when both ends are gone, with no object left.
THEOREM DeletedOnce == Spec => []CleanDeletion
<1>1. IInv => CleanDeletion
  BY DEF IInv, CleanDeletion, LifetimeInv, DataInv, Content
<1> QED
  BY <1>1, Invariance, PTL

\* A sleeping side has nothing to do, or is about to be woken.
THEOREM WakeupsArrive == Spec => []NoLostWakeup
<1>1. IInv => NoLostWakeup
  BY DEF IInv, NoLostWakeup, WaitInv
<1> QED
  BY <1>1, Invariance, PTL
-----------------------------------------------------------------------------
(***************************************************************************)
(* The channel implements a bounded FIFO queue                             *)
(***************************************************************************)

\* n numbers that follow "base".
Run(base, n) == [k \in 1 .. n |-> base + k]

LEMMA RunSeq ==
  ASSUME NEW base \in Int, NEW n \in Nat
  PROVE  Run(base, n) \in Seq(Int) /\ Len(Run(base, n)) = n
  BY DEF Run

LEMMA RunEmpty == ASSUME NEW base \in Int PROVE Run(base, 0) = << >>
  BY DEF Run

LEMMA RunJoined ==
  ASSUME NEW base \in Int, NEW n \in Nat, NEW g \in Nat
  PROVE  Run(base, n) \o Run(base + n, g) = Run(base, n + g)
  BY DEF Run

LEMMA RunCut ==
  ASSUME NEW base \in Int, NEW n \in Nat, NEW g \in 0 .. n
  PROVE  SubSeq(Run(base, n), g + 1, n) = Run(base + g, n - g)
  BY DEF Run

LEMMA Mod == ASSUME NEW C \in Nat \ {0}, NEW x \in 0 .. (2 * C - 1)
  PROVE x % C = IF x < C THEN x ELSE x - C
  OBVIOUS

\* How many items the queue holds, and the number of the last one taken out.
Waiting == IF freed THEN 0 ELSE sent - rcvd - Taken
Before == rcvd + Taken

\* The slots behind the consumer's position hold what was sent and not taken.
LEMMA QueueContent ==
  IInv => /\ Before \in Nat /\ Waiting \in Nat /\ Waiting <= Capacity
          /\ QueuedItems = Run(Before, Waiting)
<1> SUFFICES ASSUME IInv
             PROVE  /\ Before \in Nat /\ Waiting \in Nat /\ Waiting <= Capacity
                    /\ QueuedItems = Run(Before, Waiting)
  OBVIOUS
<1> USE CapacityAssumption DEF IInv, Side, Producer, Consumer
<1> DEFINE c == pos[Consumer].index
           q == pos[Producer].index
           n == sent - rcvd - Taken
<1>0. /\ c \in Int /\ 0 <= c /\ c < Capacity /\ q \in Int /\ 0 <= q /\ q < Capacity
      /\ sent \in Nat /\ rcvd \in Nat /\ Capacity \in Nat
  BY FieldTypes DEF TypeOK
<1>1. /\ Taken \in Nat
      /\ pc[Consumer] = "store" => /\ Taken = acq[Consumer].end - acq[Consumer].begin
                                   /\ acq[Consumer].begin = c
      /\ pc[Consumer] # "store" => Taken = 0
      /\ Taken <= sent - rcvd
      /\ c + Taken <= Capacity
  BY <1>0, FieldTypes DEF Taken, Got, AcquisitionInv, PositionsInv, SameRev
<1>2. sent - rcvd \in Nat /\ sent - rcvd <= Capacity
  BY <1>0 DEF PositionsInv
<1>3. Before \in Nat /\ Waiting \in Nat /\ Waiting <= Capacity
  BY <1>0, <1>1, <1>2 DEF Before, Waiting
<1>4. CASE freed
  BY <1>3, <1>4, RunEmpty DEF QueuedItems, Waiting
<1>5. CASE ~freed
  <2>1. ASSUME NEW k \in 1 .. n PROVE data[SlotAfter(Taken + k - 1)] = Before + k
    <3> DEFINE d == Taken + k - 1
               x == c + d
               i == IF x < Capacity THEN x ELSE x - Capacity
    <3>1. d \in Nat /\ Taken <= d /\ d < sent - rcvd
      BY <1>0, <1>1, <1>2
    <3>2. c + d \in 0 .. (2 * Capacity - 1)
      BY <1>0, <1>2, <3>1
    <3>3. SlotAfter(d) = i
      <4>1. x \in 0 .. (2 * Capacity - 1)
        BY <3>2
      <4>2. SlotAfter(d) = x % Capacity
        BY DEF SlotAfter
      <4> HIDE DEF x
      <4>3. x % Capacity = IF x < Capacity THEN x ELSE x - Capacity
        BY <4>1, Mod
      <4> QED
        BY <4>2, <4>3
    <3>4. i \in Slot /\ i \in Int
      BY <1>0, <3>1, <3>2 DEF Slot
    <3>5. Queued(i) /\ ItemAt(i) = rcvd + 1 + d
      BY <1>0, <3>1, <3>2 DEF Queued, ItemAt, PositionsInv
    <3>6. ~ (pc[Consumer] = "store" /\ i \in Held(Consumer))
      <4>1. i < c \/ c + Taken <= i
        BY <1>0, <1>1, <1>2, <3>1
      <4>2. pc[Consumer] = "store" => acq[Consumer].begin = c /\ acq[Consumer].end = c + Taken
        BY <1>0, <1>1, FieldTypes
      <4> HIDE DEF i
      <4> QED
        BY <1>0, <1>1, <3>4, <4>1, <4>2 DEF Held
    <3>7. data[i] = rcvd + 1 + d
      BY <1>5, <3>4, <3>5, <3>6 DEF DataInv, Content
    <3> QED
      BY <1>0, <1>1, <3>1, <3>3, <3>7 DEF Before
  <2>2. QueuedItems = [k \in 1 .. n |-> data[SlotAfter(Taken + k - 1)]]
    BY <1>5 DEF QueuedItems
  <2>3. Waiting = n
    BY <1>5 DEF Waiting
  <2> HIDE DEF n
  <2> QED
    BY <1>3, <2>1, <2>2, <2>3 DEF Run
<1> QED
  BY <1>3, <1>4, <1>5

\* The same after a step.
LEMMA QueueContentNext ==
  IInv' => /\ Before' \in Nat /\ Waiting' \in Nat /\ Waiting' <= Capacity
           /\ QueuedItems' = Run(Before', Waiting')
<1>1. (IInv => /\ Before \in Nat /\ Waiting \in Nat /\ Waiting <= Capacity
               /\ QueuedItems = Run(Before, Waiting))'
  BY QueueContent, PTL
<1> QED
  BY <1>1 DEF Run

\* Whoever moves items has not been told that its peer has left.
ToldInv == \A s \in Side : pc[s] \in {"copy", "store", "notify"} => ok[s]

LEMMA NextTold ==
  ASSUME IInv, ToldInv, [Next]_vars PROVE ToldInv'
<1> USE DEF Side, Producer, Consumer, Other
<1>1. ASSUME NEW s \in Side, Acquire(s) PROVE ToldInv'
  <2>1. ~MustWait(s, pos[s], pos[Other(s)]) /\ ~Closed(s, pos[s], pos[Other(s)]) => ok[s]
    BY <1>1 DEF IInv, TypeOK, OperationInv, LifetimeInv, MustWait, Closed, Acquire, SameRev, Position
  <2> QED
    BY <1>1, <2>1 DEF Acquire, Return, ToldInv, IInv, TypeOK
<1>2. ASSUME NEW s \in Side, NEW count, NEW forever, Begin(s, count, forever) PROVE ToldInv'
  BY <1>2 DEF Begin, ToldInv, IInv, TypeOK
<1>3. ASSUME NEW s \in Side, Wait(s) \/ SpuriousWake(s) \/ Copy(s) \/ Store(s) PROVE ToldInv'
  BY <1>3 DEF Wait, SpuriousWake, Copy, Store, ToldInv, IInv, TypeOK
<1>4. ASSUME NEW s \in Side, Notify(s) PROVE ToldInv'
  BY <1>4 DEF Notify, Woken, ToldInv, IInv, TypeOK
<1>5. ASSUME NEW s \in Side, DropStore(s) \/ DropNotify(s) \/ DropExchange(s) PROVE ToldInv'
  BY <1>5 DEF DropStore, DropNotify, DropExchange, Woken, ToldInv, IInv, TypeOK
<1>6. CASE UNCHANGED vars
  BY <1>6 DEF vars, ToldInv
<1> QED
  BY <1>1, <1>2, <1>3, <1>4, <1>5, <1>6 DEF Next, Step

\* The ends that have not left, and those that know the other one has.
Here == [s \in Side |-> pos[s].drop = 0]
Told == [s \in Side |-> ~ok[s]]

LEMMA IsHere == \A s \in Side : Here[s] <=> pos[s].drop = 0
  BY Zenon DEF Here

\* A step that changes nothing the queue's users can see.
LEMMA Invisible ==
  ASSUME IInv, IInv', Before' = Before, Waiting' = Waiting, sent' = sent, Here' = Here, Told' = Told
  PROVE  UNCHANGED Fifo!fifoVars
<1>1. QueuedItems' = QueuedItems
  BY QueueContent, QueueContentNext
<1> QED
  BY <1>1 DEF Fifo!fifoVars, Here, Told

\* The release store of the producer is where items enter the queue.
LEMMA StoreSends ==
  ASSUME IInv, IInv', ToldInv, Store(Producer)
  PROVE  \E n \in 1 .. Capacity : Fifo!Send(n)
<1> USE CapacityAssumption DEF Side, Producer, Consumer
<1> DEFINE g == Got(Producer)
<1>1. g \in 1 .. Capacity
  BY FieldTypes DEF IInv, Store, Got, AcquisitionInv
<1>2. ~freed /\ freed' = freed /\ pos[Producer].drop = 0 /\ ok[Producer]
  BY DEF IInv, LifetimeInv, ToldInv, Store, TypeOK, Position
<1>3. sent \in Nat /\ sent' = sent + g /\ rcvd' = rcvd /\ Taken' = Taken
  BY DEF IInv, TypeOK, Store, Taken, Got
<1>4. Before' = Before /\ Waiting' = Waiting + g /\ Before + Waiting = sent
  <2> HIDE DEF g
  <2>1. Before \in Nat /\ rcvd \in Nat
    BY QueueContent DEF IInv, TypeOK
  <2>2. Before = rcvd + Taken /\ Waiting = sent - rcvd - Taken
        /\ Before' = rcvd' + Taken' /\ Waiting' = sent' - rcvd' - Taken'
    BY <1>2 DEF Before, Waiting
  <2>3. Taken \in Int
    BY FieldTypes DEF IInv, Taken, Got
  <2> QED
    BY <1>1, <1>3, <2>1, <2>2, <2>3
<1>5. Here' = Here /\ Told' = Told
  <2>1. pos'[Producer].drop = 0 /\ pos'[Consumer] = pos[Consumer] /\ ok' = ok
    BY DEF IInv, TypeOK, Store, AcquisitionInv
  <2> QED
    BY <1>2, <2>1 DEF Here, Told
<1> HIDE DEF g
<1>6. QueuedItems' = QueuedItems \o [k \in 1 .. g |-> sent + k]
  <2>1. Run(Before, Waiting) \o Run(Before + Waiting, g) = Run(Before, Waiting + g)
    <3> DEFINE b == Before
               w == Waiting
    <3>1. b \in Int /\ w \in Nat /\ g \in Nat
      BY <1>1, QueueContent
    <3> HIDE DEF b, w
    <3>2. Run(b, w) \o Run(b + w, g) = Run(b, w + g)
      BY <3>1, RunJoined
    <3> QED
      BY <3>2 DEF b, w
  <2> QED
    BY <1>4, <2>1, QueueContent, QueueContentNext DEF Run
<1>7. Len(QueuedItems) + g <= Capacity
  BY <1>1, <1>4, QueueContent, QueueContentNext, RunSeq
<1>8. Fifo!Send(g)
  BY <1>2, <1>3, <1>5, <1>6, <1>7 DEF Fifo!Send, Fifo!Sender, Here, Told
<1> QED
  BY <1>1, <1>8

\* The consumer takes items out of the queue when it moves them out of the slots.
LEMMA CopyReceives ==
  ASSUME IInv, IInv', Copy(Consumer)
  PROVE  \E n \in 1 .. Capacity : Fifo!Receive(n)
<1> USE CapacityAssumption DEF Side, Producer, Consumer
<1> DEFINE g == Got(Consumer)
<1>1. g \in 1 .. Capacity
  BY FieldTypes DEF IInv, Copy, Got, AcquisitionInv
<1>2. ~freed /\ freed' = freed /\ pos[Consumer].drop = 0
  BY DEF IInv, LifetimeInv, Copy, TypeOK, Position
<1>3. UNCHANGED <<sent, rcvd, Here, Told>> /\ Taken = 0 /\ Taken' = g
  BY DEF IInv, TypeOK, Copy, Taken, Got, Here, Told
<1>4. Before' = Before + g /\ Waiting' = Waiting - g /\ g \in 0 .. Waiting
  BY <1>2, <1>3, <1>1, QueueContent, QueueContentNext DEF Before, Waiting, IInv, TypeOK
<1> HIDE DEF g
<1>5. QueuedItems' = SubSeq(QueuedItems, g + 1, Len(QueuedItems))
  <2>1. SubSeq(Run(Before, Waiting), g + 1, Waiting) = Run(Before + g, Waiting - g)
    <3> DEFINE b == Before
               w == Waiting
    <3>1. b \in Int /\ w \in Nat /\ g \in 0 .. w
      BY <1>4, QueueContent
    <3> HIDE DEF b, w
    <3>2. SubSeq(Run(b, w), g + 1, w) = Run(b + g, w - g)
      BY <3>1, RunCut
    <3> QED
      BY <3>2 DEF b, w
  <2>2. Len(QueuedItems) = Waiting
    BY QueueContent, RunSeq
  <2> QED
    BY <1>4, <2>1, <2>2, QueueContent, QueueContentNext
<1>6. g <= Len(QueuedItems)
  BY <1>4, QueueContent, RunSeq
<1>7. Fifo!Receive(g)
  BY <1>2, <1>3, <1>5, <1>6 DEF Fifo!Receive, Fifo!Receiver, Here, Told
<1> QED
  BY <1>1, <1>7

\* Every step of the channel is one of the queue, or changes nothing of it.
LEMMA NextRefines ==
  ASSUME IInv, IInv', ToldInv, [Next]_vars
  PROVE  [Fifo!FifoNext]_(Fifo!fifoVars)
<1> USE CapacityAssumption DEF Side, Producer, Consumer, Other
<1>1. ASSUME NEW s \in Side, Acquire(s) PROVE [Fifo!FifoNext]_(Fifo!fifoVars)
  <2>1. UNCHANGED <<sent, rcvd, freed, pos, data>> /\ pc[s] = "load"
        /\ (pc'[Consumer] = "store" <=> pc[Consumer] = "store")
        /\ (pc[Consumer] = "store" => acq'[Consumer] = acq[Consumer])
    BY <1>1 DEF Acquire, Return, IInv, TypeOK
  <2>2. Before' = Before /\ Waiting' = Waiting /\ Here' = Here
    BY <2>1 DEF Before, Waiting, Taken, Got, Here
  <2>3. CASE Closed(s, pos[s], pos[Other(s)]) /\ ~MustWait(s, pos[s], pos[Other(s)])
    <3>1. ok' = [ok EXCEPT ![s] = FALSE] /\ pos[s].drop = 0 /\ pos[Other(s)].drop = 1
      BY <1>1, <2>3 DEF Acquire, Return, Closed, IInv, LifetimeInv, TypeOK, Position
    <3>2. Told' = [Told EXCEPT ![s] = TRUE]
      BY <3>1 DEF Told, IInv, TypeOK
    <3>3. s = Consumer => QueuedItems = << >>
      <4> SUFFICES ASSUME s = Consumer PROVE QueuedItems = << >>
        OBVIOUS
      <4>1. Waiting = 0
        BY <2>1, <2>3, FieldTypes DEF Closed, Waiting, Taken, IInv, TypeOK, PositionsInv, SameRev
      <4> QED
        BY <4>1, QueueContent, RunEmpty
    <3>4. QueuedItems' = QueuedItems
      BY <2>2, QueueContent, QueueContentNext
    <3>5. Fifo!Tell(s)
      <4>1. Fifo!Peer(s) = Other(s) /\ Other(s) \in Side
        BY DEF Fifo!Peer, Fifo!Receiver, Fifo!Sender
      <4>2. Here[s] /\ ~Here[Fifo!Peer(s)]
        BY <3>1, <4>1, IsHere
      <4> QED
        BY <2>1, <2>2, <3>2, <3>3, <3>4, <4>2, Zenon DEF Fifo!Tell, Fifo!Receiver, Here, Told
    <3> QED
      BY <3>5 DEF Fifo!FifoNext, Fifo!Ends, Fifo!Sender, Fifo!Receiver
  <2>4. CASE ~ (Closed(s, pos[s], pos[Other(s)]) /\ ~MustWait(s, pos[s], pos[Other(s)]))
    <3>1. MustWait(s, pos[s], pos[Other(s)]) => ok[s]
      BY <2>1 DEF MustWait, IInv, OperationInv, LifetimeInv, TypeOK, Position
    <3>2. ok' = ok
      BY <1>1, <2>4, <3>1 DEF Acquire, Return, IInv, TypeOK
    <3> QED
      BY <2>1, <2>2, <3>2, Invisible DEF Told
  <2> QED
    BY <2>3, <2>4
<1>2. ASSUME NEW s \in Side, Copy(s) PROVE [Fifo!FifoNext]_(Fifo!fifoVars)
  <2>1. CASE s = Producer
    <3>1. UNCHANGED <<Before, Waiting, sent, Here, Told>>
      BY <1>2, <2>1 DEF Copy, Before, Waiting, Taken, Got, Here, Told, IInv, TypeOK
    <3> QED
      BY <3>1, Invisible
  <2>2. CASE s = Consumer
    BY <1>2, <2>2, CopyReceives DEF Fifo!FifoNext
  <2> QED
    BY <2>1, <2>2
<1>3. ASSUME NEW s \in Side, Store(s) PROVE [Fifo!FifoNext]_(Fifo!fifoVars)
  <2>1. CASE s = Producer
    BY <1>3, <2>1, StoreSends DEF Fifo!FifoNext
  <2>2. CASE s = Consumer
    <3>1. sent' = sent /\ rcvd' = rcvd + Got(Consumer) /\ Taken = Got(Consumer) /\ Taken' = 0
          /\ freed' = freed /\ Got(Consumer) \in Int /\ ok' = ok
      BY <1>3, <2>2, FieldTypes DEF Store, Taken, Got, IInv, TypeOK
    <3>2. Before' = Before /\ Waiting' = Waiting
      BY <3>1 DEF Before, Waiting, IInv, TypeOK
    <3>3. pos'[Consumer].drop = 0 /\ pos[Consumer].drop = 0 /\ pos'[Producer] = pos[Producer]
      BY <1>3, <2>2 DEF Store, IInv, TypeOK, AcquisitionInv, LifetimeInv, Position
    <3> QED
      BY <3>1, <3>2, <3>3, Invisible DEF Here, Told
  <2> QED
    BY <2>1, <2>2
<1>4. ASSUME NEW s \in Side, Notify(s) PROVE [Fifo!FifoNext]_(Fifo!fifoVars)
  <2>1. ok' = ok
    BY <1>4 DEF Notify, ToldInv, IInv, TypeOK
  <2>2. UNCHANGED <<Before, Waiting, sent, Here>>
    BY <1>4 DEF Notify, Woken, Before, Waiting, Taken, Got, Here, IInv, TypeOK
  <2> QED
    BY <2>1, <2>2, Invisible DEF Told
<1>5. ASSUME NEW s \in Side,
             \/ Wait(s) \/ SpuriousWake(s) \/ DropNotify(s)
             \/ \E count \in 1 .. MaxBatch, forever \in BOOLEAN : Begin(s, count, forever)
      PROVE  [Fifo!FifoNext]_(Fifo!fifoVars)
  <2>1. UNCHANGED <<Before, Waiting, sent, Here, Told>>
    BY <1>5 DEF Wait, SpuriousWake, DropNotify, Woken, Begin, Before, Waiting, Taken, Got, Here, Told, IInv, TypeOK
  <2> QED
    BY <2>1, Invisible
<1>6. ASSUME NEW s \in Side, DropStore(s) PROVE [Fifo!FifoNext]_(Fifo!fifoVars)
  <2>1. UNCHANGED <<Before, Waiting, sent, Told>>
    BY <1>6 DEF DropStore, Before, Waiting, Taken, Got, Told, IInv, TypeOK
  <2>2. QueuedItems' = QueuedItems
    BY <2>1, QueueContent, QueueContentNext
  <2>3. Here[s] /\ Here' = [Here EXCEPT ![s] = FALSE]
    <3>1. pos[s].drop = 0 /\ pos'[s].drop = 1 /\ pos'[Other(s)] = pos[Other(s)]
      BY <1>6 DEF DropStore, IInv, TypeOK, LifetimeInv, Position
    <3>2. \A e \in Side : pos'[e].drop = 0 <=> e # s /\ pos[e].drop = 0
      BY <3>1
    <3>3. Here' = [e \in Side |-> e # s /\ pos[e].drop = 0]
      BY <3>2, Zenon DEF Here
    <3> QED
      BY <3>1, <3>3, IsHere, Zenon DEF Here
  <2>4. Fifo!Leave(s)
    BY <2>1, <2>2, <2>3 DEF Fifo!Leave, Here, Told
  <2> QED
    BY <2>4 DEF Fifo!FifoNext, Fifo!Ends, Fifo!Sender, Fifo!Receiver
<1>7. ASSUME NEW s \in Side, DropExchange(s) PROVE [Fifo!FifoNext]_(Fifo!fifoVars)
  <2>1. UNCHANGED <<sent, rcvd, Here, Told, Taken>>
    BY <1>7 DEF DropExchange, Here, Told, Taken, Got, IInv, TypeOK
  <2>2. CASE ~dropped
    BY <1>7, <2>1, <2>2, Invisible DEF DropExchange, Before, Waiting
  <2>3. CASE dropped
    <3>1. \A t \in Side : pos[t].drop = 1
      BY <1>7, <2>3 DEF DropExchange, IInv, LifetimeInv
    <3>2. QueuedItems' = << >>
      BY <1>7, <2>3 DEF DropExchange, QueuedItems
    <3>3. Fifo!Discard
      <4>1. \A e \in Fifo!Ends : ~Here[e]
        BY <3>1, IsHere DEF Fifo!Ends, Fifo!Sender, Fifo!Receiver
      <4> QED
        BY <2>1, <3>2, <4>1, Zenon DEF Fifo!Discard, Here, Told
    <3> QED
      BY <3>3 DEF Fifo!FifoNext
  <2> QED
    BY <2>2, <2>3
<1>8. CASE UNCHANGED vars
  <2>1. UNCHANGED <<Before, Waiting, sent, Here, Told>>
    BY <1>8 DEF vars, Before, Waiting, Taken, Got, Here, Told
  <2> QED
    BY <2>1, Invisible
<1> QED
  BY <1>1, <1>2, <1>3, <1>4, <1>5, <1>6, <1>7, <1>8 DEF Next, Step

\* The channel is a bounded first-in first-out queue: every behaviour of the
\* positions, flags and futexes, seen from its users, is one of BoundedFifo.
THEOREM Refinement == Spec => ImplementsFifo
<1>1. Init => Fifo!FifoInit
  <2> SUFFICES ASSUME Init PROVE Fifo!FifoInit
    OBVIOUS
  <2>1. IInv
    BY InitInv
  <2>2. Waiting = 0 /\ sent = 0
    BY DEF Init, Waiting, Taken, Side, Consumer, Producer
  <2>3. QueuedItems = << >>
    BY <2>1, <2>2, QueueContent, RunEmpty
  <2>4. Here = [e \in Side |-> TRUE] /\ Told = [e \in Side |-> FALSE]
    BY DEF Init, Here, Told, Start
  <2> QED
    BY <2>2, <2>3, <2>4 DEF Fifo!FifoInit, Fifo!Ends, Fifo!Sender, Fifo!Receiver, Side, Producer, Consumer, Here, Told
<1>2. Init => ToldInv
  BY DEF Init, ToldInv
<1> QED
  BY <1>1, <1>2, NextTold, NextRefines, Invariance, PTL DEF Spec, ImplementsFifo, Fifo!FifoSpec
=============================================================================
