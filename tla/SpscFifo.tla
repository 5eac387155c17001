------------------------------ MODULE SpscFifo ------------------------------
(***************************************************************************)
(* til::spsc implements a bounded FIFO queue.  Items enter the queue with   *)
(* the producer's release store and leave it when the consumer moves them   *)
(* out of their slots; the queue's content is read from the slots.          *)
(***************************************************************************)
EXTENDS Spsc, Sequences

\* Items moved out of their slots whose slots are not released yet.
Taken == IF pc[Consumer] = "store" THEN Got(Consumer) ELSE 0

SlotAfter(k) == (pos[Consumer].index + k) % Capacity

QueuedItems ==
  IF freed THEN << >>
  ELSE [k \in 1 .. sent - rcvd - Taken |-> data[SlotAfter(Taken + k - 1)]]

Fifo == INSTANCE BoundedFifo WITH
          Size  <- Capacity,
          queue <- QueuedItems,
          last  <- sent,
          here  <- [s \in Side |-> pos[s].drop = 0],
          told  <- [s \in Side |-> ~ok[s]]

\* Every step of the ring buffer, whatever the interleaving, is a step of the
\* queue or invisible to it: items enter in order, leave in order and intact,
\* and an end is told that its peer left only when nothing is left to receive,
\* and for good (acquire and release, spsc.h:306-386; drop, spsc.h:284-304).
ImplementsFifo == Fifo!FifoSpec
=============================================================================
