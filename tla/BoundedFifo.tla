----------------------------- MODULE BoundedFifo -----------------------------
(***************************************************************************)
(* What a til::spsc channel promises its two users, with nothing said about *)
(* positions, flags or waiting: a bounded first-in first-out queue that     *)
(* either end may leave, and whose other end is told so, the receiving one  *)
(* only after it has taken every item.                                      *)
(***************************************************************************)
EXTENDS Integers, Sequences

CONSTANT Size    \* how many items the queue holds at most

VARIABLES
  queue,    \* the items sent and not yet received, oldest first
  last,     \* the number of the last item sent; items are numbered from 1
  here,     \* here[e]: end e has not left
  told      \* told[e]: end e knows that the other one has left

fifoVars == <<queue, last, here, told>>

Sender == "producer"
Receiver == "consumer"
Ends == {Sender, Receiver}
Peer(e) == IF e = Sender THEN Receiver ELSE Sender

FifoInit ==
  /\ queue = << >>
  /\ last = 0
  /\ here = [e \in Ends |-> TRUE]
  /\ told = [e \in Ends |-> FALSE]

\* The next n items enter the queue together, if it has room for them.
Send(n) ==
  /\ here[Sender] /\ ~told[Sender]
  /\ Len(queue) + n <= Size
  /\ queue' = queue \o [k \in 1 .. n |-> last + k]
  /\ last' = last + n
  /\ UNCHANGED <<here, told>>

\* The receiver takes the n oldest items.
Receive(n) ==
  /\ here[Receiver]
  /\ n <= Len(queue)
  /\ queue' = SubSeq(queue, n + 1, Len(queue))
  /\ UNCHANGED <<last, here, told>>

Leave(e) ==
  /\ here[e]
  /\ here' = [here EXCEPT ![e] = FALSE]
  /\ UNCHANGED <<queue, last, told>>

\* An operation reports that the other end has left.
Tell(e) ==
  /\ here[e] /\ ~here[Peer(e)]
  /\ e = Receiver => queue = << >>
  /\ told' = [told EXCEPT ![e] = TRUE]
  /\ UNCHANGED <<queue, last, here>>

\* Whatever nobody received is destroyed once both ends have left.
Discard ==
  /\ \A e \in Ends : ~here[e]
  /\ queue' = << >>
  /\ UNCHANGED <<last, here, told>>

FifoNext ==
  \/ \E n \in 1 .. Size : Send(n) \/ Receive(n)
  \/ \E e \in Ends : Leave(e) \/ Tell(e)
  \/ Discard

FifoSpec == FifoInit /\ [][FifoNext]_fifoVars
=============================================================================
