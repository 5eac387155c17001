------------------------------- MODULE MCSpsc -------------------------------
(* TLC instance of the channel and of its refinement: a ring of three slots, *)
(* batches that are larger than the ring, more than two revolutions.         *)
EXTENDS SpscFifo
=============================================================================
