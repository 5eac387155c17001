--------------------------- MODULE MCStateMachine ---------------------------
(* A TLC instance of StateMachine.                                         *)
EXTENDS StateMachine
=============================================================================
