------------------------- MODULE MCConptyConnection -------------------------
(* A TLC instance of ConptyConnection.                                     *)
EXTENDS ConptyConnection
=============================================================================
