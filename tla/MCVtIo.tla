------------------------------- MODULE MCVtIo -------------------------------
(* TLC instances of VtIo.                                                  *)
EXTENDS VtIo
=============================================================================
