--------------------------- MODULE MCRenderThread ---------------------------
(* TLC instances of RenderThread.                                          *)
EXTENDS RenderThread
=============================================================================
