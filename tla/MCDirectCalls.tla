--------------------------- MODULE MCDirectCalls ---------------------------
(* A small instance of DirectCalls for TLC.                                *)
EXTENDS DirectCalls, TLC

CONSTANTS desk, web, out
=============================================================================
