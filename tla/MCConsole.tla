----------------------------- MODULE MCConsole -----------------------------
(* A small instance of the console's three screens. *)
EXTENDS Console

CONSTANTS f1, f2, d1, d2, x1
=============================================================================
