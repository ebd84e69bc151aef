----------------------------- MODULE MCProcess -----------------------------
(* One process over two days of two units. *)
EXTENDS Process, TLC
=============================================================================
