------------------------------ MODULE MCOutbox ------------------------------
(* Small instances of Outbox for TLC. *)
EXTENDS Outbox, TLC

\* Workers are interchangeable: nothing is chosen among them.
WorkerSymmetry == Permutations(Workers)
=============================================================================
