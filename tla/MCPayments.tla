----------------------------- MODULE MCPayments -----------------------------
(* Instances of Payments for TLC.                                          *)
EXTENDS Payments, TLC

\* Requests, references and transactions are interchangeable in safety runs.
Symmetry ==
  Permutations(Requests) \cup Permutations(Refs) \cup Permutations(Txs)
=============================================================================
