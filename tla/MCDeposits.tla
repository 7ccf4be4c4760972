----------------------------- MODULE MCDeposits -----------------------------
(* Deposits for TLC: workers and refunds are interchangeable.              *)
EXTENDS Deposits, TLC

MCSymmetry == Permutations(Worker) \union Permutations(Refund)
=============================================================================
