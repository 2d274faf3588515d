-------------------------- MODULE MCBitemporalUpdate --------------------------
(***************************************************************************)
(* Model-checking instance of BitemporalUpdate: three interchangeable      *)
(* transactions, so that two may wait for one, and four ticks of a clock.  *)
(***************************************************************************)
EXTENDS BitemporalUpdate, TLC

TransactionSymmetry == Permutations(Transactions)

===============================================================================
