------------------------------ MODULE MCAccounts ------------------------------
(* The instance of Accounts that TLC checks: threads and names may be      *)
(* exchanged.                                                              *)
EXTENDS Accounts, TLC

Alike == Permutations(Threads) \cup Permutations(Names)
=============================================================================
