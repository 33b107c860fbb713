------------------------------ MODULE MCMoney ------------------------------
(* Small instances of Money for TLC. *)
EXTENDS Money, TLC

\* Handlers, accounts, users and row ids are interchangeable.
Symmetric == Permutations(Procs) \cup Permutations(Accounts) \cup Permutations(Users)
             \cup Permutations(Deposits) \cup Permutations(Withdrawals) \cup Permutations(Keys)
=============================================================================
