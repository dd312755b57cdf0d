------------------------------ MODULE MCAccount ------------------------------
(* TLC instances of Account.                                                *)
EXTENDS Account, TLC

\* Accounts and handlers are interchangeable.
Symmetric == Permutations(Accounts) \cup Permutations(Saves)
=============================================================================
