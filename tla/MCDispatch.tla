----------------------------- MODULE MCDispatch -----------------------------
(* TLC instances of Dispatch.                                              *)
EXTENDS Dispatch, TLC

\* Requests, handlers and dialogs are interchangeable.
Symmetric == Permutations(Requests) \cup Permutations(Toggles) \cup Permutations(Dialogs)
=============================================================================
