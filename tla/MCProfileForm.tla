---------------------------- MODULE MCProfileForm ----------------------------
(* TLC instances of ProfileForm.                                             *)
EXTENDS ProfileForm, TLC

Symmetric == Permutations(Texts)
=============================================================================
