----------------------------- MODULE MCAccounts -----------------------------
(***************************************************************************)
(* Instances of Accounts for TLC.                                          *)
(***************************************************************************)
EXTENDS Accounts, TLC

\* Sessions are interchangeable; of the users, one only is a contact.
Symmetry == Permutations(Session)
=============================================================================
