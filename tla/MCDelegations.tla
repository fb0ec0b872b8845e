--------------------------- MODULE MCDelegations ---------------------------
(***************************************************************************)
(* Instances of Delegations for TLC.                                       *)
(***************************************************************************)
EXTENDS Delegations, TLC

(***************************************************************************)
(* Delegations, applications and users are interchangeable.                *)
(***************************************************************************)
Symmetry == Permutations(Delegation) \cup Permutations(User)
=============================================================================
