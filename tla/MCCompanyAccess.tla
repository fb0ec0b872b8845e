-------------------------- MODULE MCCompanyAccess --------------------------
(***************************************************************************)
(* An instance of CompanyAccess for TLC.                                   *)
(***************************************************************************)
EXTENDS CompanyAccess, TLC

\* All but the system's company are interchangeable, and so are rows and calls.
Symmetry ==
    Permutations(Row) \cup Permutations(Company \ {System}) \cup Permutations(Call)
=============================================================================
