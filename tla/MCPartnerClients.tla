-------------------------- MODULE MCPartnerClients --------------------------
(***************************************************************************)
(* Instances of PartnerClients for TLC.                                    *)
(***************************************************************************)
EXTENDS PartnerClients, TLC

\* Partners, requests, companies and threads are interchangeable.
Symmetry ==
    Permutations(Partner) \cup Permutations(Request) \cup Permutations(Company)
        \cup Permutations(Thread)
=============================================================================
