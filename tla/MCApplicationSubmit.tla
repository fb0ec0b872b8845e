------------------------ MODULE MCApplicationSubmit ------------------------
(***************************************************************************)
(* Instances of ApplicationSubmit for TLC.                                 *)
(***************************************************************************)
EXTENDS ApplicationSubmit, TLC

CONSTANTS r1, r2, r3, w1, w2, w3

(***************************************************************************)
(* Three server processes on one database: no request waits for the loop   *)
(* of another.                                                             *)
(***************************************************************************)
OneRequestPerWorker == (r1 :> w1) @@ (r2 :> w2) @@ (r3 :> w3)

(***************************************************************************)
(* The single uvicorn process of Dockerfile:17.                            *)
(***************************************************************************)
OneWorker == [r \in Request |-> w1]

(***************************************************************************)
(* Requests are interchangeable together with their processes: a           *)
(* permutation of the requests moves each process with its request.        *)
(***************************************************************************)
Symmetry ==
    {[x \in Request \cup Worker |->
         IF x \in Request THEN p[x]
         ELSE OneRequestPerWorker[p[CHOOSE r \in Request : OneRequestPerWorker[r] = x]]] :
     p \in Permutations(Request)}
=============================================================================
