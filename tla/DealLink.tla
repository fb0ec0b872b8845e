------------------------------ MODULE DealLink ------------------------------
(***************************************************************************)
(* What submitting promises, without locks, retries or Bitrix24: the deal  *)
(* of an application is a write-once register.  The first submit that      *)
(* succeeds decides it, every later one answers with what was decided, no  *)
(* two applications share a deal, and until then a submit may fail and be  *)
(* tried again.                                                            *)
(***************************************************************************)
EXTENDS Naturals

CONSTANTS Application, Request

VARIABLES
    link,    \* the deal of each application, 0 while there is none
    failed,  \* the applications whose last submit failed
    answer   \* the deal each request was answered with, 0 if none

linkVars == <<link, failed, answer>>

Init ==
    /\ link = [a \in Application |-> 0]
    /\ failed = {}
    /\ answer = [r \in Request |-> 0]

\* The deal is any one that no application has; the answer tells which.
Decide(r, a) ==
    /\ link[a] = 0
    /\ answer[r] = 0
    /\ link'[a] \in Nat \ {0}
    /\ \A b \in Application : link[b] # link'[a]
    /\ link' = [link EXCEPT ![a] = link'[a]]
    /\ answer' = [answer EXCEPT ![r] = link'[a]]
    /\ failed' = failed \ {a}

Return(r, a) ==
    /\ link[a] # 0
    /\ answer[r] = 0
    /\ answer' = [answer EXCEPT ![r] = link[a]]
    /\ UNCHANGED <<link, failed>>

Fail(a) ==
    /\ link[a] = 0
    /\ failed' = failed \cup {a}
    /\ UNCHANGED <<link, answer>>

Next ==
    \/ \E r \in Request, a \in Application : Decide(r, a) \/ Return(r, a)
    \/ \E a \in Application : Fail(a)

Spec == Init /\ [][Next]_linkVars
=============================================================================
