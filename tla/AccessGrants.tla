---------------------------- MODULE AccessGrants ----------------------------
(***************************************************************************)
(* What delegating promises: the grant of an application by a delegation   *)
(* only moves forward, it is scheduled or active for one delegation at a   *)
(* time, and once closed it is closed for good.                            *)
(***************************************************************************)
EXTENDS Naturals

CONSTANTS Delegation, Application

VARIABLE grant  \* grant[d][a]: the access to application a that delegation d gives

States == {"none", "scheduled", "active", "closed"}
Open == {"scheduled", "active"}

Moves ==
    {<<"none", "scheduled">>, <<"none", "active">>, <<"scheduled", "active">>,
     <<"scheduled", "closed">>, <<"active", "closed">>}

Exclusive(g) ==
    \A a \in Application : \A c, d \in Delegation :
        g[c][a] \in Open /\ g[d][a] \in Open => c = d

Init == grant = [d \in Delegation |-> [a \in Application |-> "none"]]

Next ==
    /\ grant' \in [Delegation -> [Application -> States]]
    /\ \A d \in Delegation, a \in Application :
          grant'[d][a] = grant[d][a] \/ <<grant[d][a], grant'[d][a]>> \in Moves
    /\ Exclusive(grant')

Spec == Init /\ [][Next]_grant
=============================================================================
