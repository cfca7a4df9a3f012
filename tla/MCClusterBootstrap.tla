------------------------- MODULE MCClusterBootstrap -------------------------
(***************************************************************************)
(* Small instances of ClusterBootstrap for TLC.                            *)
(***************************************************************************)
EXTENDS ClusterBootstrap

CONSTANTS n1, n2, w1, w2

MCTwoNodes == {n1, n2}
MCWorkers == {w1, w2}

\* Both list each other, or one of them does not.
MCPeerLists == {[n \in MCTwoNodes |-> MCTwoNodes \ {n}],
                [n \in MCTwoNodes |-> IF n = n1 THEN {n2} ELSE {}]}
=============================================================================
