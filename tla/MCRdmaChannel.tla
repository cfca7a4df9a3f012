---------------------------- MODULE MCRdmaChannel ----------------------------
(* Instances of RdmaChannel for TLC. *)
EXTENDS RdmaChannel
CONSTANTS p1, p2

TwoPeers == {p1, p2}
InOrder  == <<p1, p2>>
SixAndThree == [p \in TwoPeers |-> IF p = p1 THEN 6 ELSE 3]
ThreeEach == [p \in TwoPeers |-> 3]
=============================================================================
