------------------------------ MODULE MCEpollIO ------------------------------
(* Instances of EpollIO for TLC. *)
EXTENDS EpollIO
CONSTANTS c1, c2, w1, w2

OneConn  == {c1}
TwoConns == {c1, c2}
OneWorker == {w1}
AllKinds == {"good", "garbled", "bad_length"}
OnlyGood == {"good"}
OneFd  == {1}
TwoFds == {1, 2}
TwoAndNone == [c \in TwoConns |-> IF c = c1 THEN 2 ELSE 0]
Two == [c \in OneConn |-> 2]
=============================================================================
