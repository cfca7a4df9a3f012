--------------------------- MODULE MCNodeLifecycle ---------------------------
(* Instances of NodeLifecycle for TLC. *)
EXTENDS NodeLifecycle
CONSTANTS p1, w1, w2

AllRoles   == {"orchestrator", "prefill", "decode"}
TwoWorkers == {w1, w2}
OnePeer    == <<p1>>
=============================================================================
