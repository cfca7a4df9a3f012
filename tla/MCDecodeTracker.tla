--------------------------- MODULE MCDecodeTracker ---------------------------
(***************************************************************************)
(* Small instances of DecodeTracker for TLC.                               *)
(***************************************************************************)
EXTENDS DecodeTracker, TLC

CONSTANTS r1, r2, w1, w2

MCRequests == {r1, r2}
MCWorkers == {w1, w2}
MCOneWorker == {w1}

\* Requests, and workers, are interchangeable; used by the safety run only.
MCSymmetry == Permutations(MCRequests) \cup Permutations(MCWorkers)
=============================================================================
