-------------------------- MODULE MCRequestRouting --------------------------
(***************************************************************************)
(* Small instances of RequestRouting for TLC: two worker threads, two      *)
(* client requests, one prefill node and one decode node.                  *)
(***************************************************************************)
EXTENDS RequestRouting

CONSTANTS w1, w2, r1, r2, p1, d1

MCWorkers == {w1, w2}
MCRequests == {r1, r2}
MCPrefillNodes == {p1}
MCDecodeNodes == {d1}
=============================================================================
