------------------------------ MODULE SlotPool ------------------------------
(***************************************************************************)
(* What the orchestrator's slot allocator promises, whatever the threads   *)
(* that use it do: every decode node owns a fixed set of regions (slots)   *)
(* of its GPU buffer, a request holds at most one of them, a region has at *)
(* most one holder, and a holder keeps its region until it gives it back.  *)
(* This is the abstract specification that RequestRouting implements.      *)
(***************************************************************************)
CONSTANTS Requests,      \* request ids
          DecodeNodes,   \* decode nodes
          Slots,         \* slot numbers of one decode node
          NoReq          \* "nobody", not an element of Requests

VARIABLE owner           \* owner[d][s]: the request that holds slot s of node d

Holds(r, d, s) == owner[d][s] = r

HasSlot(r) == \E d \in DecodeNodes, s \in Slots : Holds(r, d, s)

PoolTypeOK == owner \in [DecodeNodes -> [Slots -> Requests \cup {NoReq}]]

Init == owner = [d \in DecodeNodes |-> [s \in Slots |-> NoReq]]

\* A request without a slot takes a free one.
Acquire(r, d, s) ==
  /\ ~HasSlot(r)
  /\ Holds(NoReq, d, s)
  /\ owner' = [owner EXCEPT ![d][s] = r]

\* The holder gives its slot back.
Release(r, d, s) ==
  /\ Holds(r, d, s)
  /\ owner' = [owner EXCEPT ![d][s] = NoReq]

Next == \E r \in Requests, d \in DecodeNodes, s \in Slots :
          Acquire(r, d, s) \/ Release(r, d, s)

Spec == Init /\ [][Next]_owner
=============================================================================
