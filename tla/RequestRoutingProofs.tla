------------------------ MODULE RequestRoutingProofs ------------------------
(***************************************************************************)
(* Proofs about RequestRouting, for any numbers of workers, requests,      *)
(* nodes and slots and any queue capacity.                                 *)
(***************************************************************************)
EXTENDS RequestRouting, TLAPS

(***************************************************************************)
(* The inductive invariant.  The accounting of slots depends on who may    *)
(* take or give one back: a request takes a slot once, because its         *)
(* CLIENT_REQUEST is handled by one worker; between the critical sections  *)
(* of that worker the slot is in the worker's hands alone, until the node  *)
(* has been told and a report of failure may return it.                    *)
(***************************************************************************)
HoldsNothing(r) == /\ \A d \in DecodeNodes : request_to_slot[d][r] = NoSlot
                   /\ request_to_decode_node[r] = NoNode

\* Not routed yet: nothing held, nothing sent, no worker at it.
Untouched(r) ==
  /\ HoldsNothing(r)
  /\ ~Sent("ASSIGN_REQUEST", r)
  /\ \A w \in Workers : pc[w] \in InRouting => req[w] # r

FreshRequests ==
  \A r \in Requests :
    \/ Event("CLIENT_REQUEST", r) \notin produced
    \/ Event("CLIENT_REQUEST", r) \in Queued
    => Untouched(r)

\* The queue holds delivered events, each once.
QueueDistinct ==
  /\ Queued \subseteq produced
  /\ \A i, j \in 1 .. Len(event_queue) : event_queue[i] = event_queue[j] => i = j

\* A request is routed by one worker.
OneRouter ==
  \A v, w \in Workers : pc[v] \in InRouting /\ pc[w] \in InRouting /\ v # w
                          => req[v] # req[w]

BusyHasRequest == \A w \in Workers : pc[w] # "idle" => req[w] \in Requests

\* Up to "allocate" the request holds nothing; at "map" its worker alone knows
\* the slot; from "track" on the router knows it too.
View(w) ==
  /\ pc[w] \in BeforeSlot => HoldsNothing(req[w])
  /\ pc[w] = "allocate" => decode[w] \in DecodeNodes
  /\ pc[w] \in WithSlot => decode[w] \in DecodeNodes /\ slot[w] \in Slots
  /\ pc[w] \in WithSlot =>
       request_to_slot[decode[w]][req[w]] = slot[w]
  /\ pc[w] = "map" => request_to_decode_node[req[w]] = NoNode
  /\ pc[w] \in WithSlot \ {"map"} => request_to_decode_node[req[w]] = decode[w]
  /\ pc[w] \in {"prepare", "assign", "abort"} =>
       info[req[w]].decode = decode[w] /\ info[req[w]].slot = slot[w]
  /\ pc[w] = "pick_decode" => cand[w] \subseteq DecodeNodes
  /\ pc[w] \in InRouting \ Counting => ~Sent("ASSIGN_REQUEST", req[w])
  /\ pc[w] = "assign" => info[req[w]].decode \in node_fd
  /\ pc[w] \in InFailure => Event("REQUEST_FAILED", req[w]) \in produced
  /\ pc[w] \in {"forward", "forward_send"} => Sent("ASSIGN_REQUEST", req[w])

WorkerView == \A w \in Workers : View(w)

\* Nodes report on assigned requests only; those went to a node with an fd.
ReportsFollowAssign ==
  \A r \in Requests :
    /\ \A t \in EventTypes \ {"CLIENT_REQUEST"} :
         Event(t, r) \in produced => Sent("ASSIGN_REQUEST", r)
    /\ Sent("ASSIGN_REQUEST", r) => info[r].decode \in node_fd

\* The router's map names the node that the slot is on.
MapMatchesSlot ==
  \A r \in Requests, d \in DecodeNodes :
    request_to_decode_node[r] = d => request_to_slot[d][r] # NoSlot

LiveMapped ==
  \A r \in Requests : Live(r) =>
    /\ info[r].decode \in DecodeNodes
    /\ info[r].slot \in Slots
    /\ request_to_decode_node[r] = info[r].decode
    /\ request_to_slot[info[r].decode][r] = info[r].slot

IInv == /\ TypeOK /\ SlotAccounting /\ NoOrphanSlot
        /\ QueueDistinct /\ FreshRequests /\ OneRouter /\ BusyHasRequest /\ WorkerView
        /\ ReportsFollowAssign /\ MapMatchesSlot /\ LiveMapped

-----------------------------------------------------------------------------
(* The allocator's two operations *)

\* allocate_slot_for_node keeps the free list and the two maps consistent when
\* the request holds no slot on that node.
LEMMA TakeSlotKeepsAccounting ==
  ASSUME TypeOK, SlotAccounting,
         NEW d \in DecodeNodes, NEW r \in Requests,
         free_slots[d] # <<>>, request_to_slot[d][r] = NoSlot,
         TakeSlot(d, r)
  PROVE  /\ free_slots' \in [DecodeNodes -> Seq(Slots)]
         /\ request_to_slot' \in [DecodeNodes -> [Requests -> Slots \cup {NoSlot}]]
         /\ slot_to_request' \in [DecodeNodes -> [Slots -> Requests \cup {NoReq}]]
         /\ SlotAccounting'
         /\ Head(free_slots[d]) \in Slots
<1> DEFINE s == Head(free_slots[d])
           f == free_slots[d]
<1>1. f \in Seq(Slots) /\ f # <<>> /\ Len(f) \in Nat /\ Len(f) > 0
  BY DEF TypeOK
<1>2. /\ s \in Slots /\ s = f[1] /\ Tail(f) \in Seq(Slots)
      /\ Len(Tail(f)) = Len(f) - 1
      /\ \A i \in 1 .. Len(Tail(f)) : Tail(f)[i] = f[i + 1]
  BY <1>1
<1>3. slot_to_request[d][s] = NoReq
  BY <1>1, <1>2 DEF SlotAccounting, FreeListExact, IsFree
<1>4. /\ free_slots' = [free_slots EXCEPT ![d] = Tail(f)]
      /\ request_to_slot' = [request_to_slot EXCEPT ![d][r] = s]
      /\ slot_to_request' = [slot_to_request EXCEPT ![d][s] = r]
  BY DEF TakeSlot
<1>5. /\ free_slots' \in [DecodeNodes -> Seq(Slots)]
      /\ request_to_slot' \in [DecodeNodes -> [Requests -> Slots \cup {NoSlot}]]
      /\ slot_to_request' \in [DecodeNodes -> [Slots -> Requests \cup {NoReq}]]
  BY <1>2, <1>4 DEF TypeOK
<1>6. NoReq \notin Requests /\ NoSlot \notin Slots
  BY RoutingAssumption DEF NoSlot, Slots
<1>7. FreeListExact'
  <2> SUFFICES ASSUME NEW e \in DecodeNodes
               PROVE  /\ \A t \in Slots : IsFree(e, t)' <=> slot_to_request'[e][t] = NoReq
                      /\ \A i, j \in 1 .. Len(free_slots'[e]) :
                           free_slots'[e][i] = free_slots'[e][j] => i = j
    BY DEF FreeListExact
  <2>1. CASE e # d
    BY <2>1, <1>4 DEF TypeOK, SlotAccounting, FreeListExact, IsFree
  <2>2. CASE e = d
    <3>1. free_slots'[e] = Tail(f)
      BY <2>2, <1>4 DEF TypeOK
    <3>2. \A i, j \in 1 .. Len(f) : f[i] = f[j] => i = j
      BY DEF SlotAccounting, FreeListExact
    <3>3. \A i, j \in 1 .. Len(Tail(f)) : Tail(f)[i] = Tail(f)[j] => i = j
      BY <1>1, <1>2, <3>2
    <3>4. ASSUME NEW t \in Slots
          PROVE  (\E i \in 1 .. Len(Tail(f)) : Tail(f)[i] = t) <=> (t # s /\ IsFree(d, t))
      <4>1. ASSUME NEW i \in 1 .. Len(Tail(f)), Tail(f)[i] = t
            PROVE  t # s /\ IsFree(d, t)
        BY <1>1, <1>2, <3>2, <4>1 DEF IsFree
      <4>2. ASSUME t # s, NEW i \in 1 .. Len(f), f[i] = t
            PROVE  \E k \in 1 .. Len(Tail(f)) : Tail(f)[k] = t
        <5>1. i - 1 \in 1 .. Len(Tail(f)) /\ Tail(f)[i - 1] = t
          BY <1>1, <1>2, <4>2
        <5> QED BY <5>1
      <4> QED BY <4>1, <4>2 DEF IsFree
    <3>5. ASSUME NEW t \in Slots
          PROVE  slot_to_request'[e][t] = IF t = s THEN r ELSE slot_to_request[d][t]
      BY <2>2, <1>2, <1>4 DEF TypeOK
    <3>6. ASSUME NEW t \in Slots
          PROVE  IsFree(e, t)' <=> (t # s /\ IsFree(d, t))
      BY <3>1, <3>4 DEF IsFree
    <3>7. \A t \in Slots : IsFree(d, t) <=> slot_to_request[d][t] = NoReq
      BY DEF SlotAccounting, FreeListExact
    <3> QED BY <3>1, <3>3, <3>5, <3>6, <3>7, <1>6
  <2> QED BY <2>1, <2>2
<1>8. MappingsAgree'
  <2> SUFFICES ASSUME NEW e \in DecodeNodes, NEW q \in Requests, NEW t \in Slots
               PROVE  slot_to_request'[e][t] = q <=> request_to_slot'[e][q] = t
    BY DEF MappingsAgree
  <2>1. slot_to_request[e][t] = q <=> request_to_slot[e][q] = t
    BY DEF SlotAccounting, MappingsAgree
  <2> QED BY <2>1, <1>2, <1>3, <1>4, <1>6 DEF TypeOK
<1> QED BY <1>2, <1>5, <1>7, <1>8 DEF SlotAccounting

\* free_slot returns the slot the router's map leads to, and keeps the free
\* list and the two maps consistent.
LEMMA FreeSlotKeepsAccounting ==
  ASSUME TypeOK, SlotAccounting, MapMatchesSlot,
         NEW r \in Requests, FreeSlot(r)
  PROVE  /\ free_slots' \in [DecodeNodes -> Seq(Slots)]
         /\ request_to_slot' \in [DecodeNodes -> [Requests -> Slots \cup {NoSlot}]]
         /\ slot_to_request' \in [DecodeNodes -> [Slots -> Requests \cup {NoReq}]]
         /\ SlotAccounting'
         /\ request_to_decode_node' = [request_to_decode_node EXCEPT ![r] = NoNode]
         /\ request_to_decode_node[r] \in DecodeNodes =>
              request_to_slot' =
                [request_to_slot EXCEPT ![request_to_decode_node[r]][r] = NoSlot]
         /\ request_to_decode_node[r] = NoNode => UNCHANGED slotVars
<1> DEFINE d == request_to_decode_node[r]
           s == request_to_slot[d][r]
           f == free_slots[d]
<1>0. d \in DecodeNodes \cup {NoNode} /\ NoNode \notin DecodeNodes
  BY RoutingAssumption DEF TypeOK
<1>1. CASE d = NoNode
  <2>1. UNCHANGED slotVars /\ UNCHANGED request_to_decode_node
    BY <1>1 DEF FreeSlot
  <2>2. SlotAccounting'
    BY <2>1 DEF SlotAccounting, FreeListExact, MappingsAgree, IsFree, slotVars
  <2>3. request_to_decode_node' = [request_to_decode_node EXCEPT ![r] = NoNode]
    BY <1>1, <2>1 DEF TypeOK
  <2> QED BY <1>0, <1>1, <2>1, <2>2, <2>3 DEF TypeOK, slotVars
<1>2. CASE d \in DecodeNodes
  <2>1. s \in Slots /\ NoSlot \notin Slots /\ NoReq \notin Requests
    BY <1>2, RoutingAssumption DEF TypeOK, MapMatchesSlot, NoSlot, Slots
  <2>2. /\ free_slots' = [free_slots EXCEPT ![d] = Append(f, s)]
        /\ request_to_slot' = [request_to_slot EXCEPT ![d][r] = NoSlot]
        /\ slot_to_request' = [slot_to_request EXCEPT ![d][s] = NoReq]
        /\ request_to_decode_node' = [request_to_decode_node EXCEPT ![r] = NoNode]
    BY <1>0, <1>2, <2>1 DEF FreeSlot
  <2>3. f \in Seq(Slots) /\ Len(f) \in Nat
    BY <1>2 DEF TypeOK
  <2>4. /\ Append(f, s) \in Seq(Slots) /\ Len(Append(f, s)) = Len(f) + 1
        /\ \A i \in 1 .. Len(f) : Append(f, s)[i] = f[i]
        /\ Append(f, s)[Len(f) + 1] = s
    BY <2>1, <2>3
  <2>5. /\ free_slots' \in [DecodeNodes -> Seq(Slots)]
        /\ request_to_slot' \in [DecodeNodes -> [Requests -> Slots \cup {NoSlot}]]
        /\ slot_to_request' \in [DecodeNodes -> [Slots -> Requests \cup {NoReq}]]
    BY <2>1, <2>2, <2>4 DEF TypeOK
  <2>6. slot_to_request[d][s] = r
    BY <1>2, <2>1 DEF SlotAccounting, MappingsAgree
  <2>7. FreeListExact'
    <3> SUFFICES ASSUME NEW e \in DecodeNodes
                 PROVE  /\ \A t \in Slots : IsFree(e, t)' <=> slot_to_request'[e][t] = NoReq
                        /\ \A i, j \in 1 .. Len(free_slots'[e]) :
                             free_slots'[e][i] = free_slots'[e][j] => i = j
      BY DEF FreeListExact
    <3>1. CASE e # d
      BY <3>1, <2>2 DEF TypeOK, SlotAccounting, FreeListExact, IsFree
    <3>2. CASE e = d
      <4>1. free_slots'[e] = Append(f, s)
        BY <3>2, <2>2 DEF TypeOK
      <4>2. /\ \A i, j \in 1 .. Len(f) : f[i] = f[j] => i = j
            /\ \A t \in Slots : IsFree(d, t) <=> slot_to_request[d][t] = NoReq
        BY <1>2 DEF SlotAccounting, FreeListExact
      <4>3. \A i \in 1 .. Len(f) : f[i] # s
        BY <4>2, <2>1, <2>6 DEF IsFree
      <4>4. \A i, j \in 1 .. Len(Append(f, s)) :
              Append(f, s)[i] = Append(f, s)[j] => i = j
        BY <2>3, <2>4, <4>2, <4>3
      <4>5. ASSUME NEW t \in Slots
            PROVE  IsFree(e, t)' <=> (t = s \/ IsFree(d, t))
        <5>1. IsFree(e, t)' <=> \E i \in 1 .. Len(Append(f, s)) : Append(f, s)[i] = t
          BY <4>1 DEF IsFree
        <5>2. IsFree(d, t) <=> \E i \in 1 .. Len(f) : f[i] = t
          BY DEF IsFree
        <5>3. 1 .. Len(Append(f, s)) = (1 .. Len(f)) \cup {Len(f) + 1}
          BY <2>3, <2>4
        <5> QED BY <2>4, <5>1, <5>2, <5>3
      <4>6. ASSUME NEW t \in Slots
            PROVE  slot_to_request'[e][t] = IF t = s THEN NoReq ELSE slot_to_request[d][t]
        BY <3>2, <2>1, <2>2 DEF TypeOK
      <4> QED BY <4>1, <4>2, <4>4, <4>5, <4>6
    <3> QED BY <3>1, <3>2
  <2>8. MappingsAgree'
    <3> SUFFICES ASSUME NEW e \in DecodeNodes, NEW q \in Requests, NEW t \in Slots
                 PROVE  slot_to_request'[e][t] = q <=> request_to_slot'[e][q] = t
      BY DEF MappingsAgree
    <3>1. slot_to_request[e][t] = q <=> request_to_slot[e][q] = t
      BY DEF SlotAccounting, MappingsAgree
    <3> QED BY <3>1, <2>1, <2>2, <2>6 DEF TypeOK
  <2> QED BY <1>0, <1>2, <2>2, <2>5, <2>7, <2>8 DEF SlotAccounting
<1> QED BY <1>0, <1>1, <1>2

-----------------------------------------------------------------------------
(* Every step keeps the invariant *)

\* A step that leaves the allocator alone leaves its accounting alone.
LEMMA SlotsUntouched ==
  ASSUME SlotAccounting, UNCHANGED slotVars
  PROVE  SlotAccounting'
BY DEF SlotAccounting, FreeListExact, MappingsAgree, IsFree, slotVars

\* The sets of program counters, and what a step does to them, are unfolded
\* in every proof below.
USE DEF PCs, InRouting, BeforeSlot, WithSlot, Counting, InFailure,
        Goto, Finish, Send, Sent, Event

\* What stays as it is when a worker only moves on, sends a message or changes
\* a load or a status.
SharedKept ==
  /\ UNCHANGED <<registryVars, queueVars, slotVars, request_to_decode_node, info>>
  /\ \A r \in Requests : Sent("ASSIGN_REQUEST", r)' <=> Sent("ASSIGN_REQUEST", r)

OthersKept(w) ==
  \A v \in Workers \ {w} :
    /\ pc'[v] = pc[v] /\ req'[v] = req[v] /\ decode'[v] = decode[v]
    /\ slot'[v] = slot[v] /\ cand'[v] = cand[v]

\* The types to check of a step that leaves the registry, the queue, the
\* allocator, the router's map and the infos alone.
LEMMA TypeKept ==
  ASSUME TypeOK,
         UNCHANGED <<registryVars, queueVars, slotVars, request_to_decode_node, info>>,
         node_loads' \in [Nodes -> Nat], status' \in [Requests -> Statuses],
         sent' \subseteq Outputs \X Requests,
         pc' \in [Workers -> PCs], req' \in [Workers -> Requests \cup {NoReq}],
         prefill' \in [Workers -> PrefillNodes \cup {NoNode}],
         decode' \in [Workers -> DecodeNodes \cup {NoNode}],
         slot' \in [Workers -> Slots \cup {NoSlot}],
         cand' \in [Workers -> SUBSET DecodeNodes]
  PROVE  TypeOK'
BY DEF TypeOK, registryVars, queueVars, slotVars

\* A worker that touches nothing but its own locals, loads, statuses and the
\* messages other than ASSIGN_REQUEST keeps the invariant if it keeps its types
\* and its own view.
LEMMA LocalStep ==
  ASSUME IInv, NEW w \in Workers, TypeOK', View(w)', SharedKept, OthersKept(w),
         pc[w] \notin {"idle", "map"}, pc'[w] # "map",
         \/ pc'[w] = "idle"
         \/ req'[w] = req[w] /\ (pc'[w] \in InRouting => pc[w] \in InRouting)
  PROVE  IInv'
<1> USE DEF IInv, SharedKept, OthersKept, registryVars, queueVars, slotVars
<1>1. SlotAccounting'
  BY SlotsUntouched
<1>2. NoOrphanSlot'
  BY DEF NoOrphanSlot
<1>3. FreshRequests' /\ QueueDistinct'
  BY DEF FreshRequests, QueueDistinct, Queued, Untouched, HoldsNothing, BusyHasRequest
<1>4. OneRouter'
  BY DEF OneRouter
<1>5. BusyHasRequest'
  BY DEF BusyHasRequest
<1>6. WorkerView'
  <2> SUFFICES ASSUME NEW v \in Workers, v # w
               PROVE  View(v)'
    BY DEF WorkerView
  <2>1. View(v) /\ (pc[v] # "idle" => req[v] \in Requests)
    BY DEF WorkerView, BusyHasRequest
  <2> QED BY <2>1 DEF View, HoldsNothing
<1>7. ReportsFollowAssign' /\ MapMatchesSlot'
  BY DEF ReportsFollowAssign, MapMatchesSlot
<1>8. LiveMapped'
  BY DEF LiveMapped, Live
<1> QED BY <1>1, <1>2, <1>3, <1>4, <1>5, <1>6, <1>7, <1>8

\* A refused request holds nothing and leaves nothing behind.
LEMMA RefuseStep ==
  ASSUME IInv, NEW w \in Workers, pc[w] \in BeforeSlot, Refuse(w),
         UNCHANGED <<registryVars, queueVars, slotVars, request_to_decode_node,
                     node_loads, trackerVars>>
  PROVE  IInv'
<1> USE DEF IInv, Refuse, registryVars, queueVars, slotVars, trackerVars
<1>1. TypeOK'
  BY RoutingAssumption DEF TypeOK, BusyHasRequest, Outputs
<1>2. SharedKept /\ OthersKept(w)
  BY DEF SharedKept, OthersKept, TypeOK
<1>3. pc'[w] = "idle"
  BY DEF TypeOK
<1>4. View(w)'
  BY <1>3 DEF View
<1> QED BY <1>1, <1>2, <1>3, <1>4, LocalStep

\* Choosing the prefill node.
LEMMA SelectPrefillStep ==
  ASSUME IInv, NEW w \in Workers, SelectPrefill(w)
  PROVE  IInv'
<1> USE DEF IInv, registryVars, queueVars, slotVars, trackerVars
<1>1. CASE Refuse(w)
  BY <1>1, RefuseStep DEF SelectPrefill
<1>2. CASE ~Refuse(w)
  <2> USE <1>2 DEF SelectPrefill
  <2>1. PICK p \in PrefillNodes : prefill' = [prefill EXCEPT ![w] = p]
    BY DEF LeastLoaded
  <2>2. TypeOK'
    BY <2>1 DEF TypeOK
  <2>3. SharedKept /\ OthersKept(w)
    BY DEF SharedKept, OthersKept, TypeOK
  <2>4. pc'[w] = "filter_decode" /\ req'[w] = req[w]
    BY DEF TypeOK
  <2>5. HoldsNothing(req[w]) /\ ~Sent("ASSIGN_REQUEST", req[w])
    BY DEF WorkerView, View
  <2>6. View(w)'
    BY <2>4, <2>5 DEF View, HoldsNothing
  <2> QED BY <2>2, <2>3, <2>4, <2>6, LocalStep
<1> QED BY <1>1, <1>2

\* Remembering the decode nodes with a free slot.
LEMMA FilterDecodeStep ==
  ASSUME IInv, NEW w \in Workers, FilterDecode(w)
  PROVE  IInv'
<1> USE DEF IInv, registryVars, queueVars, slotVars, trackerVars
<1>1. CASE Refuse(w)
  BY <1>1, RefuseStep DEF FilterDecode
<1>2. CASE ~Refuse(w)
  <2> USE <1>2 DEF FilterDecode
  <2>1. PICK S \in SUBSET DecodeNodes : cand' = [cand EXCEPT ![w] = S]
    BY DEF WithFreeSlot
  <2>2. pc' \in [Workers -> PCs] /\ cand' \in [Workers -> SUBSET DecodeNodes]
    BY <2>1 DEF TypeOK
  <2>3. TypeOK'
    BY <2>2, TypeKept DEF TypeOK
  <2>4. SharedKept /\ OthersKept(w)
    BY <2>1 DEF SharedKept, OthersKept, TypeOK
  <2>5. pc'[w] = "pick_decode" /\ req'[w] = req[w] /\ cand'[w] \subseteq DecodeNodes
    BY <2>1 DEF TypeOK
  <2>6. HoldsNothing(req[w]) /\ ~Sent("ASSIGN_REQUEST", req[w])
    BY DEF WorkerView, View
  <2>7. View(w)'
    BY <2>5, <2>6 DEF View, HoldsNothing
  <2> QED BY <2>3, <2>4, <2>5, <2>7, LocalStep
<1> QED BY <1>1, <1>2

\* Choosing the decode node.
LEMMA PickDecodeStep ==
  ASSUME IInv, NEW w \in Workers, PickDecode(w)
  PROVE  IInv'
<1> USE DEF IInv, PickDecode, registryVars, queueVars, slotVars, trackerVars
<1>1. cand[w] \subseteq DecodeNodes
  BY DEF WorkerView, View
<1>2. PICK d \in DecodeNodes : decode' = [decode EXCEPT ![w] = d]
  BY <1>1 DEF LeastLoaded
<1>3. TypeOK'
  BY <1>2 DEF TypeOK
<1>4. SharedKept /\ OthersKept(w)
  BY <1>2 DEF SharedKept, OthersKept, TypeOK
<1>5. pc'[w] = "allocate" /\ req'[w] = req[w] /\ decode'[w] = d
  BY <1>2 DEF TypeOK
<1>6. View(w)'
  BY <1>5 DEF View, WorkerView, HoldsNothing
<1> QED BY <1>3, <1>4, <1>5, <1>6, LocalStep

\* allocate_slot_for_node for a request that holds nothing.
LEMMA TakeStep ==
  ASSUME IInv, NEW w \in Workers, pc[w] = "allocate",
         free_slots[decode[w]] # <<>>, TakeSlot(decode[w], req[w]),
         slot' = [slot EXCEPT ![w] = Head(free_slots[decode[w]])], Goto(w, "map"),
         UNCHANGED <<registryVars, queueVars, request_to_decode_node, node_loads,
                     trackerVars, sent, req, prefill, decode, cand>>
  PROVE  IInv'
<1> DEFINE d == decode[w]
           r == req[w]
           s == Head(free_slots[d])
<1> USE DEF IInv, registryVars, queueVars, trackerVars
<1>1. d \in DecodeNodes /\ r \in Requests /\ HoldsNothing(r)
  BY DEF WorkerView, View, BusyHasRequest
<1>2. /\ free_slots' \in [DecodeNodes -> Seq(Slots)]
      /\ request_to_slot' \in [DecodeNodes -> [Requests -> Slots \cup {NoSlot}]]
      /\ slot_to_request' \in [DecodeNodes -> [Slots -> Requests \cup {NoReq}]]
      /\ SlotAccounting'
      /\ s \in Slots
  BY <1>1, TakeSlotKeepsAccounting DEF HoldsNothing
<1>3. request_to_slot' = [request_to_slot EXCEPT ![d][r] = s]
  BY DEF TakeSlot
<1>4. NoSlot \notin Slots
  BY RoutingAssumption DEF NoSlot, Slots
<1>5. \A e \in DecodeNodes, q \in Requests :
        request_to_slot'[e][q] = IF e = d /\ q = r THEN s ELSE request_to_slot[e][q]
  BY <1>1, <1>3 DEF TypeOK
<1>6. TypeOK'
  BY <1>2, RoutingAssumption DEF TypeOK
<1>7. NoOrphanSlot'
  BY <1>1, <1>5 DEF NoOrphanSlot, TypeOK
<1>8. FreshRequests'
  BY <1>1, <1>5 DEF FreshRequests, Queued, TypeOK, Untouched, HoldsNothing
<1>9. OneRouter' /\ BusyHasRequest'
  BY DEF OneRouter, BusyHasRequest, TypeOK
<1>10. WorkerView'
  <2> SUFFICES ASSUME NEW v \in Workers
               PROVE  View(v)'
    BY DEF WorkerView
  <2>1. CASE v = w
    <3>1. pc'[w] = "map" /\ slot'[w] = s /\ decode'[w] = d /\ req'[w] = r
      BY DEF TypeOK
    <3>2. request_to_slot'[d][r] = s /\ request_to_decode_node'[r] = NoNode
      BY <1>1, <1>5 DEF HoldsNothing
    <3>3. ~Sent("ASSIGN_REQUEST", r)'
      BY DEF WorkerView, View
    <3> QED BY <2>1, <3>1, <3>2, <3>3, <1>1, <1>2 DEF View
  <2>2. CASE v # w
    BY <2>2, <1>1, <1>5 DEF WorkerView, View, BusyHasRequest, OneRouter, TypeOK, HoldsNothing
  <2> QED BY <2>1, <2>2
<1>11. ~Sent("ASSIGN_REQUEST", r)
  BY DEF WorkerView, View
<1>12. ReportsFollowAssign'
  BY DEF ReportsFollowAssign
<1>13. MapMatchesSlot'
  <2> SUFFICES ASSUME NEW q \in Requests, NEW e \in DecodeNodes,
                      request_to_decode_node[q] = e
               PROVE  request_to_slot'[e][q] # NoSlot
    BY DEF MapMatchesSlot
  <2>1. request_to_slot[e][q] # NoSlot
    BY DEF MapMatchesSlot
  <2> QED BY <2>1, <1>2, <1>4, <1>5
<1>14. LiveMapped'
  <2> SUFFICES ASSUME NEW q \in Requests, Live(q)
               PROVE  /\ info[q].decode \in DecodeNodes
                      /\ info[q].slot \in Slots
                      /\ request_to_decode_node[q] = info[q].decode
                      /\ request_to_slot'[info[q].decode][q] = info[q].slot
    BY DEF LiveMapped, Live
  <2>1. q # r
    BY <1>11 DEF Live
  <2> QED BY <2>1, <1>5 DEF LiveMapped
<1>15. QueueDistinct'
  BY DEF QueueDistinct, Queued
<1> QED BY <1>2, <1>6, <1>7, <1>8, <1>9, <1>10, <1>12, <1>13, <1>14, <1>15

\* Allocation keeps the invariant, whether a slot was still there or not.
LEMMA AllocateSlotStep ==
  ASSUME IInv, NEW w \in Workers, AllocateSlot(w)
  PROVE  IInv'
<1>1. CASE free_slots[decode[w]] = <<>>
  BY <1>1, RefuseStep DEF AllocateSlot
<1>2. CASE free_slots[decode[w]] # <<>>
  BY <1>2, TakeStep DEF AllocateSlot
<1> QED BY <1>1, <1>2

\* The slot becomes known to the router.
LEMMA MapRequestStep ==
  ASSUME IInv, NEW w \in Workers, MapRequest(w)
  PROVE  IInv'
<1> DEFINE d == decode[w]
           r == req[w]
<1> USE DEF IInv, MapRequest, registryVars, queueVars, slotVars, trackerVars
<1>1. /\ d \in DecodeNodes /\ r \in Requests
      /\ request_to_slot[d][r] \in Slots
      /\ request_to_decode_node[r] = NoNode
      /\ ~Sent("ASSIGN_REQUEST", r)
  BY DEF WorkerView, View, BusyHasRequest
<1>2. NoSlot \notin Slots /\ NoNode \notin DecodeNodes
  BY RoutingAssumption DEF NoSlot, Slots
<1>3. \A q \in Requests :
        request_to_decode_node'[q] = IF q = r THEN d ELSE request_to_decode_node[q]
  BY <1>1 DEF TypeOK
<1>4. TypeOK'
  BY <1>1 DEF TypeOK
<1>5. SlotAccounting'
  BY SlotsUntouched
<1>6. NoOrphanSlot'
  <2> SUFFICES ASSUME NEW e \in DecodeNodes, NEW q \in Requests,
                      request_to_slot[e][q] # NoSlot
               PROVE  \/ request_to_decode_node'[q] = e
                      \/ \E v \in Workers : pc'[v] = "map" /\ req'[v] = q /\ decode'[v] = e
    BY DEF NoOrphanSlot
  <2>1. CASE q = r
    BY <2>1, <1>1, <1>2, <1>3 DEF NoOrphanSlot, OneRouter
  <2>2. CASE q # r
    BY <2>2, <1>3 DEF NoOrphanSlot, TypeOK
  <2> QED BY <2>1, <2>2
<1>7. FreshRequests'
  BY <1>1, <1>3 DEF FreshRequests, Queued, TypeOK, Untouched, HoldsNothing
<1>8. OneRouter' /\ BusyHasRequest'
  BY DEF OneRouter, BusyHasRequest, TypeOK
<1>9. WorkerView'
  <2> SUFFICES ASSUME NEW v \in Workers
               PROVE  View(v)'
    BY DEF WorkerView
  <2>1. CASE v = w
    BY <2>1, <1>1, <1>3 DEF WorkerView, View, TypeOK, HoldsNothing
  <2>2. CASE v # w
    BY <2>2, <1>1, <1>3 DEF WorkerView, View, BusyHasRequest, OneRouter, TypeOK, HoldsNothing
  <2> QED BY <2>1, <2>2
<1>10. ReportsFollowAssign'
  BY DEF ReportsFollowAssign
<1>11. MapMatchesSlot'
  BY <1>1, <1>2, <1>3 DEF MapMatchesSlot, TypeOK
<1>12. LiveMapped'
  BY <1>1, <1>3 DEF LiveMapped, Live, TypeOK
<1>13. QueueDistinct'
  BY DEF QueueDistinct, Queued
<1> QED BY <1>4, <1>5, <1>6, <1>7, <1>8, <1>9, <1>10, <1>11, <1>12, <1>13

\* The RequestInfo names the node and the slot that the worker took.
LEMMA TrackRequestStep ==
  ASSUME IInv, NEW w \in Workers, TrackRequest(w)
  PROVE  IInv'
<1> DEFINE r == req[w]
<1> USE DEF IInv, TrackRequest, registryVars, queueVars, slotVars, trackerVars
<1>1. r \in Requests /\ ~Sent("ASSIGN_REQUEST", r) /\ View(w)
  BY DEF WorkerView, View, BusyHasRequest
<1>2. [prefill |-> prefill[w], decode |-> decode[w], slot |-> slot[w]] \in Infos
  BY DEF TypeOK, Infos
<1>3. info' = [info EXCEPT ![r] =
                 [prefill |-> prefill[w], decode |-> decode[w], slot |-> slot[w]]]
  OBVIOUS
<1>4. /\ info'[r].decode = decode[w] /\ info'[r].slot = slot[w]
      /\ \A q \in Requests : q # r => info'[q] = info[q]
  BY <1>1, <1>3 DEF TypeOK
<1>5. info' \in [Requests -> Infos] /\ status' \in [Requests -> Statuses]
  <2>1. info' \in [Requests -> Infos]
    BY <1>2, <1>3 DEF TypeOK
  <2>2. status' \in [Requests -> Statuses]
    BY DEF TypeOK, Statuses
  <2> QED BY <2>1, <2>2
<1>6. TypeOK'
  BY <1>5 DEF TypeOK
<1>7. SlotAccounting'
  BY SlotsUntouched
<1>8. NoOrphanSlot'
  BY DEF NoOrphanSlot, TypeOK
<1>9. FreshRequests' /\ QueueDistinct'
  BY DEF FreshRequests, QueueDistinct, Queued, Untouched, HoldsNothing, TypeOK
<1>10. OneRouter' /\ BusyHasRequest'
  BY DEF OneRouter, BusyHasRequest, TypeOK
<1>11. WorkerView'
  <2> SUFFICES ASSUME NEW v \in Workers
               PROVE  View(v)'
    BY DEF WorkerView
  <2>1. CASE v = w
    <3>1. pc'[v] = "prepare"
      BY <2>1 DEF TypeOK
    <3> QED BY <2>1, <3>1, <1>1, <1>4 DEF View
  <2>2. CASE v # w
    <3>1. pc'[v] = pc[v] /\ View(v) /\ (pc[v] # "idle" => req[v] \in Requests)
      BY <2>2 DEF TypeOK, WorkerView, BusyHasRequest
    <3>2. pc[v] \in InRouting => req[v] # r
      BY <2>2 DEF OneRouter
    <3> QED BY <3>1, <3>2, <1>4 DEF View, HoldsNothing
  <2> QED BY <2>1, <2>2
<1>12. ReportsFollowAssign' /\ MapMatchesSlot'
  BY <1>1, <1>4 DEF ReportsFollowAssign, MapMatchesSlot
<1>13. LiveMapped'
  BY <1>1, <1>4 DEF LiveMapped, Live
<1> QED BY <1>6, <1>7, <1>8, <1>9, <1>10, <1>11, <1>12, <1>13

\* PREPARE_DECODE_SLOT goes out, or the decode node has no fd.
LEMMA SendPrepareStep ==
  ASSUME IInv, NEW w \in Workers, SendPrepare(w)
  PROVE  IInv'
<1> USE DEF IInv, SendPrepare, SendTo, registryVars, queueVars, slotVars, trackerVars
<1>1. req[w] \in Requests /\ View(w)
  BY DEF WorkerView, BusyHasRequest
<1>2. sent' \subseteq Outputs \X Requests
  BY <1>1 DEF TypeOK, Outputs
<1>3. TypeOK'
  BY <1>2 DEF TypeOK
<1>4. SharedKept /\ OthersKept(w)
  BY DEF SharedKept, OthersKept, TypeOK
<1>5. \/ pc'[w] = "assign" /\ decode[w] \in node_fd
      \/ pc'[w] = "abort"
  BY DEF TypeOK
<1>6. View(w)'
  BY <1>1, <1>5 DEF View
<1> QED BY <1>3, <1>4, <1>5, <1>6, LocalStep

\* Once ASSIGN_REQUEST has gone out the nodes may report on the request: from
\* here on what the router recorded must be what the request was promised.
LEMMA SendAssignStep ==
  ASSUME IInv, NEW w \in Workers, SendAssign(w)
  PROVE  IInv'
<1> DEFINE r == req[w]
<1> USE DEF IInv, SendAssign, SendTo, registryVars, queueVars, slotVars, trackerVars
<1>1. r \in Requests /\ View(w)
  BY DEF WorkerView, BusyHasRequest
<1>2. sent' \subseteq Outputs \X Requests
  BY <1>1 DEF TypeOK, Outputs
<1>3. TypeOK'
  BY <1>2 DEF TypeOK
<1>4. CASE prefill[w] \notin node_fd
  <2>1. SharedKept /\ OthersKept(w)
    BY <1>4 DEF SharedKept, OthersKept, TypeOK
  <2>2. pc'[w] = "abort"
    BY <1>4 DEF TypeOK
  <2>3. View(w)'
    BY <1>1, <1>4, <2>2 DEF View
  <2> QED BY <1>3, <2>1, <2>2, <2>3, LocalStep
<1>5. CASE prefill[w] \in node_fd
  <2>1. \A m \in Outputs, q \in Requests :
          <<m, q>> \in sent' <=> <<m, q>> \in sent \/ (m = "ASSIGN_REQUEST" /\ q = r)
    BY <1>5
  <2>2. \A q \in Requests :
          Sent("ASSIGN_REQUEST", q)' <=> Sent("ASSIGN_REQUEST", q) \/ q = r
    BY <2>1 DEF Outputs
  <2>3. OthersKept(w) /\ pc'[w] = "count_prefill"
    BY <1>5 DEF OthersKept, TypeOK
  <2>4. SlotAccounting'
    BY SlotsUntouched
  <2>5. NoOrphanSlot'
    BY <2>3 DEF NoOrphanSlot, OthersKept
  <2>6. FreshRequests' /\ QueueDistinct'
    BY <2>2, <2>3
    DEF FreshRequests, QueueDistinct, Queued, Untouched, HoldsNothing, OthersKept
  <2>7. OneRouter' /\ BusyHasRequest'
    BY <2>3 DEF OneRouter, BusyHasRequest, OthersKept
  <2>8. WorkerView'
    <3> SUFFICES ASSUME NEW v \in Workers
                 PROVE  View(v)'
      BY DEF WorkerView
    <3>1. CASE v = w
      BY <2>3, <3>1 DEF View
    <3>2. CASE v # w
      <4>1. pc'[v] = pc[v] /\ View(v) /\ (pc[v] # "idle" => req[v] \in Requests)
        BY <2>3, <3>2 DEF OthersKept, WorkerView, BusyHasRequest
      <4>2. pc[v] \in InRouting => req[v] # r
        BY <3>2 DEF OneRouter
      <4> QED BY <2>2, <4>1, <4>2 DEF View, HoldsNothing
    <3> QED BY <3>1, <3>2
  <2>9. ReportsFollowAssign' /\ MapMatchesSlot'
    BY <1>1, <2>2 DEF ReportsFollowAssign, MapMatchesSlot, View
  <2>10. LiveMapped'
    BY <1>1, <2>2 DEF LiveMapped, Live, View
  <2> QED BY <1>3, <2>4, <2>5, <2>6, <2>7, <2>8, <2>9, <2>10
<1> QED BY <1>4, <1>5

\* free_slot for a request that is not live: by its own worker, which gave up
\* on it, or because it was reported as failed.
LEMMA ReleaseStep ==
  ASSUME IInv, NEW w \in Workers, FreeSlot(req[w]), OthersKept(w), TypeOK',
         UNCHANGED <<registryVars, queueVars, trackerVars, sent>>,
         \/ pc[w] = "abort" /\ pc'[w] = "idle"
         \/ pc[w] = "fail_free" /\ pc'[w] = "fail_dec_prefill" /\ req'[w] = req[w]
  PROVE  IInv'
<1> DEFINE r == req[w]
           d == request_to_decode_node[r]
<1> USE DEF IInv, registryVars, queueVars, trackerVars
<1>1. r \in Requests /\ View(w)
  BY DEF WorkerView, BusyHasRequest
<1>2. /\ SlotAccounting'
      /\ request_to_decode_node' = [request_to_decode_node EXCEPT ![r] = NoNode]
      /\ d \in DecodeNodes =>
           request_to_slot' = [request_to_slot EXCEPT ![d][r] = NoSlot]
      /\ d = NoNode => UNCHANGED slotVars
  BY <1>1, FreeSlotKeepsAccounting
<1>3. d \in DecodeNodes \cup {NoNode} /\ NoNode \notin DecodeNodes
  BY <1>1, RoutingAssumption DEF TypeOK
<1>4. \A q \in Requests :
        request_to_decode_node'[q] = IF q = r THEN NoNode ELSE request_to_decode_node[q]
  BY <1>1, <1>2 DEF TypeOK
<1>5. \A e \in DecodeNodes, q \in Requests :
        request_to_slot'[e][q] =
          IF e = d /\ q = r THEN NoSlot ELSE request_to_slot[e][q]
  BY <1>1, <1>2, <1>3 DEF TypeOK, slotVars
<1>6. ~Live(r)
  BY <1>1 DEF View, Live
<1>7. \A v \in Workers : v # w /\ pc[v] \in InRouting \ Counting => req[v] # r
  <2>1. CASE pc[w] = "abort"
    BY <2>1 DEF OneRouter
  <2>2. CASE pc[w] = "fail_free"
    <3>1. Sent("ASSIGN_REQUEST", r)
      BY <1>1, <2>2 DEF View, ReportsFollowAssign, EventTypes
    <3> QED BY <3>1 DEF WorkerView, View
  <2> QED BY <2>1, <2>2
<1>8. NoOrphanSlot'
  <2> SUFFICES ASSUME NEW e \in DecodeNodes, NEW q \in Requests,
                      request_to_slot'[e][q] # NoSlot
               PROVE  \/ request_to_decode_node'[q] = e
                      \/ \E v \in Workers : pc'[v] = "map" /\ req'[v] = q /\ decode'[v] = e
    BY DEF NoOrphanSlot
  <2>1. \/ request_to_decode_node[q] = e
        \/ \E v \in Workers : v # w /\ pc[v] = "map" /\ req[v] = q /\ decode[v] = e
    BY <1>5 DEF NoOrphanSlot
  <2> QED BY <2>1, <1>4, <1>5, <1>7 DEF OthersKept
<1>9. FreshRequests' /\ QueueDistinct'
  BY <1>1, <1>3, <1>4, <1>5
  DEF FreshRequests, QueueDistinct, Queued, Untouched, HoldsNothing, OthersKept
<1>10. OneRouter' /\ BusyHasRequest'
  BY DEF OneRouter, BusyHasRequest, OthersKept
<1>11. WorkerView'
  <2> SUFFICES ASSUME NEW v \in Workers
               PROVE  View(v)'
    BY DEF WorkerView
  <2>1. CASE v = w
    BY <2>1, <1>1 DEF View
  <2>2. CASE v # w
    <3>1. View(v) /\ (pc[v] # "idle" => req[v] \in Requests)
      BY DEF WorkerView, BusyHasRequest
    <3>2. pc[v] \in InRouting \ Counting => req[v] # r
      BY <1>7, <2>2
    <3> QED BY <2>2, <3>1, <3>2, <1>4, <1>5 DEF View, HoldsNothing, OthersKept
  <2> QED BY <2>1, <2>2
<1>12. ReportsFollowAssign'
  BY DEF ReportsFollowAssign
<1>13. MapMatchesSlot'
  BY <1>3, <1>4, <1>5 DEF MapMatchesSlot
<1>14. LiveMapped'
  BY <1>4, <1>5, <1>6 DEF LiveMapped, Live
<1> QED BY <1>2, <1>8, <1>9, <1>10, <1>11, <1>12, <1>13, <1>14

\* An error exit of handle_client_request frees the slot of a request that no
\* node was told to write for.
LEMMA AbortRoutingStep ==
  ASSUME IInv, NEW w \in Workers, AbortRouting(w)
  PROVE  IInv'
<1> USE DEF IInv, AbortRouting, registryVars, queueVars, trackerVars
<1>1. req[w] \in Requests
  BY DEF BusyHasRequest
<1>2. OthersKept(w) /\ pc'[w] = "idle"
  BY DEF OthersKept, TypeOK
<1>3. /\ free_slots' \in [DecodeNodes -> Seq(Slots)]
      /\ request_to_slot' \in [DecodeNodes -> [Requests -> Slots \cup {NoSlot}]]
      /\ slot_to_request' \in [DecodeNodes -> [Slots -> Requests \cup {NoReq}]]
      /\ request_to_decode_node' = [request_to_decode_node EXCEPT ![req[w]] = NoNode]
  BY <1>1, FreeSlotKeepsAccounting
<1>4. request_to_decode_node' \in [Requests -> DecodeNodes \cup {NoNode}]
  BY <1>3 DEF TypeOK
<1>5. TypeOK'
  BY <1>3, <1>4 DEF TypeOK
<1> QED BY <1>2, <1>5, ReleaseStep

\* handle_request_failed frees the slot of a request that is no longer live.
LEMMA FailFreeStep ==
  ASSUME IInv, NEW w \in Workers, FailFree(w)
  PROVE  IInv'
<1> USE DEF IInv, FailFree, registryVars, queueVars, trackerVars
<1>1. req[w] \in Requests
  BY DEF BusyHasRequest
<1>2. OthersKept(w) /\ pc'[w] = "fail_dec_prefill"
  BY DEF OthersKept, TypeOK
<1>3. /\ free_slots' \in [DecodeNodes -> Seq(Slots)]
      /\ request_to_slot' \in [DecodeNodes -> [Requests -> Slots \cup {NoSlot}]]
      /\ slot_to_request' \in [DecodeNodes -> [Slots -> Requests \cup {NoReq}]]
      /\ request_to_decode_node' = [request_to_decode_node EXCEPT ![req[w]] = NoNode]
  BY <1>1, FreeSlotKeepsAccounting
<1>4. request_to_decode_node' \in [Requests -> DecodeNodes \cup {NoNode}]
  BY <1>3 DEF TypeOK
<1>5. TypeOK'
  BY <1>3, <1>4 DEF TypeOK
<1> QED BY <1>2, <1>5, ReleaseStep

\* increment_node_load and decrement_node_load keep loads natural numbers.
LEMMA LoadsStayNatural ==
  ASSUME TypeOK, NEW n, IncrementLoad(n) \/ DecrementLoad(n)
  PROVE  node_loads' \in [Nodes -> Nat]
<1>1. node_loads \in [Nodes -> Nat]
  BY DEF TypeOK
<1>2. CASE IncrementLoad(n)
  <2>1. node_loads' = [node_loads EXCEPT ![n] = node_loads[n] + 1]
    BY <1>2 DEF IncrementLoad
  <2>2. \A m \in Nodes : node_loads'[m] \in Nat
    BY <1>1, <2>1
  <2> QED BY <1>1, <2>1, <2>2
<1>3. CASE DecrementLoad(n)
  <2>1. node_loads' = [node_loads EXCEPT ![n] =
                         IF node_loads[n] > 0 THEN node_loads[n] - 1 ELSE node_loads[n]]
    BY <1>3 DEF DecrementLoad
  <2>2. \A m \in Nodes : node_loads'[m] \in Nat
    BY <1>1, <2>1
  <2> QED BY <1>1, <2>1, <2>2
<1> QED BY <1>2, <1>3

\* Counting the request on its two nodes.
LEMMA CountingStep ==
  ASSUME IInv, NEW w \in Workers, CountPrefill(w) \/ CountDecode(w)
  PROVE  IInv'
<1> USE DEF IInv, CountPrefill, CountDecode, registryVars, queueVars, slotVars, trackerVars
<1>1. node_loads' \in [Nodes -> Nat]
  BY LoadsStayNatural
<1>2. TypeOK'
  BY <1>1 DEF TypeOK
<1>3. SharedKept /\ OthersKept(w)
  BY DEF SharedKept, OthersKept, TypeOK
<1>4. pc'[w] = "idle" \/ (pc'[w] = "count_decode" /\ req'[w] = req[w])
  BY DEF TypeOK
<1>5. View(w)'
  BY <1>4 DEF View
<1> QED BY <1>2, <1>3, <1>4, <1>5, LocalStep

\* PREFILL_COMPLETE: the decode node of a request that was assigned has an fd.
LEMMA ForwardingStep ==
  ASSUME IInv, NEW w \in Workers, Forwarding(w)
  PROVE  IInv'
<1> USE DEF IInv, Forwarding, ForwardPrefill, ForwardToDecode, SetStatus,
            registryVars, queueVars, slotVars, trackerVars
<1>1. req[w] \in Requests /\ Sent("ASSIGN_REQUEST", req[w])
  BY DEF WorkerView, View, BusyHasRequest
<1>2. info[req[w]].decode \in node_fd
  BY <1>1 DEF ReportsFollowAssign
<1>3. sent' \subseteq Outputs \X Requests /\ status' \in [Requests -> Statuses]
  BY <1>1 DEF TypeOK, Outputs, Statuses
<1>4. \/ Finish(w)
      \/ Goto(w, "forward_send") /\ UNCHANGED <<req, prefill, decode, slot, cand>>
  BY <1>2
<1>5. /\ pc' \in [Workers -> PCs] /\ req' \in [Workers -> Requests \cup {NoReq}]
      /\ prefill' \in [Workers -> PrefillNodes \cup {NoNode}]
      /\ decode' \in [Workers -> DecodeNodes \cup {NoNode}]
      /\ slot' \in [Workers -> Slots \cup {NoSlot}]
      /\ cand' \in [Workers -> SUBSET DecodeNodes]
  BY <1>4 DEF TypeOK
<1>6. TypeOK'
  BY <1>2, <1>3, <1>5, TypeKept DEF TypeOK
<1>7. SharedKept /\ OthersKept(w)
  BY <1>2 DEF SharedKept, OthersKept, TypeOK
<1>8. pc'[w] = "idle" \/ (pc'[w] = "forward_send" /\ req'[w] = req[w])
  BY <1>2 DEF TypeOK
<1>9. View(w)'
  BY <1>1, <1>7, <1>8 DEF View, SharedKept
<1> QED BY <1>6, <1>7, <1>8, <1>9, LocalStep

\* The failure path, but for free_slot.
LEMMA FailingStep ==
  ASSUME IInv, NEW w \in Workers, Failing(w)
  PROVE  IInv'
<1>1. CASE FailFree(w)
  BY <1>1, FailFreeStep
<1>2. CASE ~FailFree(w)
  <2> USE <1>2 DEF IInv, Failing, FailStatus, FailUncountPrefill, FailUncountDecode,
                   FailReply, registryVars, queueVars, slotVars, trackerVars
  <2>1. req[w] \in Requests /\ Event("REQUEST_FAILED", req[w]) \in produced
    BY DEF WorkerView, View, BusyHasRequest
  <2>2. node_loads' \in [Nodes -> Nat]
    BY LoadsStayNatural DEF TypeOK
  <2>3. sent' \subseteq Outputs \X Requests
    BY <2>1 DEF TypeOK, Outputs
  <2>4. status' \in [Requests -> Statuses]
    BY DEF TypeOK, Statuses, SetStatus
  <2>5. TypeOK'
    BY <2>2, <2>3, <2>4 DEF TypeOK
  <2>6. SharedKept /\ OthersKept(w)
    BY DEF SharedKept, OthersKept, TypeOK
  <2>7. pc'[w] = "idle" \/ (pc'[w] \in InFailure /\ req'[w] = req[w])
    BY DEF TypeOK
  <2>8. View(w)'
    BY <2>1, <2>7 DEF View
  <2> QED BY <2>5, <2>6, <2>7, <2>8, LocalStep
<1> QED BY <1>1, <1>2

-----------------------------------------------------------------------------
(* The queue and the environment *)

\* wait_and_pop removes the oldest event and no other.
LEMMA PopQueue ==
  ASSUME event_queue \in Seq(Events), QueueDistinct, event_queue # <<>>,
         event_queue' = Tail(event_queue), produced' = produced
  PROVE  /\ event_queue' \in Seq(Events)
         /\ Head(event_queue) \in Events /\ Head(event_queue) \in Queued
         /\ Queued' = Queued \ {Head(event_queue)}
         /\ QueueDistinct'
<1> DEFINE q == event_queue
<1>1. /\ Len(q) \in Nat /\ Len(q) > 0 /\ Head(q) = q[1] /\ q[1] \in Events
      /\ Tail(q) \in Seq(Events) /\ Len(Tail(q)) = Len(q) - 1
      /\ \A i \in 1 .. Len(Tail(q)) : Tail(q)[i] = q[i + 1]
  OBVIOUS
<1>2. Head(q) \in Queued
  BY <1>1 DEF Queued
<1>3. Queued' = Queued \ {Head(q)}
  <2>1. ASSUME NEW i \in 1 .. Len(Tail(q))
        PROVE  Tail(q)[i] \in Queued \ {Head(q)}
    BY <1>1 DEF Queued, QueueDistinct
  <2>2. ASSUME NEW i \in 1 .. Len(q), q[i] # Head(q)
        PROVE  \E k \in 1 .. Len(Tail(q)) : Tail(q)[k] = q[i]
    <3>1. i - 1 \in 1 .. Len(Tail(q)) /\ Tail(q)[i - 1] = q[i]
      BY <1>1, <2>2
    <3> QED BY <3>1
  <2>3. Queued' = {Tail(q)[i] : i \in 1 .. Len(Tail(q))}
    BY DEF Queued
  <2>4. Queued' \subseteq Queued \ {Head(q)}
    BY <2>1, <2>3
  <2>5. ASSUME NEW e \in Queued, e # Head(q)
        PROVE  e \in Queued'
    <3>1. PICK i \in 1 .. Len(q) : q[i] = e
      BY DEF Queued
    <3> QED BY <2>2, <2>3, <2>5, <3>1
  <2> QED BY <2>4, <2>5
<1>4. \A i, j \in 1 .. Len(Tail(q)) : Tail(q)[i] = Tail(q)[j] => i = j
  BY <1>1 DEF QueueDistinct
<1>5. QueueDistinct'
  BY <1>3, <1>4 DEF QueueDistinct
<1> QED BY <1>1, <1>2, <1>3, <1>5

\* push appends a new event or drops it.
LEMMA PushQueue ==
  ASSUME event_queue \in Seq(Events), QueueDistinct, NEW e \in Events,
         e \notin produced, Push(e)
  PROVE  /\ event_queue' \in Seq(Events)
         /\ Queued' \subseteq Queued \cup {e}
         /\ QueueDistinct'
<1> DEFINE q == event_queue
<1>1. CASE event_queue' = event_queue
  BY <1>1 DEF Push, QueueDistinct, Queued
<1>2. CASE event_queue' = Append(q, e)
  <2>1. /\ Len(q) \in Nat /\ Append(q, e) \in Seq(Events)
        /\ Len(Append(q, e)) = Len(q) + 1
        /\ \A i \in 1 .. Len(q) : Append(q, e)[i] = q[i]
        /\ Append(q, e)[Len(q) + 1] = e
    OBVIOUS
  <2>2. 1 .. Len(Append(q, e)) = (1 .. Len(q)) \cup {Len(q) + 1}
    BY <2>1
  <2>3. Queued' = Queued \cup {e}
    BY <1>2, <2>1, <2>2 DEF Queued
  <2>4. \A i \in 1 .. Len(q) : q[i] # e
    BY DEF QueueDistinct, Queued
  <2>5. \A i, j \in 1 .. Len(Append(q, e)) : Append(q, e)[i] = Append(q, e)[j] => i = j
    BY <2>1, <2>2, <2>4 DEF QueueDistinct
  <2>6. produced' = produced \cup {e}
    BY DEF Push
  <2> QED BY <1>2, <2>1, <2>3, <2>5, <2>6 DEF QueueDistinct
<1> QED BY <1>1, <1>2 DEF Push

\* A worker takes the oldest event.  A CLIENT_REQUEST leaves the queue for good,
\* so no second worker will route it.
LEMMA ProcessEventStep ==
  ASSUME IInv, NEW w \in Workers, ProcessEvent(w)
  PROVE  IInv'
<1> DEFINE e == Head(event_queue)
           r == e.req
<1> USE DEF IInv, ProcessEvent, registryVars, slotVars, trackerVars
<1>1. /\ event_queue' \in Seq(Events) /\ e \in Events /\ e \in Queued
      /\ Queued' = Queued \ {e} /\ QueueDistinct'
  BY PopQueue DEF TypeOK
<1>2. /\ r \in Requests /\ e.type \in EventTypes /\ e = Event(e.type, r)
      /\ e \in produced
  BY <1>1 DEF Events, QueueDistinct
<1>3. FirstStep(e.type) \in {"select_prefill", "forward", "fail_status", "idle"}
  BY DEF FirstStep
<1>4. /\ pc'[w] = FirstStep(e.type)
      /\ req'[w] = IF FirstStep(e.type) = "idle" THEN NoReq ELSE r
      /\ \A v \in Workers : v # w => pc'[v] = pc[v] /\ req'[v] = req[v]
  BY DEF TypeOK
<1>5. pc' \in [Workers -> PCs] /\ req' \in [Workers -> Requests \cup {NoReq}]
  BY <1>2, <1>3 DEF TypeOK
<1>6. TypeOK'
  BY <1>1, <1>5 DEF TypeOK
<1>7. SlotAccounting'
  BY SlotsUntouched
<1>8. NoOrphanSlot'
  BY <1>4 DEF NoOrphanSlot
<1>9. FirstStep(e.type) = "select_prefill" =>
        e = Event("CLIENT_REQUEST", r) /\ Untouched(r)
  BY <1>1, <1>2 DEF FirstStep, EventTypes, FreshRequests
<1>10. FreshRequests'
  <2> SUFFICES ASSUME NEW q \in Requests,
                      \/ Event("CLIENT_REQUEST", q) \notin produced
                      \/ Event("CLIENT_REQUEST", q) \in Queued \ {e}
               PROVE  Untouched(q)'
    BY <1>1 DEF FreshRequests
  <2>1. Untouched(q)
    BY DEF FreshRequests
  <2>2. pc'[w] \in InRouting => r # q
    BY <1>2, <1>3, <1>4, <1>9
  <2> QED BY <2>1, <2>2, <1>3, <1>4 DEF Untouched, HoldsNothing
<1>11. OneRouter' /\ BusyHasRequest'
  BY <1>2, <1>3, <1>4, <1>9 DEF OneRouter, BusyHasRequest, Untouched
<1>12. WorkerView'
  <2> SUFFICES ASSUME NEW v \in Workers
               PROVE  View(v)'
    BY DEF WorkerView
  <2>1. CASE v # w
    <3>1. View(v) /\ pc'[v] = pc[v] /\ req'[v] = req[v]
      BY <1>4, <2>1 DEF WorkerView
    <3> QED BY <3>1 DEF View, HoldsNothing
  <2>2. CASE v = w /\ pc'[w] = "select_prefill"
    BY <2>2, <1>4, <1>9 DEF View, HoldsNothing, Untouched
  <2>3. CASE v = w /\ pc'[w] = "forward"
    <3>1. e.type = "PREFILL_COMPLETE_ORCHESTRATOR"
      BY <1>2, <1>4, <2>3 DEF FirstStep, EventTypes
    <3>2. Sent("ASSIGN_REQUEST", r)
      BY <1>2, <3>1 DEF ReportsFollowAssign, EventTypes
    <3> QED BY <2>3, <3>2, <1>4 DEF View
  <2>4. CASE v = w /\ pc'[w] = "fail_status"
    <3>1. e.type = "REQUEST_FAILED"
      BY <1>2, <1>4, <2>4 DEF FirstStep, EventTypes
    <3> QED BY <2>4, <3>1, <1>2, <1>4 DEF View
  <2>5. CASE v = w /\ pc'[w] = "idle"
    BY <2>5 DEF View
  <2> QED BY <2>1, <2>2, <2>3, <2>4, <2>5, <1>3, <1>4
<1>13. ReportsFollowAssign' /\ MapMatchesSlot'
  BY DEF ReportsFollowAssign, MapMatchesSlot
<1>14. LiveMapped'
  BY DEF LiveMapped, Live
<1> QED BY <1>1, <1>6, <1>7, <1>8, <1>10, <1>11, <1>12, <1>13, <1>14

\* A message of a client or of a node that was assigned the request.
LEMMA DeliveryStep ==
  ASSUME IInv, NEW e \in Events, e \notin produced, Push(e),
         e.type # "CLIENT_REQUEST" => Sent("ASSIGN_REQUEST", e.req)
  PROVE  IInv'
<1> USE DEF IInv, registryVars, slotVars, trackerVars, localVars
<1>1. event_queue' \in Seq(Events) /\ Queued' \subseteq Queued \cup {e} /\ QueueDistinct'
  BY PushQueue DEF TypeOK
<1>2. /\ produced' = produced \cup {e}
      /\ UNCHANGED <<registryVars, slotVars, request_to_decode_node, node_loads,
                     trackerVars, sent, localVars>>
  BY DEF Push
<1>3. TypeOK'
  BY <1>1, <1>2 DEF TypeOK
<1>4. SlotAccounting'
  BY <1>2, SlotsUntouched
<1>5. NoOrphanSlot' /\ OneRouter' /\ BusyHasRequest' /\ MapMatchesSlot'
  BY <1>2 DEF NoOrphanSlot, OneRouter, BusyHasRequest, MapMatchesSlot
<1>6. FreshRequests'
  <2> SUFFICES ASSUME NEW q \in Requests,
                      \/ Event("CLIENT_REQUEST", q) \notin produced'
                      \/ Event("CLIENT_REQUEST", q) \in Queued'
               PROVE  Untouched(q)'
    BY DEF FreshRequests
  <2>1. Untouched(q)
    BY <1>1, <1>2 DEF FreshRequests
  <2> QED BY <1>2, <2>1 DEF Untouched, HoldsNothing
<1>7. WorkerView'
  <2> SUFFICES ASSUME NEW v \in Workers
               PROVE  View(v)'
    BY DEF WorkerView
  <2>1. View(v)
    BY DEF WorkerView
  <2> QED BY <1>2, <2>1 DEF View, HoldsNothing
<1>8. ReportsFollowAssign'
  <2>1. \A t \in EventTypes \ {"CLIENT_REQUEST"}, r \in Requests :
          Event(t, r) \in produced' => Sent("ASSIGN_REQUEST", r)
    <3> SUFFICES ASSUME NEW t \in EventTypes \ {"CLIENT_REQUEST"}, NEW r \in Requests,
                        Event(t, r) \in produced'
                 PROVE  Sent("ASSIGN_REQUEST", r)
      OBVIOUS
    <3>1. CASE Event(t, r) \in produced
      BY <3>1 DEF ReportsFollowAssign
    <3>2. CASE Event(t, r) = e
      <4>1. e.type = t /\ e.req = r
        BY <3>2
      <4> QED BY <4>1
    <3> QED BY <3>1, <3>2, <1>2
  <2>2. \A r \in Requests : Sent("ASSIGN_REQUEST", r) => info[r].decode \in node_fd
    BY DEF ReportsFollowAssign
  <2> QED BY <1>2, <2>1, <2>2 DEF ReportsFollowAssign
<1>9. LiveMapped'
  BY <1>2 DEF LiveMapped, Live
<1> QED BY <1>1, <1>3, <1>4, <1>5, <1>6, <1>7, <1>8, <1>9

\* Registrations only add to what a node is known by.
LEMMA RegistrationStep ==
  ASSUME IInv, registered' \subseteq Nodes, healthy' \subseteq registered',
         node_fd \subseteq node_fd', node_fd' \subseteq registered',
         UNCHANGED <<queueVars, slotVars, request_to_decode_node, node_loads,
                     trackerVars, sent, localVars>>
  PROVE  IInv'
<1> USE DEF IInv, queueVars, slotVars, trackerVars, localVars
<1>1. TypeOK'
  BY DEF TypeOK
<1>2. SlotAccounting'
  BY SlotsUntouched
<1>3. NoOrphanSlot' /\ OneRouter' /\ BusyHasRequest' /\ MapMatchesSlot'
  BY DEF NoOrphanSlot, OneRouter, BusyHasRequest, MapMatchesSlot
<1>4. FreshRequests' /\ QueueDistinct'
  BY DEF FreshRequests, QueueDistinct, Queued, Untouched, HoldsNothing
<1>5. WorkerView'
  <2> SUFFICES ASSUME NEW v \in Workers
               PROVE  View(v)'
    BY DEF WorkerView
  <2>1. View(v)
    BY DEF WorkerView
  <2> QED BY <2>1 DEF View, HoldsNothing
<1>6. ReportsFollowAssign'
  BY DEF ReportsFollowAssign
<1>7. LiveMapped'
  BY DEF LiveMapped, Live
<1> QED BY <1>1, <1>2, <1>3, <1>4, <1>5, <1>6, <1>7

\* Registrations and arriving messages keep the invariant.
LEMMA EnvironmentStep ==
  ASSUME IInv, Environment
  PROVE  IInv'
<1>1. ASSUME NEW n \in Nodes, AddNode(n)
      PROVE  IInv'
  BY <1>1, RegistrationStep DEF AddNode, IInv, TypeOK
<1>2. ASSUME NEW n \in Nodes, AddNodeFd(n)
      PROVE  IInv'
  BY <1>2, RegistrationStep DEF AddNodeFd, IInv, TypeOK
<1>3. ASSUME NEW n \in Nodes, NEW h \in HealthUpdates, UpdateNodeHealth(n, h)
      PROVE  IInv'
  BY <1>3, RegistrationStep DEF UpdateNodeHealth, IInv, TypeOK
<1>4. ASSUME NEW r \in Requests, ClientSubmits(r)
      PROVE  IInv'
  <2>1. Event("CLIENT_REQUEST", r) \in Events
    BY DEF Events, EventTypes
  <2> QED BY <1>4, <2>1, DeliveryStep DEF ClientSubmits
<1>5. ASSUME NEW t \in EventTypes, NEW r \in Requests, NodeReports(t, r)
      PROVE  IInv'
  <2>1. Event(t, r) \in Events
    BY DEF Events
  <2> QED BY <1>5, <2>1, DeliveryStep DEF NodeReports
<1> QED BY <1>1, <1>2, <1>3, <1>4, <1>5 DEF Environment

-----------------------------------------------------------------------------
(* The theorems *)

\* The invariant holds of an orchestrator that has just started.
LEMMA InitEstablishes == Init => IInv
<1> SUFFICES ASSUME Init
             PROVE  IInv
  OBVIOUS
<1> USE DEF Init
<1>1. MaxSlots \in Nat /\ NoReq \notin Requests /\ NoNode \notin DecodeNodes
      /\ NoSlot \notin Slots
  BY RoutingAssumption DEF NoSlot, Slots
<1>2. [i \in 1 .. MaxSlots |-> i - 1] \in Seq(Slots)
  <2>1. [i \in 1 .. MaxSlots |-> i - 1] \in [1 .. MaxSlots -> Slots]
    BY <1>1 DEF Slots
  <2> QED BY <1>1, <2>1
<1>3. free_slots \in [DecodeNodes -> Seq(Slots)]
  BY <1>2
<1>4. <<>> \in Seq(Events) /\ Queued = {}
  BY DEF Queued
<1>5. TypeOK
  BY <1>3, <1>4, RoutingAssumption
  DEF TypeOK, Statuses, Infos, NoInfo, Slots, NoSlot
<1>6. FreeListExact
  <2> SUFFICES ASSUME NEW d \in DecodeNodes
               PROVE  /\ \A s \in Slots : IsFree(d, s) <=> slot_to_request[d][s] = NoReq
                      /\ \A i, j \in 1 .. Len(free_slots[d]) :
                           free_slots[d][i] = free_slots[d][j] => i = j
    BY DEF FreeListExact
  <2>1. free_slots[d] = [i \in 1 .. MaxSlots |-> i - 1] /\ Len(free_slots[d]) = MaxSlots
    BY <1>1
  <2>2. \A s \in Slots : s + 1 \in 1 .. MaxSlots /\ free_slots[d][s + 1] = s
    BY <1>1, <2>1 DEF Slots
  <2>3. \A s \in Slots : IsFree(d, s) /\ slot_to_request[d][s] = NoReq
    BY <2>1, <2>2 DEF IsFree
  <2> QED BY <1>1, <2>1, <2>3
<1>7. MappingsAgree
  BY <1>1 DEF MappingsAgree
<1>8. NoOrphanSlot /\ OneRouter /\ BusyHasRequest /\ WorkerView
  BY DEF NoOrphanSlot, OneRouter, BusyHasRequest, WorkerView, View
<1>9. FreshRequests /\ QueueDistinct
  BY <1>4 DEF FreshRequests, QueueDistinct, Untouched, HoldsNothing
<1>10. ReportsFollowAssign /\ MapMatchesSlot /\ LiveMapped
  BY <1>1 DEF ReportsFollowAssign, MapMatchesSlot, LiveMapped, Live
<1> QED BY <1>5, <1>6, <1>7, <1>8, <1>9, <1>10 DEF IInv, SlotAccounting

\* Every step of every worker and of the environment keeps it.
LEMMA NextKeeps == IInv /\ [Next]_vars => IInv'
<1> SUFFICES ASSUME IInv, [Next]_vars
             PROVE  IInv'
  OBVIOUS
<1>1. CASE Environment
  BY <1>1, EnvironmentStep
<1>2. ASSUME NEW w \in Workers, ProcessEvent(w)
      PROVE  IInv'
  BY <1>2, ProcessEventStep
<1>3. ASSUME NEW w \in Workers, Handle(w)
      PROVE  IInv'
  <2>1. CASE Routing(w)
    BY <2>1, SelectPrefillStep, FilterDecodeStep, PickDecodeStep, AllocateSlotStep,
       MapRequestStep, TrackRequestStep, SendPrepareStep, SendAssignStep,
       AbortRoutingStep, CountingStep DEF Routing
  <2>2. CASE Forwarding(w)
    BY <2>2, ForwardingStep
  <2>3. CASE Failing(w)
    BY <2>3, FailingStep
  <2> QED BY <1>3, <2>1, <2>2, <2>3 DEF Handle
<1>4. CASE UNCHANGED vars
  BY <1>4, RegistrationStep
  DEF vars, registryVars, queueVars, slotVars, trackerVars, localVars, IInv, TypeOK
<1> QED BY <1>1, <1>2, <1>3, <1>4 DEF Next

\* The inductive invariant holds in every state of the orchestrator, however
\* the critical sections of its worker threads interleave.
THEOREM Invariance == Spec => []IInv
BY InitEstablishes, NextKeeps, PTL DEF Spec

\* Every variable keeps its type, and no load counter goes negative, in every
\* interleaving of any number of workers.
THEOREM Typing == Spec => []TypeOK
<1>1. IInv => TypeOK
  BY DEF IInv
<1> QED BY <1>1, Invariance, PTL

\* allocate_slot_for_node and free_slot_for_node never lose, duplicate or
\* double-book a slot.
THEOREM SlotsAccounted == Spec => []SlotAccounting
<1>1. IInv => SlotAccounting
  BY DEF IInv
<1> QED BY <1>1, Invariance, PTL

\* The router can always find the slot of a request to give it back.
THEOREM NoSlotOrphaned == Spec => []NoOrphanSlot
<1>1. IInv => NoOrphanSlot
  BY DEF IInv
<1> QED BY <1>1, Invariance, PTL

\* The region a live request's nodes were told about stays its own.
THEOREM LiveRequestsHoldTheirSlot == Spec => []LiveHoldsItsSlot
<1>1. IInv => LiveHoldsItsSlot
  BY DEF IInv, LiveHoldsItsSlot, LiveMapped, SlotAccounting, MappingsAgree
<1> QED BY <1>1, Invariance, PTL

-----------------------------------------------------------------------------
(* The router implements the slot pool *)

\* allocate_slot_for_node is an Acquire: the request had no slot anywhere, and
\* the head of the free list had no holder.
LEMMA AllocateAcquires ==
  ASSUME IInv, NEW w \in Workers, AllocateSlot(w)
  PROVE  [Pool!Next]_slot_to_request
<1> DEFINE d == decode[w]
           r == req[w]
           s == Head(free_slots[d])
<1> USE DEF IInv, AllocateSlot
<1>1. d \in DecodeNodes /\ r \in Requests /\ HoldsNothing(r)
  BY DEF WorkerView, View, BusyHasRequest
<1>2. NoSlot \notin Slots
  BY RoutingAssumption DEF NoSlot, Slots
<1>3. CASE free_slots[d] = <<>>
  BY <1>3 DEF slotVars
<1>4. CASE free_slots[d] # <<>>
  <2>1. TakeSlot(d, r)
    BY <1>4
  <2>2. free_slots[d] \in Seq(Slots) /\ free_slots[d] # <<>>
    BY <1>1, <1>4 DEF TypeOK
  <2>3. s \in Slots /\ 1 \in 1 .. Len(free_slots[d]) /\ free_slots[d][1] = s
    BY <2>2
  <2>4. slot_to_request[d][s] = NoReq
    BY <1>1, <2>3 DEF SlotAccounting, FreeListExact, IsFree
  <2>5. ~Pool!HasSlot(r)
    BY <1>1, <1>2 DEF Pool!HasSlot, Pool!Holds, HoldsNothing, SlotAccounting, MappingsAgree
  <2>6. Pool!Acquire(r, d, s)
    BY <2>1, <2>4, <2>5 DEF Pool!Acquire, Pool!Holds, TakeSlot
  <2> QED BY <1>1, <2>3, <2>6 DEF Pool!Next
<1> QED BY <1>3, <1>4

\* free_slot is a Release by the holder, or changes no slot.
LEMMA FreeReleases ==
  ASSUME IInv, NEW r \in Requests, FreeSlot(r)
  PROVE  [Pool!Next]_slot_to_request
<1> DEFINE d == request_to_decode_node[r]
           s == request_to_slot[d][r]
<1> USE DEF IInv
<1>1. d \in DecodeNodes \cup {NoNode}
  BY DEF TypeOK
<1>2. CASE d = NoNode
  BY <1>2 DEF FreeSlot, slotVars
<1>3. CASE d \in DecodeNodes /\ d # NoNode
  <2>1. s \in Slots /\ s # NoSlot
    BY <1>3 DEF TypeOK, MapMatchesSlot
  <2>2. slot_to_request' = [slot_to_request EXCEPT ![d][s] = NoReq]
    BY <1>3, <2>1 DEF FreeSlot
  <2>3. slot_to_request[d][s] = r
    BY <1>3, <2>1 DEF SlotAccounting, MappingsAgree
  <2>4. Pool!Release(r, d, s)
    BY <2>2, <2>3 DEF Pool!Release, Pool!Holds
  <2> QED BY <1>3, <2>1, <2>4 DEF Pool!Next
<1> QED BY <1>1, <1>2, <1>3

\* Every step of the orchestrator acquires one slot, releases one, or changes
\* the holder of none.
LEMMA StepsMapToPool == IInv /\ [Next]_vars => [Pool!Next]_slot_to_request
<1> SUFFICES ASSUME IInv, [Next]_vars
             PROVE  [Pool!Next]_slot_to_request
  OBVIOUS
<1>1. CASE Environment
  BY <1>1 DEF Environment, AddNode, AddNodeFd, UpdateNodeHealth, ClientSubmits,
              NodeReports, Push, slotVars
<1>2. ASSUME NEW w \in Workers, ProcessEvent(w)
      PROVE  [Pool!Next]_slot_to_request
  BY <1>2 DEF ProcessEvent, slotVars
<1>3. ASSUME NEW w \in Workers, Routing(w)
      PROVE  [Pool!Next]_slot_to_request
  <2>1. CASE AllocateSlot(w)
    BY <2>1, AllocateAcquires
  <2>2. CASE AbortRouting(w)
    BY <2>2, FreeReleases DEF AbortRouting, IInv, BusyHasRequest
  <2>3. CASE ~AllocateSlot(w) /\ ~AbortRouting(w)
    BY <1>3, <2>3 DEF Routing, SelectPrefill, FilterDecode, PickDecode, MapRequest,
       TrackRequest, SendPrepare, SendAssign, SendTo, CountPrefill, CountDecode, slotVars
  <2> QED BY <2>1, <2>2, <2>3
<1>4. ASSUME NEW w \in Workers, Forwarding(w)
      PROVE  [Pool!Next]_slot_to_request
  BY <1>4 DEF Forwarding, ForwardPrefill, ForwardToDecode, slotVars
<1>5. ASSUME NEW w \in Workers, Failing(w)
      PROVE  [Pool!Next]_slot_to_request
  <2>1. CASE FailFree(w)
    BY <2>1, FreeReleases DEF FailFree, IInv, BusyHasRequest
  <2>2. CASE ~FailFree(w)
    BY <1>5, <2>2 DEF Failing, FailStatus, FailUncountPrefill, FailUncountDecode,
                      FailReply, slotVars
  <2> QED BY <2>1, <2>2
<1>6. CASE UNCHANGED vars
  BY <1>6 DEF vars, slotVars
<1> QED BY <1>1, <1>2, <1>3, <1>4, <1>5, <1>6 DEF Next, Handle

\* RequestRouter, used by any number of racing workers, behaves as a pool in
\* which a request takes one free slot and only a holder gives one back.
THEOREM RouterImplementsPool == Spec => PoolSpec
<1>1. Init => Pool!Init
  BY DEF Init, Pool!Init
<1> QED BY <1>1, StepsMapToPool, Invariance, PTL DEF Spec, PoolSpec, Pool!Spec

=============================================================================
