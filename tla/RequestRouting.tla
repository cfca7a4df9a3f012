--------------------------- MODULE RequestRouting ---------------------------
(***************************************************************************)
(* The orchestrator's request path: the worker threads of                  *)
(* WorkerPoolOrchestrator, each running a handler of WorkerOrchestrator,   *)
(* over the state they share: NodeRegistry, RequestRouter (slots and       *)
(* loads), RequestTrackerOrchestrator and the event queue.  Every action   *)
(* of a worker is one critical section: the lock that the code takes and   *)
(* releases around it; workers interleave between any two of them.         *)
(*                                                                         *)
(* A NodeSlotAllocator is created on first use with all its slots free;    *)
(* get_available_slots answers "all free" for one that does not exist yet, *)
(* so the model has them all from the start.                               *)
(***************************************************************************)
EXTENDS Integers, FiniteSets, Sequences

CONSTANTS Workers,        \* threads of the orchestrator's worker pool
          Requests,       \* ids of the client requests
          PrefillNodes,
          DecodeNodes,
          MaxSlots,       \* SlotConfig::max_slots_per_node
          QueueCapacity,  \* capacity of the orchestrator's EventQueue
          HealthUpdates,  \* the values update_node_health is called with
          NoReq, NoNode   \* model values for "absent"

ASSUME RoutingAssumption ==
  /\ PrefillNodes \cap DecodeNodes = {}
  /\ MaxSlots \in Nat \ {0}
  /\ QueueCapacity \in Nat \ {0}
  /\ HealthUpdates \subseteq BOOLEAN
  /\ NoReq \notin Requests
  /\ NoNode \notin PrefillNodes \cup DecodeNodes
  /\ IsFiniteSet(Workers)

Nodes  == PrefillNodes \cup DecodeNodes
Slots  == 0 .. (MaxSlots - 1)
NoSlot == -1

EventTypes == {"CLIENT_REQUEST", "PREFILL_COMPLETE_ORCHESTRATOR",
               "REQUEST_FAILED", "DECODE_COMPLETE"}
Events == [type : EventTypes, req : Requests]
Event(t, r) == [type |-> t, req |-> r]

\* What the orchestrator sends out about a request.
Outputs == {"CLIENT_ERROR", "PREPARE_DECODE_SLOT", "ASSIGN_REQUEST",
            "PREFILL_COMPLETE", "REQUEST_FAILED"}

Statuses == {"UNTRACKED", "PENDING", "DECODING", "FAILED"}

\* Where a worker is inside handle_client_request ...
BeforeSlot == {"select_prefill", "filter_decode", "pick_decode", "allocate"}
WithSlot   == {"map", "track", "prepare", "assign", "abort"}
Counting   == {"count_prefill", "count_decode"}
InRouting  == BeforeSlot \cup WithSlot \cup Counting
\* ... or on the failure path of handle_request_failed and
\* handle_prefill_complete_orchestrator.
InFailure  == {"fail_status", "fail_free", "fail_dec_prefill",
               "fail_dec_decode", "fail_reply"}
PCs == {"idle", "forward", "forward_send"} \cup InRouting \cup InFailure

VARIABLES
  registered,             \* keys of NodeRegistry::nodes_
  healthy,                \* the registered nodes whose is_healthy is set
  node_fd,                \* keys of NodeRegistry's node_id -> fd map
  event_queue,            \* EventQueue::queue_, a FIFO
  produced,               \* every event some connection ever delivered
  free_slots,             \* per decode node, the FIFO of free slot numbers
  request_to_slot,        \* per decode node, slot held by a request
  slot_to_request,        \* per decode node, holder of a slot
  request_to_decode_node, \* the router's request -> decode node map
  node_loads,             \* active-request counter of each node
  status,                 \* RequestTrackerOrchestrator's status of a request
  info,                   \* RequestInfo sent with the request's messages
  sent,                   \* messages sent, as <<output, request>>
  pc, req, prefill, decode, slot, cand   \* locals of each worker

registryVars == <<registered, healthy, node_fd>>
queueVars    == <<event_queue, produced>>
slotVars     == <<free_slots, request_to_slot, slot_to_request>>
trackerVars  == <<status, info>>
localVars    == <<pc, req, prefill, decode, slot, cand>>
vars == <<registryVars, queueVars, slotVars, request_to_decode_node,
          node_loads, trackerVars, sent, localVars>>

NoInfo == [prefill |-> NoNode, decode |-> NoNode, slot |-> NoSlot]
Infos  == [prefill : PrefillNodes \cup {NoNode},
           decode : DecodeNodes \cup {NoNode}, slot : Slots \cup {NoSlot}]

-----------------------------------------------------------------------------
Init ==
  /\ registered = {} /\ healthy = {} /\ node_fd = {}
  /\ event_queue = <<>> /\ produced = {}
  /\ free_slots = [d \in DecodeNodes |-> [i \in 1 .. MaxSlots |-> i - 1]]
  /\ request_to_slot = [d \in DecodeNodes |-> [r \in Requests |-> NoSlot]]
  /\ slot_to_request = [d \in DecodeNodes |-> [s \in Slots |-> NoReq]]
  /\ request_to_decode_node = [r \in Requests |-> NoNode]
  /\ node_loads = [n \in Nodes |-> 0]
  /\ status = [r \in Requests |-> "UNTRACKED"]
  /\ info = [r \in Requests |-> NoInfo]
  /\ sent = {}
  /\ pc = [w \in Workers |-> "idle"]
  /\ req = [w \in Workers |-> NoReq]
  /\ prefill = [w \in Workers |-> NoNode]
  /\ decode = [w \in Workers |-> NoNode]
  /\ slot = [w \in Workers |-> NoSlot]
  /\ cand = [w \in Workers |-> {}]

Goto(w, l) == pc' = [pc EXCEPT ![w] = l]

\* The handler returns: its locals die.
Finish(w) ==
  /\ Goto(w, "idle")
  /\ req' = [req EXCEPT ![w] = NoReq]
  /\ prefill' = [prefill EXCEPT ![w] = NoNode]
  /\ decode' = [decode EXCEPT ![w] = NoNode]
  /\ slot' = [slot EXCEPT ![w] = NoSlot]
  /\ cand' = [cand EXCEPT ![w] = {}]

Send(m, r) == sent' = sent \cup {<<m, r>>}

Sent(m, r) == <<m, r>> \in sent

-----------------------------------------------------------------------------
\* Registration: the node enters the registry first, its fd in a second
\* critical section.
AddNode(n) ==
  /\ n \notin registered
  /\ registered' = registered \cup {n}
  /\ UNCHANGED <<healthy, node_fd, queueVars, slotVars, request_to_decode_node,
                 node_loads, trackerVars, sent, localVars>>

AddNodeFd(n) ==
  /\ n \in registered \ node_fd
  /\ node_fd' = node_fd \cup {n}
  /\ UNCHANGED <<registered, healthy, queueVars, slotVars,
                 request_to_decode_node, node_loads, trackerVars, sent, localVars>>

UpdateNodeHealth(n, h) ==
  /\ n \in registered
  /\ (n \in healthy) # h
  /\ healthy' = IF h THEN healthy \cup {n} ELSE healthy \ {n}
  /\ UNCHANGED <<registered, node_fd, queueVars, slotVars,
                 request_to_decode_node, node_loads, trackerVars, sent, localVars>>

\* EventQueue::push: a full queue drops the event.
Push(e) ==
  /\ produced' = produced \cup {e}
  /\ event_queue' = IF Len(event_queue) < QueueCapacity
                    THEN Append(event_queue, e) ELSE event_queue
  /\ UNCHANGED <<registryVars, slotVars, request_to_decode_node, node_loads,
                 trackerVars, sent, localVars>>

ClientSubmits(r) ==
  /\ Event("CLIENT_REQUEST", r) \notin produced
  /\ Push(Event("CLIENT_REQUEST", r))

\* A node reports on a request it was assigned, each kind of report once, in
\* any order (the two nodes have a connection each).  REQUEST_FAILED has no
\* sender yet: the places meant to send it are the failed vLLM calls of
\* handle_assign_request and handle_kv_transfer_complete.
NodeReports(t, r) ==
  /\ t # "CLIENT_REQUEST"
  /\ Sent("ASSIGN_REQUEST", r)
  /\ Event(t, r) \notin produced
  /\ Push(Event(t, r))

-----------------------------------------------------------------------------
\* process_event's switch: the handler an event starts.  It has no case for
\* DECODE_COMPLETE: the event is logged as unknown and forgotten.
FirstStep(t) ==
  CASE t = "CLIENT_REQUEST"                -> "select_prefill"
    [] t = "PREFILL_COMPLETE_ORCHESTRATOR" -> "forward"
    [] t = "REQUEST_FAILED"                -> "fail_status"
    [] OTHER                               -> "idle"

\* wait_and_pop, and the handler of the event.
ProcessEvent(w) ==
  LET e == Head(event_queue)
  IN /\ pc[w] = "idle"
     /\ event_queue # <<>>
     /\ event_queue' = Tail(event_queue)
     /\ Goto(w, FirstStep(e.type))
     /\ req' = [req EXCEPT ![w] =
                   IF FirstStep(e.type) = "idle" THEN NoReq ELSE e.req]
     /\ UNCHANGED <<registryVars, produced, slotVars, request_to_decode_node,
                    node_loads, trackerVars, sent, prefill, decode, slot, cand>>

-----------------------------------------------------------------------------
(* handle_client_request and select_nodes_and_allocate_slot *)

\* No node or no slot: the client is told "All nodes at capacity".
Refuse(w) ==
  /\ Send("CLIENT_ERROR", req[w])
  /\ Finish(w)

\* select_least_loaded keeps the first of the least loaded nodes of an
\* unordered_map walk: any of them.
LeastLoaded(S) == {n \in S : \A m \in S : node_loads[n] <= node_loads[m]}

SelectPrefill(w) ==
  /\ pc[w] = "select_prefill"
  /\ \/ /\ healthy \cap PrefillNodes = {}
        /\ Refuse(w)
     \/ /\ \E p \in LeastLoaded(healthy \cap PrefillNodes) :
             prefill' = [prefill EXCEPT ![w] = p]
        /\ Goto(w, "filter_decode")
        /\ UNCHANGED <<sent, req, decode, slot, cand>>
  /\ UNCHANGED <<registryVars, queueVars, slotVars, request_to_decode_node,
                 node_loads, trackerVars>>

\* Under slot_mutex_: the healthy decode nodes that have a free slot now.
WithFreeSlot == {d \in healthy \cap DecodeNodes : free_slots[d] # <<>>}

FilterDecode(w) ==
  /\ pc[w] = "filter_decode"
  /\ \/ /\ WithFreeSlot = {}
        /\ Refuse(w)
     \/ /\ WithFreeSlot # {}
        /\ cand' = [cand EXCEPT ![w] = WithFreeSlot]
        /\ Goto(w, "pick_decode")
        /\ UNCHANGED <<sent, req, prefill, decode, slot>>
  /\ UNCHANGED <<registryVars, queueVars, slotVars, request_to_decode_node,
                 node_loads, trackerVars>>

\* Under load_mutex_: the least loaded of the candidates found before.
PickDecode(w) ==
  /\ pc[w] = "pick_decode"
  /\ \E d \in LeastLoaded(cand[w]) : decode' = [decode EXCEPT ![w] = d]
  /\ cand' = [cand EXCEPT ![w] = {}]
  /\ Goto(w, "allocate")
  /\ UNCHANGED <<registryVars, queueVars, slotVars, request_to_decode_node,
                 node_loads, trackerVars, sent, req, prefill, slot>>

\* Mutant: the slot is read from the free list and not popped.
TakeSlotWithoutPop(d, r) ==
  LET s == Head(free_slots[d])
  IN /\ UNCHANGED free_slots
     /\ request_to_slot' = [request_to_slot EXCEPT ![d][r] = s]
     /\ slot_to_request' = [slot_to_request EXCEPT ![d][s] = r]

\* allocate_slot_for_node: pop the head of the free list, record the holder
\* both ways.
TakeSlot(d, r) ==
  LET s == Head(free_slots[d])
  IN /\ free_slots' = [free_slots EXCEPT ![d] = Tail(@)]
     /\ request_to_slot' = [request_to_slot EXCEPT ![d][r] = s]
     /\ slot_to_request' = [slot_to_request EXCEPT ![d][s] = r]

\* The slots seen free in FilterDecode may be gone by now.
AllocateSlot(w) ==
  /\ pc[w] = "allocate"
  /\ \/ /\ free_slots[decode[w]] = <<>>
        /\ Refuse(w)
        /\ UNCHANGED slotVars
     \/ /\ free_slots[decode[w]] # <<>>
        /\ TakeSlot(decode[w], req[w])
        /\ slot' = [slot EXCEPT ![w] = Head(free_slots[decode[w]])]
        /\ Goto(w, "map")
        /\ UNCHANGED <<sent, req, prefill, decode, cand>>
  /\ UNCHANGED <<registryVars, queueVars, request_to_decode_node, node_loads,
                 trackerVars>>

\* The request -> decode node entry is made in a critical section of its own.
MapRequest(w) ==
  /\ pc[w] = "map"
  /\ request_to_decode_node' = [request_to_decode_node EXCEPT ![req[w]] = decode[w]]
  /\ Goto(w, "track")
  /\ UNCHANGED <<registryVars, queueVars, slotVars, node_loads, trackerVars,
                 sent, req, prefill, decode, slot, cand>>

TrackRequest(w) ==
  /\ pc[w] = "track"
  /\ status' = [status EXCEPT ![req[w]] = "PENDING"]
  /\ info' = [info EXCEPT ![req[w]] =
                [prefill |-> prefill[w], decode |-> decode[w], slot |-> slot[w]]]
  /\ Goto(w, "prepare")
  /\ UNCHANGED <<registryVars, queueVars, slotVars, request_to_decode_node,
                 node_loads, sent, req, prefill, decode, slot, cand>>

\* Look the node's fd up and send; a node without fd aborts the handler.
SendTo(w, n, m, next) ==
  /\ \/ /\ n \in node_fd
        /\ Send(m, req[w])
        /\ Goto(w, next)
     \/ /\ n \notin node_fd
        /\ Goto(w, "abort")
        /\ UNCHANGED sent
  /\ UNCHANGED <<registryVars, queueVars, slotVars, request_to_decode_node,
                 node_loads, trackerVars, req, prefill, decode, slot, cand>>

SendPrepare(w) ==
  /\ pc[w] = "prepare"
  /\ SendTo(w, decode[w], "PREPARE_DECODE_SLOT", "assign")

SendAssign(w) ==
  /\ pc[w] = "assign"
  /\ SendTo(w, prefill[w], "ASSIGN_REQUEST", "count_prefill")

\* Mutant: slot_to_request keeps the old holder.
FreeSlotKeepingHolder(r) ==
  LET d == request_to_decode_node[r]
      s == request_to_slot[d][r]
  IN IF d = NoNode
     THEN UNCHANGED <<slotVars, request_to_decode_node>>
     ELSE /\ request_to_decode_node' = [request_to_decode_node EXCEPT ![r] = NoNode]
          /\ free_slots' = [free_slots EXCEPT ![d] = Append(@, s)]
          /\ request_to_slot' = [request_to_slot EXCEPT ![d][r] = NoSlot]
          /\ UNCHANGED slot_to_request

\* Mutant: only the router's map is cleared, the allocator is not told.
FreeSlotInMapOnly(r) ==
  /\ request_to_decode_node' = [request_to_decode_node EXCEPT ![r] = NoNode]
  /\ UNCHANGED slotVars

\* free_slot, with free_slot_for_node: under slot_mutex_ throughout.
FreeSlot(r) ==
  LET d == request_to_decode_node[r]
      s == request_to_slot[d][r]
  IN IF d = NoNode
     THEN UNCHANGED <<slotVars, request_to_decode_node>>
     ELSE /\ request_to_decode_node' = [request_to_decode_node EXCEPT ![r] = NoNode]
          /\ IF s = NoSlot
             THEN UNCHANGED slotVars
             ELSE /\ free_slots' = [free_slots EXCEPT ![d] = Append(@, s)]
                  /\ request_to_slot' = [request_to_slot EXCEPT ![d][r] = NoSlot]
                  /\ slot_to_request' = [slot_to_request EXCEPT ![d][s] = NoReq]

\* The error exits of handle_client_request: the slot is freed, nobody is told.
AbortRouting(w) ==
  /\ pc[w] = "abort"
  /\ FreeSlot(req[w])
  /\ Finish(w)
  /\ UNCHANGED <<registryVars, queueVars, node_loads, trackerVars, sent>>

IncrementLoad(n) == node_loads' = [node_loads EXCEPT ![n] = @ + 1]

\* Mutant: no test for zero.
DecrementLoadBelowZero(n) == node_loads' = [node_loads EXCEPT ![n] = @ - 1]

\* decrement_node_load never goes below zero.
DecrementLoad(n) ==
  node_loads' = [node_loads EXCEPT ![n] = IF @ > 0 THEN @ - 1 ELSE @]

CountPrefill(w) ==
  /\ pc[w] = "count_prefill"
  /\ IncrementLoad(prefill[w])
  /\ Goto(w, "count_decode")
  /\ UNCHANGED <<registryVars, queueVars, slotVars, request_to_decode_node,
                 trackerVars, sent, req, prefill, decode, slot, cand>>

CountDecode(w) ==
  /\ pc[w] = "count_decode"
  /\ IncrementLoad(decode[w])
  /\ Finish(w)
  /\ UNCHANGED <<registryVars, queueVars, slotVars, request_to_decode_node,
                 trackerVars, sent>>

-----------------------------------------------------------------------------
(* handle_prefill_complete_orchestrator *)

\* update_status changes tracked requests only, from whatever status they had.
SetStatus(r, st) ==
  status' = IF status[r] = "UNTRACKED" THEN status
            ELSE [status EXCEPT ![r] = st]

ForwardPrefill(w) ==
  /\ pc[w] = "forward"
  /\ SetStatus(req[w], "DECODING")
  /\ Goto(w, "forward_send")
  /\ UNCHANGED <<registryVars, queueVars, slotVars, request_to_decode_node,
                 node_loads, info, sent, req, prefill, decode, slot, cand>>

\* Mutant: the slot is given back when the prefill is done.
ForwardToDecodeFreeing(w) ==
  /\ pc[w] = "forward_send"
  /\ Send("PREFILL_COMPLETE", req[w])
  /\ FreeSlot(req[w])
  /\ Finish(w)
  /\ UNCHANGED <<registryVars, queueVars, node_loads, trackerVars>>

\* The decode node of a tracked request has an fd that is never removed; for
\* any other the handler goes the way of a failed request.
ForwardToDecode(w) ==
  /\ pc[w] = "forward_send"
  /\ IF info[req[w]].decode \in node_fd
     THEN Send("PREFILL_COMPLETE", req[w]) /\ Finish(w)
     ELSE /\ Goto(w, "fail_status")
          /\ UNCHANGED <<sent, req, prefill, decode, slot, cand>>
  /\ UNCHANGED <<registryVars, queueVars, slotVars, request_to_decode_node,
                 node_loads, trackerVars>>

-----------------------------------------------------------------------------
(* handle_request_failed *)

FailStatus(w) ==
  /\ pc[w] = "fail_status"
  /\ SetStatus(req[w], "FAILED")
  /\ Goto(w, "fail_free")
  /\ UNCHANGED <<registryVars, queueVars, slotVars, request_to_decode_node,
                 node_loads, info, sent, req, prefill, decode, slot, cand>>

\* Mutant: only a request that reached the decode phase gives its slot back.
FailFreeWhenDecoding(w) ==
  /\ pc[w] = "fail_free"
  /\ IF Event("PREFILL_COMPLETE_ORCHESTRATOR", req[w]) \in produced
     THEN FreeSlot(req[w])
     ELSE UNCHANGED <<slotVars, request_to_decode_node>>
  /\ Goto(w, "fail_dec_prefill")
  /\ UNCHANGED <<registryVars, queueVars, node_loads, trackerVars, sent,
                 req, prefill, decode, slot, cand>>

FailFree(w) ==
  /\ pc[w] = "fail_free"
  /\ FreeSlot(req[w])
  /\ Goto(w, "fail_dec_prefill")
  /\ UNCHANGED <<registryVars, queueVars, node_loads, trackerVars, sent,
                 req, prefill, decode, slot, cand>>

FailUncountPrefill(w) ==
  /\ pc[w] = "fail_dec_prefill"
  /\ DecrementLoad(info[req[w]].prefill)
  /\ Goto(w, "fail_dec_decode")
  /\ UNCHANGED <<registryVars, queueVars, slotVars, request_to_decode_node,
                 trackerVars, sent, req, prefill, decode, slot, cand>>

\* Mutant: the prefill node is uncounted twice, the decode node never.
FailUncountPrefillAgain(w) ==
  /\ pc[w] = "fail_dec_decode"
  /\ DecrementLoad(info[req[w]].prefill)
  /\ Goto(w, "fail_reply")
  /\ UNCHANGED <<registryVars, queueVars, slotVars, request_to_decode_node,
                 trackerVars, sent, req, prefill, decode, slot, cand>>

FailUncountDecode(w) ==
  /\ pc[w] = "fail_dec_decode"
  /\ DecrementLoad(info[req[w]].decode)
  /\ Goto(w, "fail_reply")
  /\ UNCHANGED <<registryVars, queueVars, slotVars, request_to_decode_node,
                 trackerVars, sent, req, prefill, decode, slot, cand>>

\* The client's fd is known while the request is tracked.
FailReply(w) ==
  /\ pc[w] = "fail_reply"
  /\ IF status[req[w]] = "UNTRACKED" THEN UNCHANGED sent
     ELSE Send("REQUEST_FAILED", req[w])
  /\ Finish(w)
  /\ UNCHANGED <<registryVars, queueVars, slotVars, request_to_decode_node,
                 node_loads, trackerVars>>

-----------------------------------------------------------------------------
Routing(w) ==
  \/ SelectPrefill(w) \/ FilterDecode(w) \/ PickDecode(w) \/ AllocateSlot(w)
  \/ MapRequest(w) \/ TrackRequest(w) \/ SendPrepare(w) \/ SendAssign(w)
  \/ AbortRouting(w) \/ CountPrefill(w) \/ CountDecode(w)

Forwarding(w) == ForwardPrefill(w) \/ ForwardToDecode(w)

Failing(w) ==
  \/ FailStatus(w) \/ FailFree(w) \/ FailUncountPrefill(w)
  \/ FailUncountDecode(w) \/ FailReply(w)

\* A step of the handler a worker is in.
Handle(w) == Routing(w) \/ Forwarding(w) \/ Failing(w)

Environment ==
  \/ \E n \in Nodes : AddNode(n) \/ AddNodeFd(n)
  \/ \E n \in Nodes, h \in HealthUpdates : UpdateNodeHealth(n, h)
  \/ \E r \in Requests : ClientSubmits(r)
  \/ \E t \in EventTypes, r \in Requests : NodeReports(t, r)

Next ==
  \/ Environment
  \/ \E w \in Workers : ProcessEvent(w) \/ Handle(w)

Spec == Init /\ [][Next]_vars

\* Worker threads run: each finishes its handler, and while some worker is
\* idle a waiting event is taken.
Fairness ==
  /\ \A w \in Workers : WF_vars(Handle(w))
  /\ WF_vars(\E w \in Workers : ProcessEvent(w))

FairSpec == Spec /\ Fairness

-----------------------------------------------------------------------------
(* Properties *)

\* Every location holds a value of its C++ type; registry sets are nested
\* (only a registered node is healthy or reachable), and a load, an int in the
\* code, never goes negative.
TypeOK ==
  /\ registered \subseteq Nodes /\ healthy \subseteq registered
  /\ node_fd \subseteq registered
  /\ event_queue \in Seq(Events) /\ produced \subseteq Events
  /\ free_slots \in [DecodeNodes -> Seq(Slots)]
  /\ request_to_slot \in [DecodeNodes -> [Requests -> Slots \cup {NoSlot}]]
  /\ slot_to_request \in [DecodeNodes -> [Slots -> Requests \cup {NoReq}]]
  /\ request_to_decode_node \in [Requests -> DecodeNodes \cup {NoNode}]
  /\ node_loads \in [Nodes -> Nat]
  /\ status \in [Requests -> Statuses]
  /\ info \in [Requests -> Infos]
  /\ sent \subseteq Outputs \X Requests
  /\ pc \in [Workers -> PCs]
  /\ req \in [Workers -> Requests \cup {NoReq}]
  /\ prefill \in [Workers -> PrefillNodes \cup {NoNode}]
  /\ decode \in [Workers -> DecodeNodes \cup {NoNode}]
  /\ slot \in [Workers -> Slots \cup {NoSlot}]
  /\ cand \in [Workers -> SUBSET DecodeNodes]

\* The events waiting for a worker.
Queued == {event_queue[i] : i \in 1 .. Len(event_queue)}

IsFree(d, s) == \E i \in 1 .. Len(free_slots[d]) : free_slots[d][i] = s

\* A slot is in the free list exactly when nobody holds it, and at most once.
FreeListExact ==
  \A d \in DecodeNodes :
    /\ \A s \in Slots : IsFree(d, s) <=> slot_to_request[d][s] = NoReq
    /\ \A i, j \in 1 .. Len(free_slots[d]) :
         free_slots[d][i] = free_slots[d][j] => i = j

\* The two directions of the allocator's mapping agree.
MappingsAgree ==
  \A d \in DecodeNodes, r \in Requests, s \in Slots :
    slot_to_request[d][s] = r <=> request_to_slot[d][r] = s

\* allocate_slot_for_node and free_slot_for_node never lose, duplicate or
\* double-book a slot, although selection, allocation, mapping and freeing
\* are separate critical sections of racing workers.
SlotAccounting == FreeListExact /\ MappingsAgree

\* Every slot in use can be given back: free_slot finds it through
\* request_to_decode_node, or the worker that took it is about to record it.
NoOrphanSlot ==
  \A d \in DecodeNodes, r \in Requests :
    request_to_slot[d][r] # NoSlot =>
      \/ request_to_decode_node[r] = d
      \/ \E w \in Workers : pc[w] = "map" /\ req[w] = r /\ decode[w] = d

\* A request whose prefill node has been told to write, and which nobody
\* reported as failed.
Live(r) == /\ Sent("ASSIGN_REQUEST", r)
           /\ Event("REQUEST_FAILED", r) \notin produced

\* The region named in a live request's ASSIGN_REQUEST and PREPARE_DECODE_SLOT
\* is its own for as long as it lives: no other request is given it, by any
\* interleaving of routing, failing and aborting workers.
LiveHoldsItsSlot ==
  \A r \in Requests : Live(r) =>
    /\ info[r].decode \in DecodeNodes
    /\ info[r].slot \in Slots
    /\ slot_to_request[info[r].decode][info[r].slot] = r

Quiet == \A w \in Workers : pc[w] = "idle"

LiveOn(n) == {r \in Requests : Live(r) /\ n \in {info[r].prefill, info[r].decode}}

\* Between handlers the load that select_least_loaded compares is never less
\* than the number of live requests on the node: although a failure may be
\* uncounted before handle_client_request has counted the request, and the
\* counter stops at zero, no live request is overlooked.
LoadCoversLive ==
  Quiet => \A n \in Nodes : node_loads[n] >= Cardinality(LiveOn(n))

\* RequestRouter implements the abstract slot pool.
Pool == INSTANCE SlotPool WITH owner <- slot_to_request

PoolSpec == Pool!Spec

HoldsSlot(r) == \E d \in DecodeNodes : request_to_slot[d][r] # NoSlot

\* A request that was reported as failed ends without a slot and with an
\* answer to its client, even when the report overtakes the worker that is
\* still routing it.
FailureSettled ==
  \A r \in Requests :
    (Event("REQUEST_FAILED", r) \in Queued) ~>
      [](~HoldsSlot(r) /\ Sent("REQUEST_FAILED", r))

\* request_router.h:98-101: free_slot "MUST be called when request finishes to
\* avoid slot leak".
FinishedFreesSlot ==
  \A r \in Requests :
    (Event("DECODE_COMPLETE", r) \in Queued) ~> ~HoldsSlot(r)
=============================================================================
