-------------------------- MODULE RequestLoadProofs --------------------------
(***************************************************************************)
(* Proof that the loads which select_least_loaded compares cover the live  *)
(* requests, and that no step loses a failure or changes an assignment,    *)
(* for any sets of workers, requests and nodes.  It stands on the          *)
(* inductive invariant of RequestRoutingProofs.                            *)
(***************************************************************************)
EXTENDS RequestRoutingProofs, FiniteSetTheorems

(***************************************************************************)
(* The inductive invariant.  A request is counted on its two nodes after   *)
(* ASSIGN_REQUEST has gone out, and uncounted on each when its failure is  *)
(* handled, which may come first.  So a load is compared with the requests *)
(* that somebody still owes it, and the workers on their way to count are  *)
(* added to it.                                                            *)
(***************************************************************************)
AssignedRequests == {r \in Requests : Sent("ASSIGN_REQUEST", r)}

OnNode(r, n) == n \in {info[r].prefill, info[r].decode}

\* The workers that will count their request on the node.
Coming(n) ==
  {w \in Workers : \/ pc[w] = "count_prefill" /\ n \in {prefill[w], decode[w]}
                   \/ pc[w] = "count_decode" /\ n = decode[w]}

\* Where handle_request_failed has not uncounted the request on the node.
BeforeUncount(n) == {"fail_status", "fail_free", "fail_dec_prefill"}
                      \cup (IF n \in DecodeNodes THEN {"fail_dec_decode"} ELSE {})

\* The report of the failure is on its way to uncount the request.
Unsettled(r, n) ==
  \/ Event("REQUEST_FAILED", r) \in Queued
  \/ \E w \in Workers : req[w] = r /\ pc[w] \in BeforeUncount(n)

\* The requests that were assigned to the node and not uncounted on it.
Owed(n) ==
  {r \in AssignedRequests :
     OnNode(r, n) /\ (Event("REQUEST_FAILED", r) \in produced => Unsettled(r, n))}

LoadsCover ==
  \A n \in Nodes : node_loads[n] + Cardinality(Coming(n)) >= Cardinality(Owed(n))

\* A report of failure is in the queue or with one worker.
FailsOnce ==
  /\ \A w \in Workers : pc[w] \in InFailure =>
       Event("REQUEST_FAILED", req[w]) \notin Queued
  /\ \A v, w \in Workers : pc[v] \in InFailure /\ pc[w] \in InFailure /\ v # w
                             => req[v] # req[w]

\* What is sent to the prefill node is about the node that will be counted.
InfoNamesPrefill ==
  \A w \in Workers :
    pc[w] \in {"prepare", "assign"} => info[req[w]].prefill = prefill[w]

LInv == /\ IsFiniteSet(AssignedRequests)
        /\ LoadsCover /\ FailsOnce /\ InfoNamesPrefill

-----------------------------------------------------------------------------
(* What the steps leave alone *)

USE DEF PCs, InRouting, BeforeSlot, WithSlot, Counting, InFailure,
        Goto, Finish, Send, Sent, Event

\* The locals of the other workers that this invariant looks at.
OthersStay(w) ==
  \A v \in Workers : v # w =>
    /\ pc'[v] = pc[v] /\ req'[v] = req[v]
    /\ prefill'[v] = prefill[v] /\ decode'[v] = decode[v]

\* A handler changes its own worker's locals and no event.
LEMMA HandlerIsLocal ==
  ASSUME TypeOK, NEW w \in Workers, Handle(w)
  PROVE  OthersStay(w) /\ UNCHANGED queueVars
<1> USE DEF TypeOK, OthersStay
<1>1. CASE Routing(w)
  BY <1>1 DEF Routing, SelectPrefill, Refuse, FilterDecode, PickDecode, AllocateSlot,
     MapRequest, TrackRequest, SendPrepare, SendAssign, SendTo, AbortRouting,
     CountPrefill, CountDecode
<1>2. CASE Forwarding(w)
  BY <1>2 DEF Forwarding, ForwardPrefill, ForwardToDecode
<1>3. CASE Failing(w)
  BY <1>3 DEF Failing, FailStatus, FailFree, FailUncountPrefill, FailUncountDecode,
     FailReply
<1> QED BY <1>1, <1>2, <1>3 DEF Handle

\* The failure path is entered through the queue only: the error branch of
\* handle_prefill_complete_orchestrator needs a decode node without an fd, and
\* an assigned request has none such.
LEMMA FailureFromQueue ==
  ASSUME IInv, NEW w \in Workers, Handle(w), pc'[w] \in InFailure
  PROVE  Failing(w) /\ pc[w] \in InFailure /\ req'[w] = req[w]
<1> USE DEF IInv, TypeOK
<1>1. CASE Routing(w)
  BY <1>1 DEF Routing, SelectPrefill, Refuse, FilterDecode, PickDecode, AllocateSlot,
     MapRequest, TrackRequest, SendPrepare, SendAssign, SendTo, AbortRouting,
     CountPrefill, CountDecode
<1>2. CASE Forwarding(w)
  <2>1. pc[w] # "idle" /\ pc[w] \in {"forward", "forward_send"}
    BY <1>2 DEF Forwarding, ForwardPrefill, ForwardToDecode
  <2>2. info[req[w]].decode \in node_fd
    BY <2>1 DEF WorkerView, View, BusyHasRequest, ReportsFollowAssign
  <2> QED BY <1>2, <2>2 DEF Forwarding, ForwardPrefill, ForwardToDecode
<1>3. CASE Failing(w)
  BY <1>3 DEF Failing, FailStatus, FailFree, FailUncountPrefill, FailUncountDecode,
     FailReply
<1> QED BY <1>1, <1>2, <1>3 DEF Handle

\* Only SendAssign assigns, and it assigns the request of its worker.
LEMMA AssignedGrow ==
  ASSUME TypeOK, NEW w \in Workers, Handle(w)
  PROVE  /\ AssignedRequests' \subseteq AssignedRequests \cup {req[w]}
         /\ ~SendAssign(w) => AssignedRequests' = AssignedRequests
<1> USE DEF TypeOK, AssignedRequests
<1>1. CASE SendAssign(w)
  BY <1>1 DEF SendAssign, SendTo
<1>2. CASE Routing(w) /\ ~SendAssign(w)
  BY <1>2 DEF Routing, SelectPrefill, Refuse, FilterDecode, PickDecode, AllocateSlot,
     MapRequest, TrackRequest, SendPrepare, SendTo, AbortRouting,
     CountPrefill, CountDecode
<1>3. CASE Forwarding(w) /\ ~SendAssign(w)
  BY <1>3 DEF Forwarding, ForwardPrefill, ForwardToDecode
<1>4. CASE Failing(w) /\ ~SendAssign(w)
  BY <1>4 DEF Failing, FailStatus, FailFree, FailUncountPrefill, FailUncountDecode,
     FailReply
<1> QED BY <1>1, <1>2, <1>3, <1>4 DEF Handle

\* The nodes of a request do not change once it is assigned: only its own
\* worker writes them, before.
LEMMA AssignedKeepsNodes ==
  ASSUME IInv, NEW w \in Workers, Handle(w), NEW r \in AssignedRequests
  PROVE  info'[r] = info[r]
<1> USE DEF IInv, TypeOK
<1>1. CASE TrackRequest(w)
  <2>1. req[w] # r
    BY <1>1 DEF TrackRequest, WorkerView, View, AssignedRequests
  <2> QED BY <1>1, <2>1 DEF TrackRequest, AssignedRequests
<1>2. CASE ~TrackRequest(w)
  BY <1>2 DEF Handle, Routing, Forwarding, Failing, SelectPrefill, FilterDecode,
     PickDecode, AllocateSlot, MapRequest, SendPrepare, SendAssign, SendTo, AbortRouting,
     CountPrefill, CountDecode, ForwardPrefill, ForwardToDecode, FailStatus, FailFree,
     FailUncountPrefill, FailUncountDecode, FailReply, trackerVars
<1> QED BY <1>1, <1>2

-----------------------------------------------------------------------------
(* A failure is in one place *)

\* No report of a failure is handled twice, by one worker or by two.
LEMMA FailsOnceKept ==
  ASSUME IInv, FailsOnce, [Next]_vars
  PROVE  FailsOnce'
<1> USE DEF IInv
<1>1. ASSUME NEW w \in Workers, Handle(w)
      PROVE  FailsOnce'
  <2>1. OthersStay(w) /\ Queued' = Queued
    BY <1>1, HandlerIsLocal DEF queueVars, Queued
  <2>2. pc'[w] \in InFailure => pc[w] \in InFailure /\ req'[w] = req[w]
    BY <1>1, FailureFromQueue
  <2> QED BY <2>1, <2>2 DEF FailsOnce, OthersStay
<1>2. ASSUME NEW w \in Workers, ProcessEvent(w)
      PROVE  FailsOnce'
  <2>1. /\ Head(event_queue) \in Events /\ Head(event_queue) \in Queued
        /\ Queued' = Queued \ {Head(event_queue)}
    BY <1>2, PopQueue DEF ProcessEvent, TypeOK
  <2>2. \A v \in Workers : v # w => pc'[v] = pc[v] /\ req'[v] = req[v]
    BY <1>2 DEF ProcessEvent, TypeOK
  <2>3. pc'[w] \in InFailure => Head(event_queue) = Event("REQUEST_FAILED", req'[w])
    BY <1>2, <2>1 DEF ProcessEvent, FirstStep, TypeOK, Events, EventTypes
  <2>4. ASSUME NEW v \in Workers, pc'[v] \in InFailure
        PROVE  Event("REQUEST_FAILED", req'[v]) \notin Queued'
    BY <2>1, <2>2, <2>3, <2>4 DEF FailsOnce
  <2>5. ASSUME NEW v \in Workers, v # w, pc'[v] \in InFailure, pc'[w] \in InFailure
        PROVE  req'[v] # req'[w]
    BY <2>1, <2>2, <2>3, <2>5 DEF FailsOnce
  <2> QED BY <2>2, <2>4, <2>5 DEF FailsOnce
<1>3. ASSUME NEW e \in Events, e \notin produced, Push(e)
      PROVE  FailsOnce'
  <2>1. Queued' \subseteq Queued \cup {e}
    BY <1>3, PushQueue DEF TypeOK
  <2>2. pc' = pc /\ req' = req
    BY <1>3 DEF Push, localVars
  <2>3. \A w \in Workers : pc[w] \in InFailure => Event("REQUEST_FAILED", req[w]) # e
    BY <1>3 DEF WorkerView, View
  <2> QED BY <2>1, <2>2, <2>3 DEF FailsOnce
<1>4. ASSUME UNCHANGED <<queueVars, localVars>>
      PROVE  FailsOnce'
  BY <1>4 DEF FailsOnce, Queued, queueVars, localVars
<1>5. CASE Environment
  BY <1>3, <1>4, <1>5 DEF Environment, AddNode, AddNodeFd, UpdateNodeHealth,
     ClientSubmits, NodeReports, Events, EventTypes
<1>6. CASE UNCHANGED vars
  BY <1>4, <1>6 DEF vars
<1> QED BY <1>1, <1>2, <1>5, <1>6 DEF Next

-----------------------------------------------------------------------------
(* The loads *)

\* The sets that are counted are finite.
LEMMA CountedFinite ==
  ASSUME LInv, NEW n
  PROVE  /\ IsFiniteSet(Coming(n)) /\ IsFiniteSet(Owed(n))
         /\ Cardinality(Coming(n)) \in Nat /\ Cardinality(Owed(n)) \in Nat
<1>1. Coming(n) \subseteq Workers /\ Owed(n) \subseteq AssignedRequests
  BY DEF Coming, Owed
<1>2. IsFiniteSet(Workers) /\ IsFiniteSet(AssignedRequests)
  BY RoutingAssumption DEF LInv
<1>3. IsFiniteSet(Coming(n)) /\ IsFiniteSet(Owed(n))
  BY <1>1, <1>2, FS_Subset
<1> QED BY <1>3, FS_CardinalityType

\* The comparison of a node's load with what it is owed.
Covered(n) == node_loads[n] + Cardinality(Coming(n)) >= Cardinality(Owed(n))

\* A step that counts nothing, and after which no more is owed.
LEMMA NothingCounted ==
  ASSUME TypeOK, LInv, NEW n \in Nodes, node_loads'[n] = node_loads[n],
         Coming(n)' = Coming(n), Owed(n)' \subseteq Owed(n)
  PROVE  Covered(n)'
<1>1. /\ IsFiniteSet(Owed(n)) /\ Cardinality(Coming(n)) \in Nat
      /\ Cardinality(Owed(n)) \in Nat
  BY CountedFinite
<1>2. /\ Cardinality(Owed(n)') <= Cardinality(Owed(n))
      /\ Cardinality(Owed(n)') \in Nat
  BY <1>1, FS_Subset, FS_CardinalityType
<1>3. node_loads[n] \in Nat /\ Covered(n)
  BY DEF TypeOK, LInv, LoadsCover, Covered
<1>4. node_loads[n] + Cardinality(Coming(n)) >= Cardinality(Owed(n)')
  BY <1>1, <1>2, <1>3 DEF Covered
<1> QED BY <1>4 DEF Covered

\* A worker that was coming has counted.
LEMMA OneCounted ==
  ASSUME TypeOK, LInv, NEW n \in Nodes, NEW w, w \in Coming(n),
         node_loads'[n] = node_loads[n] + 1,
         Coming(n)' = Coming(n) \ {w}, Owed(n)' \subseteq Owed(n)
  PROVE  Covered(n)'
<1>1. /\ IsFiniteSet(Owed(n)) /\ IsFiniteSet(Coming(n))
      /\ Cardinality(Coming(n)) \in Nat /\ Cardinality(Owed(n)) \in Nat
  BY CountedFinite
<1>2. /\ Cardinality(Owed(n)') <= Cardinality(Owed(n))
      /\ Cardinality(Owed(n)') \in Nat
  BY <1>1, FS_Subset, FS_CardinalityType
<1>3. Cardinality(Coming(n)') = Cardinality(Coming(n)) - 1
  BY <1>1, FS_RemoveElement
<1>4. node_loads[n] \in Nat /\ Covered(n)
  BY DEF TypeOK, LInv, LoadsCover, Covered
<1>5. node_loads'[n] + Cardinality(Coming(n)') >= Cardinality(Owed(n)')
  BY <1>1, <1>2, <1>3, <1>4 DEF Covered
<1> QED BY <1>5 DEF Covered

\* A request was assigned to the node, and its worker is coming.
LEMMA OneMoreOwed ==
  ASSUME TypeOK, LInv, NEW n \in Nodes, NEW w, NEW r, w \notin Coming(n),
         node_loads'[n] = node_loads[n],
         Coming(n)' = Coming(n) \cup {w}, Owed(n)' \subseteq Owed(n) \cup {r}
  PROVE  Covered(n)'
<1>1. /\ IsFiniteSet(Owed(n)) /\ IsFiniteSet(Coming(n))
      /\ Cardinality(Coming(n)) \in Nat /\ Cardinality(Owed(n)) \in Nat
  BY CountedFinite
<1>2. /\ IsFiniteSet(Owed(n) \cup {r})
      /\ Cardinality(Owed(n) \cup {r}) \in Nat
      /\ Cardinality(Owed(n) \cup {r}) <= Cardinality(Owed(n)) + 1
  <2>1. /\ IsFiniteSet(Owed(n) \cup {r})
        /\ Cardinality(Owed(n) \cup {r}) =
             IF r \in Owed(n) THEN Cardinality(Owed(n)) ELSE Cardinality(Owed(n)) + 1
    BY <1>1, FS_AddElement
  <2> QED BY <1>1, <2>1
<1>3. /\ Cardinality(Owed(n)') <= Cardinality(Owed(n) \cup {r})
      /\ Cardinality(Owed(n)') \in Nat
  BY <1>2, FS_Subset, FS_CardinalityType
<1>4. Cardinality(Coming(n)') = Cardinality(Coming(n)) + 1
  BY <1>1, FS_AddElement
<1>5. node_loads[n] \in Nat /\ Covered(n)
  BY DEF TypeOK, LInv, LoadsCover, Covered
<1>6. node_loads'[n] + Cardinality(Coming(n)') >= Cardinality(Owed(n)')
  BY <1>1, <1>2, <1>3, <1>4, <1>5 DEF Covered
<1> QED BY <1>6 DEF Covered

\* A request that the node was owed is uncounted.  The load may have been zero:
\* then a worker that is coming makes up for it.
LEMMA OneUncounted ==
  ASSUME TypeOK, LInv, NEW n \in Nodes, NEW r, r \in Owed(n), DecrementLoad(n),
         Coming(n)' = Coming(n), Owed(n)' \subseteq Owed(n) \ {r}
  PROVE  Covered(n)'
<1>1. /\ IsFiniteSet(Owed(n)) /\ Cardinality(Coming(n)) \in Nat
      /\ Cardinality(Owed(n)) \in Nat
  BY CountedFinite
<1>2. IsFiniteSet(Owed(n) \ {r}) /\ Cardinality(Owed(n) \ {r}) = Cardinality(Owed(n)) - 1
  BY <1>1, FS_RemoveElement
<1>3. Cardinality(Owed(n)') <= Cardinality(Owed(n)) - 1 /\ Cardinality(Owed(n)') \in Nat
  BY <1>2, FS_Subset, FS_CardinalityType
<1>4. node_loads[n] \in Nat /\ Covered(n)
  BY DEF TypeOK, LInv, LoadsCover, Covered
<1>5. node_loads'[n] = IF node_loads[n] > 0 THEN node_loads[n] - 1 ELSE node_loads[n]
  BY DEF DecrementLoad, TypeOK
<1>6. node_loads'[n] + Cardinality(Coming(n)) >= Cardinality(Owed(n)')
  BY <1>1, <1>3, <1>4, <1>5 DEF Covered
<1> QED BY <1>6 DEF Covered

\* A worker that is not counting, and is not about to, changes nothing about who
\* is coming.
LEMMA SameComing ==
  ASSUME TypeOK, NEW w \in Workers, OthersStay(w), NEW n,
         pc[w] \notin Counting, pc'[w] \notin Counting
  PROVE  Coming(n)' = Coming(n)
BY DEF Coming, OthersStay

\* A handler owes no more unless it assigns: the failure path only goes on.
LEMMA NoMoreOwed ==
  ASSUME IInv, NEW w \in Workers, Handle(w), ~SendAssign(w), NEW n
  PROVE  Owed(n)' \subseteq Owed(n)
<1> SUFFICES ASSUME NEW r \in Owed(n)'
             PROVE  r \in Owed(n)
  OBVIOUS
<1>1. OthersStay(w) /\ Queued' = Queued /\ produced' = produced
  BY HandlerIsLocal DEF queueVars, Queued, IInv
<1>2. AssignedRequests' = AssignedRequests
  BY AssignedGrow DEF IInv
<1>3. /\ r \in AssignedRequests /\ OnNode(r, n)'
      /\ Event("REQUEST_FAILED", r) \in produced => Unsettled(r, n)'
  BY <1>1, <1>2 DEF Owed
<1>4. OnNode(r, n)
  BY <1>3, AssignedKeepsNodes DEF OnNode
<1>5. ASSUME Unsettled(r, n)'
      PROVE  Unsettled(r, n)
  <2>1. CASE Event("REQUEST_FAILED", r) \in Queued
    BY <2>1 DEF Unsettled
  <2>2. CASE Event("REQUEST_FAILED", r) \notin Queued
    <3>1. PICK v \in Workers : req'[v] = r /\ pc'[v] \in BeforeUncount(n)
      BY <1>1, <1>5, <2>2 DEF Unsettled, BeforeUncount
    <3>2. CASE v # w
      BY <1>1, <3>1, <3>2 DEF OthersStay, Unsettled
    <3>3. CASE v = w
      <4>1. Failing(w) /\ req'[w] = req[w]
        BY <3>1, <3>3, FailureFromQueue DEF BeforeUncount
      <4>2. pc[w] \in BeforeUncount(n)
        BY <3>1, <3>3, <4>1 DEF IInv, TypeOK, BeforeUncount, Failing, FailStatus,
           FailFree, FailUncountPrefill, FailUncountDecode, FailReply
      <4> QED BY <3>1, <3>3, <4>1, <4>2 DEF Unsettled
    <3> QED BY <3>2, <3>3
  <2> QED BY <2>1, <2>2
<1> QED BY <1>3, <1>4, <1>5 DEF Owed

\* ASSIGN_REQUEST goes out: the request is owed by its two nodes, and its worker
\* is on the way to count it.
LEMMA AssignCovers ==
  ASSUME IInv, LInv, NEW w \in Workers, SendAssign(w), NEW n \in Nodes
  PROVE  Covered(n)'
<1> USE DEF IInv
<1>1. /\ OthersStay(w) /\ Queued' = Queued /\ produced' = produced
      /\ AssignedRequests' \subseteq AssignedRequests \cup {req[w]}
  BY HandlerIsLocal, AssignedGrow DEF queueVars, Queued, Handle, Routing
<1>2. /\ pc[w] = "assign" /\ info' = info /\ node_loads' = node_loads
      /\ prefill' = prefill /\ decode' = decode /\ req' = req
  BY DEF SendAssign, SendTo, trackerVars
<1>3. /\ info[req[w]].prefill = prefill[w] /\ info[req[w]].decode = decode[w]
  BY <1>2 DEF LInv, InfoNamesPrefill, WorkerView, View
<1>4. pc'[w] \in {"count_prefill", "abort"}
  BY DEF SendAssign, SendTo, TypeOK
<1>5. ASSUME NEW r \in Owed(n)', r # req[w]
      PROVE  r \in Owed(n)
  <2>1. r \in AssignedRequests /\ OnNode(r, n)
    BY <1>1, <1>2, <1>5 DEF Owed, OnNode
  <2>2. Unsettled(r, n)' => Unsettled(r, n)
    BY <1>1, <1>2, <1>4 DEF Unsettled, BeforeUncount, OthersStay
  <2> QED BY <1>1, <2>1, <2>2 DEF Owed
<1>6. CASE pc'[w] = "count_prefill" /\ n \in {prefill[w], decode[w]}
  <2>1. w \notin Coming(n) /\ Coming(n)' = Coming(n) \cup {w}
    BY <1>1, <1>2, <1>6 DEF Coming, OthersStay
  <2>2. Owed(n)' \subseteq Owed(n) \cup {req[w]}
    BY <1>5
  <2> QED BY <1>2, <2>1, <2>2, OneMoreOwed
<1>7. CASE n \notin {prefill[w], decode[w]}
  <2>1. Coming(n)' = Coming(n)
    BY <1>1, <1>2, <1>4, <1>7 DEF Coming, OthersStay
  <2>2. req[w] \notin Owed(n)'
    BY <1>2, <1>3, <1>7 DEF Owed, OnNode
  <2> QED BY <1>2, <1>5, <2>1, <2>2, NothingCounted
<1>8. CASE pc'[w] = "abort"
  <2>1. Coming(n)' = Coming(n)
    BY <1>1, <1>2, <1>8 DEF Coming, OthersStay
  <2>2. AssignedRequests' = AssignedRequests
    BY <1>8 DEF SendAssign, SendTo, TypeOK, AssignedRequests
  <2>3. req[w] \notin AssignedRequests
    BY <1>2 DEF WorkerView, View, AssignedRequests
  <2>4. req[w] \notin Owed(n)'
    BY <2>2, <2>3 DEF Owed
  <2> QED BY <1>2, <1>5, <2>1, <2>4, NothingCounted
<1> QED BY <1>4, <1>6, <1>7, <1>8

\* handle_client_request counts the request on its nodes, one after the other.
LEMMA CountCovers ==
  ASSUME IInv, LInv, NEW w \in Workers, CountPrefill(w) \/ CountDecode(w),
         NEW n \in Nodes
  PROVE  Covered(n)'
<1> USE DEF IInv
<1>1. ~SendAssign(w) /\ OthersStay(w) /\ Owed(n)' \subseteq Owed(n)
  <2>1. Handle(w) /\ ~SendAssign(w)
    BY DEF Handle, Routing, CountPrefill, CountDecode, SendAssign
  <2> QED BY <2>1, HandlerIsLocal, NoMoreOwed
<1>2. CASE CountPrefill(w)
  <2>1. /\ pc[w] = "count_prefill" /\ pc'[w] = "count_decode"
        /\ prefill' = prefill /\ decode' = decode
        /\ node_loads' = [node_loads EXCEPT ![prefill[w]] = node_loads[prefill[w]] + 1]
    BY <1>2 DEF CountPrefill, IncrementLoad, TypeOK
  <2>2. prefill[w] \in PrefillNodes \cup {NoNode} /\ decode[w] \in DecodeNodes \cup {NoNode}
    BY DEF TypeOK
  <2>3. CASE n = prefill[w]
    <3>1. n # decode[w]
      BY <2>2, <2>3, RoutingAssumption DEF Nodes
    <3>2. w \in Coming(n) /\ Coming(n)' = Coming(n) \ {w}
      BY <1>1, <2>1, <2>3, <3>1 DEF Coming, OthersStay
    <3>3. node_loads'[n] = node_loads[n] + 1
      BY <2>1, <2>3 DEF TypeOK
    <3> QED BY <1>1, <3>2, <3>3, OneCounted
  <2>4. CASE n # prefill[w]
    <3>1. Coming(n)' = Coming(n)
      BY <1>1, <2>1, <2>4 DEF Coming, OthersStay
    <3>2. node_loads'[n] = node_loads[n]
      BY <2>1, <2>4 DEF TypeOK
    <3> QED BY <1>1, <3>1, <3>2, NothingCounted
  <2> QED BY <2>3, <2>4
<1>3. CASE CountDecode(w)
  <2>1. /\ pc[w] = "count_decode" /\ pc'[w] = "idle"
        /\ node_loads' = [node_loads EXCEPT ![decode[w]] = node_loads[decode[w]] + 1]
    BY <1>3 DEF CountDecode, IncrementLoad, TypeOK
  <2>2. CASE n = decode[w]
    <3>1. w \in Coming(n) /\ Coming(n)' = Coming(n) \ {w}
      BY <1>1, <2>1, <2>2 DEF Coming, OthersStay
    <3>2. node_loads'[n] = node_loads[n] + 1
      BY <2>1, <2>2 DEF TypeOK
    <3> QED BY <1>1, <3>1, <3>2, OneCounted
  <2>3. CASE n # decode[w]
    <3>1. Coming(n)' = Coming(n)
      BY <1>1, <2>1, <2>3 DEF Coming, OthersStay
    <3>2. node_loads'[n] = node_loads[n]
      BY <2>1, <2>3 DEF TypeOK
    <3> QED BY <1>1, <3>1, <3>2, NothingCounted
  <2> QED BY <2>2, <2>3
<1> QED BY <1>2, <1>3

\* handle_request_failed uncounts a request on its nodes; each was owed it until
\* then, because the report is with this worker alone.
LEMMA UncountCovers ==
  ASSUME IInv, LInv, NEW w \in Workers, FailUncountPrefill(w) \/ FailUncountDecode(w),
         NEW n \in Nodes
  PROVE  Covered(n)'
<1> DEFINE r == req[w]
<1> USE DEF IInv
<1>1. /\ OthersStay(w) /\ Queued' = Queued /\ produced' = produced
      /\ Owed(n)' \subseteq Owed(n)
  <2>1. Handle(w) /\ ~SendAssign(w)
    BY DEF Handle, Failing, FailUncountPrefill, FailUncountDecode, SendAssign
  <2> QED BY <2>1, HandlerIsLocal, NoMoreOwed DEF queueVars, Queued
<1>2. /\ pc[w] \in InFailure /\ r \in Requests
      /\ Event("REQUEST_FAILED", r) \in produced
      /\ r \in AssignedRequests
  <2>1. pc[w] \in {"fail_dec_prefill", "fail_dec_decode"}
    BY DEF FailUncountPrefill, FailUncountDecode
  <2>2. r \in Requests /\ Event("REQUEST_FAILED", r) \in produced
    BY <2>1 DEF WorkerView, View, BusyHasRequest
  <2>3. Sent("ASSIGN_REQUEST", r)
    BY <2>2 DEF ReportsFollowAssign, EventTypes
  <2> QED BY <2>1, <2>2, <2>3 DEF AssignedRequests
<1>3. /\ Event("REQUEST_FAILED", r) \notin Queued
      /\ \A v \in Workers : v # w => ~(pc[v] \in InFailure /\ req[v] = r)
  BY <1>2 DEF LInv, FailsOnce
<1>4. /\ pc'[w] \in {"fail_dec_decode", "fail_reply"} /\ info' = info /\ req' = req
      /\ pc[w] \notin Counting /\ pc'[w] \notin Counting
  BY DEF FailUncountPrefill, FailUncountDecode, trackerVars, TypeOK
<1>5. Coming(n)' = Coming(n)
  BY <1>1, <1>4, SameComing
<1>6. ASSUME pc'[w] \notin BeforeUncount(n)
      PROVE  r \notin Owed(n)'
  <2>1. ~Unsettled(r, n)'
    BY <1>1, <1>3, <1>4, <1>6 DEF Unsettled, BeforeUncount, OthersStay
  <2> QED BY <1>1, <1>2, <1>4, <2>1 DEF Owed
<1>7. info[r].prefill \in PrefillNodes \cup {NoNode}
  BY <1>2 DEF TypeOK, Infos
<1>8. CASE FailUncountPrefill(w)
  <2>1. pc[w] = "fail_dec_prefill" /\ pc'[w] = "fail_dec_decode"
    BY <1>8 DEF FailUncountPrefill, TypeOK
  <2>2. CASE n = info[r].prefill
    <3>1. n \notin DecodeNodes
      BY <1>7, <2>2, RoutingAssumption DEF Nodes
    <3>2. r \in Owed(n)
      BY <1>2, <2>1, <2>2 DEF Owed, OnNode, Unsettled, BeforeUncount
    <3>3. Owed(n)' \subseteq Owed(n) \ {r}
      BY <1>1, <1>6, <2>1, <3>1 DEF BeforeUncount
    <3>4. DecrementLoad(n)
      BY <1>8, <2>2 DEF FailUncountPrefill
    <3> QED BY <1>5, <3>2, <3>3, <3>4, OneUncounted
  <2>3. CASE n # info[r].prefill
    <3>1. node_loads'[n] = node_loads[n]
      BY <1>8, <2>3 DEF FailUncountPrefill, DecrementLoad, TypeOK
    <3> QED BY <1>1, <1>5, <3>1, NothingCounted
  <2> QED BY <2>2, <2>3
<1>9. CASE FailUncountDecode(w)
  <2>1. pc[w] = "fail_dec_decode" /\ pc'[w] = "fail_reply"
    BY <1>9 DEF FailUncountDecode, TypeOK
  <2>2. CASE n = info[r].decode
    <3>1. info[r].decode \in DecodeNodes \cup {NoNode} /\ NoNode \notin Nodes
      BY <1>2, RoutingAssumption DEF TypeOK, Infos, Nodes
    <3>2. n \in DecodeNodes
      BY <2>2, <3>1
    <3>3. r \in Owed(n)
      BY <1>2, <2>1, <2>2, <3>2 DEF Owed, OnNode, Unsettled, BeforeUncount
    <3>4. Owed(n)' \subseteq Owed(n) \ {r}
      BY <1>1, <1>6, <2>1 DEF BeforeUncount
    <3>5. DecrementLoad(n)
      BY <1>9, <2>2 DEF FailUncountDecode
    <3> QED BY <1>5, <3>3, <3>4, <3>5, OneUncounted
  <2>3. CASE n # info[r].decode
    <3>1. node_loads'[n] = node_loads[n]
      BY <1>9, <2>3 DEF FailUncountDecode, DecrementLoad, TypeOK
    <3> QED BY <1>1, <1>5, <3>1, NothingCounted
  <2> QED BY <2>2, <2>3
<1> QED BY <1>8, <1>9

\* Every other step of a handler.
LEMMA OtherStepsCover ==
  ASSUME IInv, LInv, NEW w \in Workers, Handle(w), ~SendAssign(w),
         ~CountPrefill(w), ~CountDecode(w), ~FailUncountPrefill(w),
         ~FailUncountDecode(w), NEW n \in Nodes
  PROVE  Covered(n)'
<1> USE DEF IInv
<1>1. OthersStay(w) /\ Owed(n)' \subseteq Owed(n)
  BY HandlerIsLocal, NoMoreOwed
<1>2. node_loads' = node_loads /\ pc[w] \notin Counting /\ pc'[w] \notin Counting
  <2>1. CASE Routing(w)
    BY <2>1 DEF Routing, SelectPrefill, Refuse, FilterDecode, PickDecode, AllocateSlot,
       MapRequest, TrackRequest, SendPrepare, SendTo, AbortRouting, TypeOK
  <2>2. CASE Forwarding(w)
    BY <2>2 DEF Forwarding, ForwardPrefill, ForwardToDecode, TypeOK
  <2>3. CASE Failing(w)
    BY <2>3 DEF Failing, FailStatus, FailFree, FailReply, TypeOK
  <2> QED BY <2>1, <2>2, <2>3 DEF Handle
<1>3. Coming(n)' = Coming(n)
  BY <1>1, <1>2, SameComing
<1> QED BY <1>1, <1>2, <1>3, NothingCounted

\* A report of failure that leaves the queue is with the worker that took it.
LEMMA ProcessEventCovers ==
  ASSUME IInv, LInv, NEW w \in Workers, ProcessEvent(w), NEW n \in Nodes
  PROVE  Covered(n)'
<1> USE DEF IInv
<1>1. /\ Head(event_queue) \in Events
      /\ Queued' = Queued \ {Head(event_queue)} /\ Head(event_queue) \in Queued
  BY PopQueue DEF ProcessEvent, TypeOK
<1>2. /\ OthersStay(w) /\ produced' = produced /\ info' = info /\ sent' = sent
      /\ node_loads' = node_loads /\ pc[w] \notin Counting
  BY DEF ProcessEvent, OthersStay, TypeOK, trackerVars
<1>3. /\ pc'[w] \notin Counting
      /\ pc'[w] \in InFailure => Head(event_queue) = Event("REQUEST_FAILED", req'[w])
  BY <1>1 DEF ProcessEvent, FirstStep, TypeOK, Events, EventTypes
<1>4. Coming(n)' = Coming(n)
  BY <1>2, <1>3, SameComing
<1>5. ASSUME NEW r \in Owed(n)'
      PROVE  r \in Owed(n)
  <2>1. r \in AssignedRequests /\ OnNode(r, n)
    BY <1>2, <1>5 DEF Owed, AssignedRequests, OnNode
  <2>2. Unsettled(r, n)' => Unsettled(r, n)
    BY <1>1, <1>2, <1>3 DEF Unsettled, BeforeUncount, OthersStay
  <2> QED BY <1>2, <1>5, <2>1, <2>2 DEF Owed
<1> QED BY <1>2, <1>4, <1>5, NothingCounted

\* A message is delivered: a report makes no one owe more.
LEMMA DeliveryCovers ==
  ASSUME IInv, LInv, NEW e \in Events, e \notin produced, Push(e), NEW n \in Nodes
  PROVE  Covered(n)'
<1> USE DEF IInv
<1>1. Queued' \subseteq Queued \cup {e}
  BY PushQueue DEF TypeOK
<1>2. /\ produced' = produced \cup {e} /\ info' = info /\ sent' = sent
      /\ node_loads' = node_loads /\ UNCHANGED localVars
  BY DEF Push, trackerVars
<1>3. Coming(n)' = Coming(n)
  BY <1>2 DEF Coming, localVars
<1>4. ASSUME NEW r \in Owed(n)'
      PROVE  r \in Owed(n)
  <2>1. r \in AssignedRequests /\ OnNode(r, n)
    BY <1>2, <1>4 DEF Owed, AssignedRequests, OnNode
  <2>2. Event("REQUEST_FAILED", r) \in produced /\ Unsettled(r, n)' => Unsettled(r, n)
    BY <1>1, <1>2 DEF Unsettled, localVars
  <2> QED BY <1>2, <1>4, <2>1, <2>2 DEF Owed
<1> QED BY <1>2, <1>3, <1>4, NothingCounted

\* A step that changes none of what is compared.
LEMMA RestCovers ==
  ASSUME IInv, LInv, UNCHANGED <<queueVars, node_loads, trackerVars, sent, localVars>>,
         NEW n \in Nodes
  PROVE  Covered(n)'
<1>1. Coming(n)' = Coming(n)
  BY DEF Coming, localVars
<1>2. Owed(n)' = Owed(n)
  BY DEF Owed, AssignedRequests, OnNode, Unsettled, Queued, queueVars, trackerVars, localVars
<1> QED BY <1>1, <1>2, NothingCounted DEF IInv

\* No step lets a load fall behind.
LEMMA LoadsCoverKept ==
  ASSUME IInv, LInv, [Next]_vars
  PROVE  LoadsCover'
<1> SUFFICES ASSUME NEW n \in Nodes
             PROVE  Covered(n)'
  BY DEF LoadsCover, Covered
<1>1. ASSUME NEW w \in Workers, Handle(w)
      PROVE  Covered(n)'
  BY <1>1, AssignCovers, CountCovers, UncountCovers, OtherStepsCover
<1>2. ASSUME NEW w \in Workers, ProcessEvent(w)
      PROVE  Covered(n)'
  BY <1>2, ProcessEventCovers
<1>3. CASE Environment
  <2>1. \A t \in EventTypes, r \in Requests : Event(t, r) \in Events
    BY DEF Events
  <2> QED BY <1>3, <2>1, DeliveryCovers, RestCovers DEF Environment, AddNode, AddNodeFd,
             UpdateNodeHealth, ClientSubmits, NodeReports, EventTypes
<1>4. CASE UNCHANGED vars
  BY <1>4, RestCovers DEF vars
<1> QED BY <1>1, <1>2, <1>3, <1>4 DEF Next

-----------------------------------------------------------------------------
(* The theorem *)

\* One request more at most is assigned by a step.
LEMMA AssignedStaysFinite ==
  ASSUME IInv, IsFiniteSet(AssignedRequests), [Next]_vars
  PROVE  IsFiniteSet(AssignedRequests)'
<1>1. ASSUME NEW w \in Workers, Handle(w)
      PROVE  IsFiniteSet(AssignedRequests')
  <2>1. AssignedRequests' \subseteq AssignedRequests \cup {req[w]}
    BY <1>1, AssignedGrow DEF IInv
  <2>2. IsFiniteSet(AssignedRequests \cup {req[w]})
    BY FS_AddElement
  <2> QED BY <2>1, <2>2, FS_Subset
<1>2. ASSUME sent' = sent
      PROVE  IsFiniteSet(AssignedRequests')
  <2>1. AssignedRequests' = AssignedRequests
    BY <1>2 DEF AssignedRequests
  <2> QED BY <2>1
<1>3. ASSUME NEW w \in Workers, ProcessEvent(w)
      PROVE  IsFiniteSet(AssignedRequests')
  BY <1>2, <1>3 DEF ProcessEvent
<1>4. CASE Environment
  BY <1>2, <1>4 DEF Environment, AddNode, AddNodeFd, UpdateNodeHealth, ClientSubmits,
     NodeReports, Push
<1>5. CASE UNCHANGED vars
  BY <1>2, <1>5 DEF vars
<1> QED BY <1>1, <1>3, <1>4, <1>5 DEF Next

\* The prefill node in a request's info is the one its worker chose.
LEMMA PrefillStaysNamed ==
  ASSUME IInv, InfoNamesPrefill, [Next]_vars
  PROVE  InfoNamesPrefill'
<1> USE DEF IInv
<1>1. ASSUME NEW w \in Workers, TrackRequest(w)
      PROVE  InfoNamesPrefill'
  <2>1. req[w] \in Requests /\ pc[w] = "track"
    BY <1>1 DEF TrackRequest, BusyHasRequest
  <2>2. /\ info'[req[w]].prefill = prefill[w]
        /\ \A q \in Requests : q # req[w] => info'[q] = info[q]
        /\ req' = req /\ prefill' = prefill
        /\ \A v \in Workers : v # w => pc'[v] = pc[v]
    BY <1>1, <2>1 DEF TrackRequest, TypeOK
  <2> SUFFICES ASSUME NEW v \in Workers, pc'[v] \in {"prepare", "assign"}
               PROVE  info'[req'[v]].prefill = prefill'[v]
    BY DEF InfoNamesPrefill
  <2>3. CASE v # w
    <3>1. req[v] \in Requests /\ req[v] # req[w]
      BY <2>1, <2>2, <2>3 DEF OneRouter, BusyHasRequest
    <3> QED BY <2>2, <2>3, <3>1 DEF InfoNamesPrefill
  <2> QED BY <2>2, <2>3
<1>2. ASSUME NEW w \in Workers, Handle(w), ~TrackRequest(w)
      PROVE  InfoNamesPrefill'
  <2>1. OthersStay(w)
    BY <1>2, HandlerIsLocal
  <2>2. info' = info
    BY <1>2 DEF Handle, Routing, Forwarding, Failing, SelectPrefill, FilterDecode,
       PickDecode, AllocateSlot, MapRequest, SendPrepare, SendAssign, SendTo, AbortRouting,
       CountPrefill, CountDecode, ForwardPrefill, ForwardToDecode, FailStatus, FailFree,
       FailUncountPrefill, FailUncountDecode, FailReply, trackerVars
  <2>3. pc'[w] \in {"prepare", "assign"} =>
          pc[w] = "prepare" /\ req'[w] = req[w] /\ prefill'[w] = prefill[w]
    <3>1. CASE Routing(w)
      BY <1>2, <3>1 DEF Routing, SelectPrefill, Refuse, FilterDecode, PickDecode,
         AllocateSlot, MapRequest, SendPrepare, SendAssign, SendTo, AbortRouting,
         CountPrefill, CountDecode, TypeOK
    <3>2. CASE Forwarding(w)
      BY <3>2 DEF Forwarding, ForwardPrefill, ForwardToDecode, TypeOK
    <3>3. CASE Failing(w)
      BY <3>3 DEF Failing, FailStatus, FailFree, FailUncountPrefill, FailUncountDecode,
         FailReply, TypeOK
    <3> QED BY <1>2, <3>1, <3>2, <3>3 DEF Handle
  <2> QED BY <2>1, <2>2, <2>3 DEF InfoNamesPrefill, OthersStay
<1>3. ASSUME NEW w \in Workers, ProcessEvent(w)
      PROVE  InfoNamesPrefill'
  <2>1. /\ info' = info /\ prefill' = prefill
        /\ \A v \in Workers : v # w => pc'[v] = pc[v] /\ req'[v] = req[v]
        /\ pc'[w] \notin {"prepare", "assign"}
    BY <1>3 DEF ProcessEvent, FirstStep, trackerVars, TypeOK
  <2> QED BY <2>1 DEF InfoNamesPrefill
<1>4. ASSUME UNCHANGED <<trackerVars, localVars>>
      PROVE  InfoNamesPrefill'
  BY <1>4 DEF InfoNamesPrefill, trackerVars, localVars
<1>5. CASE Environment
  BY <1>4, <1>5 DEF Environment, AddNode, AddNodeFd, UpdateNodeHealth, ClientSubmits,
     NodeReports, Push
<1>6. CASE UNCHANGED vars
  BY <1>4, <1>6 DEF vars
<1> QED BY <1>1, <1>2, <1>3, <1>5, <1>6 DEF Next

\* An orchestrator that has just started owes nothing.
LEMMA LoadsStartCovered == Init => LInv
<1> SUFFICES ASSUME Init
             PROVE  LInv
  OBVIOUS
<1>1. AssignedRequests = {} /\ \A n : Coming(n) = {} /\ Owed(n) = {}
  BY DEF Init, AssignedRequests, Coming, Owed
<1>2. IsFiniteSet({}) /\ Cardinality({}) = 0
  BY FS_EmptySet
<1>3. IsFiniteSet(AssignedRequests)
  BY <1>1, <1>2
<1>4. LoadsCover
  <2> SUFFICES ASSUME NEW n \in Nodes
               PROVE  node_loads[n] + Cardinality(Coming(n)) >= Cardinality(Owed(n))
    BY DEF LoadsCover
  <2>1. node_loads[n] = 0
    BY DEF Init
  <2>2. Cardinality(Coming(n)) = 0 /\ Cardinality(Owed(n)) = 0
    BY <1>1, <1>2
  <2> QED BY <2>1, <2>2
<1>5. FailsOnce /\ InfoNamesPrefill
  BY DEF FailsOnce, InfoNamesPrefill, Init
<1> QED BY <1>3, <1>4, <1>5 DEF LInv

\* What is owed stays covered by the loads and the workers on their way to
\* count, whichever of routing and failing comes first.
THEOREM LoadInvariance == Spec => []LInv
<1>1. IInv /\ LInv /\ [Next]_vars => LInv'
  BY AssignedStaysFinite, LoadsCoverKept, FailsOnceKept, PrefillStaysNamed DEF LInv
<1> QED BY <1>1, LoadsStartCovered, Invariance, PTL DEF Spec

\* Between handlers the load that select_least_loaded compares is never less than
\* the number of live requests on the node, although counting, uncounting and
\* the stop at zero are critical sections of racing workers.
THEOREM LiveRequestsAreCounted == Spec => []LoadCoversLive
<1>1. ASSUME IInv, LInv
      PROVE  LoadCoversLive
  <2> SUFFICES ASSUME Quiet, NEW n \in Nodes
               PROVE  node_loads[n] >= Cardinality(LiveOn(n))
    BY DEF LoadCoversLive
  <2>1. Coming(n) = {}
    BY DEF Coming, Quiet
  <2>2. LiveOn(n) \subseteq Owed(n)
    BY DEF LiveOn, Live, Owed, AssignedRequests, OnNode
  <2>3. /\ IsFiniteSet(Owed(n)) /\ Cardinality(Owed(n)) \in Nat /\ Covered(n)
        /\ node_loads[n] \in Nat
    BY <1>1, CountedFinite DEF LInv, LoadsCover, Covered, IInv, TypeOK
  <2>4. Cardinality(LiveOn(n)) <= Cardinality(Owed(n)) /\ Cardinality(LiveOn(n)) \in Nat
    BY <2>2, <2>3, FS_Subset, FS_CardinalityType
  <2>5. node_loads[n] >= Cardinality(Owed(n))
    BY <2>1, <2>3, FS_EmptySet DEF Covered
  <2> QED BY <2>3, <2>4, <2>5
<1>2. IInv /\ LInv => LoadCoversLive
  BY <1>1
<1> QED BY <1>2, LoadInvariance, Invariance, PTL

-----------------------------------------------------------------------------
(* Failures are settled, and assignments final *)

\* The report of a failure waits for a worker or is being handled.
Pending(r) ==
  \/ Event("REQUEST_FAILED", r) \in Queued
  \/ \E w \in Workers : req[w] = r /\ pc[w] \in InFailure

\* What handle_request_failed leaves behind.
Settled(r) == /\ Event("REQUEST_FAILED", r) \in produced
              /\ ~HoldsSlot(r) /\ Sent("REQUEST_FAILED", r)

\* No step loses a failure that made it into the queue: it goes on until the request has
\* no slot and its client an answer, and no step undoes that, not even one of a worker
\* that still routes the request.  (handle_request_failed, free_slot)
FailureGoesOn ==
  [][\A r \in Requests : /\ Pending(r) => Pending(r)' \/ Settled(r)'
                        /\ Settled(r) => Settled(r)']_vars

\* What a node has been told of a request's nodes and slot is not changed behind its
\* back.  (track_request, handle_client_request)
AssignmentIsFinal ==
  [][\A r \in Requests : Sent("ASSIGN_REQUEST", r) => info'[r] = info[r]]_vars

\* The failure path has freed the slot before it goes on to the loads, and a request
\* that a node knows of is tracked.
SlotGoneFirst ==
  \A w \in Workers, r \in Requests :
    req[w] = r /\ pc[w] \in {"fail_dec_prefill", "fail_dec_decode", "fail_reply"} =>
      ~HoldsSlot(r)

Tracked(r) == status[r] # "UNTRACKED"

AssignedTracked ==
  /\ \A r \in Requests : Sent("ASSIGN_REQUEST", r) => Tracked(r)
  /\ \A w \in Workers, r \in Requests :
       req[w] = r /\ pc[w] \in {"prepare", "assign"} => Tracked(r)

FInv == SlotGoneFirst /\ AssignedTracked

\* free_slot takes the request's slot on the node of the router's map, and no other.
LEMMA FreeSlotAt ==
  ASSUME IInv, NEW q \in Requests, FreeSlot(q), NEW e \in DecodeNodes, NEW r \in Requests
  PROVE  request_to_slot'[e][r] = IF r = q /\ request_to_decode_node[q] = e
                                  THEN NoSlot ELSE request_to_slot[e][r]
<1>1. PICK d \in DecodeNodes \cup {NoNode} : request_to_decode_node[q] = d
  BY DEF IInv, TypeOK
<1>2. NoNode \notin DecodeNodes
  BY RoutingAssumption
<1>3. /\ d \in DecodeNodes => request_to_slot' = [request_to_slot EXCEPT ![d][q] = NoSlot]
      /\ d = NoNode => UNCHANGED slotVars
  BY <1>1, FreeSlotKeepsAccounting DEF IInv
<1>4. request_to_slot \in [DecodeNodes -> [Requests -> Slots \cup {NoSlot}]]
  BY DEF IInv, TypeOK
<1>5. CASE d \in DecodeNodes
  BY <1>1, <1>3, <1>4, <1>5
<1>6. CASE d = NoNode
  BY <1>1, <1>2, <1>3, <1>6 DEF slotVars
<1> QED BY <1>1, <1>5, <1>6

\* A request that was assigned takes no slot any more.
LEMMA NoSecondSlot ==
  ASSUME IInv, NEW w \in Workers, Handle(w), NEW r \in AssignedRequests, ~HoldsSlot(r)
  PROVE  ~HoldsSlot(r)'
<1>1. r \in Requests /\ Sent("ASSIGN_REQUEST", r) /\ TypeOK
  BY DEF AssignedRequests, IInv
<1>2. \A d \in DecodeNodes : request_to_slot[d][r] = NoSlot
  BY DEF HoldsSlot
<1>3. SUFFICES \A d \in DecodeNodes : request_to_slot'[d][r] = NoSlot
  BY DEF HoldsSlot
<1>4. CASE AllocateSlot(w)
  <2>1. req[w] # r
    BY <1>1, <1>4 DEF AllocateSlot, IInv, WorkerView, View
  <2>2. CASE UNCHANGED slotVars
    BY <1>2, <2>2 DEF slotVars
  <2>3. CASE TakeSlot(decode[w], req[w])
    BY <1>1, <1>2, <2>1, <2>3 DEF TakeSlot, TypeOK
  <2> QED BY <1>4, <2>2, <2>3 DEF AllocateSlot
<1>5. CASE pc[w] # "idle" /\ FreeSlot(req[w])
  <2>1. PICK q \in Requests : FreeSlot(q)
    BY <1>5 DEF IInv, BusyHasRequest
  <2> QED BY <1>1, <1>2, <2>1, FreeSlotAt
<1>6. CASE UNCHANGED slotVars
  BY <1>2, <1>6 DEF slotVars
<1>7. \/ AllocateSlot(w) \/ UNCHANGED slotVars
      \/ pc[w] # "idle" /\ FreeSlot(req[w])
  <2>1. CASE Routing(w)
    BY <2>1 DEF Routing, SelectPrefill, FilterDecode, PickDecode, MapRequest,
       TrackRequest, SendPrepare, SendAssign, SendTo, AbortRouting, CountPrefill, CountDecode
  <2>2. CASE Forwarding(w)
    BY <2>2 DEF Forwarding, ForwardPrefill, ForwardToDecode
  <2>3. CASE Failing(w)
    BY <2>3 DEF Failing, FailStatus, FailFree, FailUncountPrefill, FailUncountDecode,
       FailReply
  <2> QED BY <2>1, <2>2, <2>3 DEF Handle
<1> QED BY <1>4, <1>5, <1>6, <1>7

\* free_slot leaves nothing of a request that was assigned: the router's map names the
\* one node on which it can hold a slot.
LEMMA FreeLeavesNothing ==
  ASSUME IInv, NEW w \in Workers, FailFree(w), NEW r \in Requests, req[w] = r
  PROVE  ~HoldsSlot(r)'
<1>1. Sent("ASSIGN_REQUEST", r)
  BY DEF FailFree, IInv, WorkerView, View, ReportsFollowAssign, EventTypes
<1>2. \A v \in Workers : pc[v] = "map" => req[v] # r
  BY <1>1 DEF IInv, WorkerView, View
<1>3. \A d \in DecodeNodes : request_to_slot[d][r] # NoSlot => request_to_decode_node[r] = d
  BY <1>2 DEF IInv, NoOrphanSlot
<1>4. FreeSlot(r)
  BY DEF FailFree
<1>5. ASSUME NEW e \in DecodeNodes
      PROVE  request_to_slot'[e][r] = NoSlot
  BY <1>3, <1>4, FreeSlotAt
<1> QED BY <1>5 DEF HoldsSlot

\* A tracked request stays tracked.
LEMMA TrackedStays ==
  ASSUME TypeOK, NEW w \in Workers, Handle(w), NEW r \in Requests, Tracked(r)
  PROVE  Tracked(r)'
<1> USE DEF Tracked, TypeOK
<1>1. CASE Routing(w)
  BY <1>1 DEF Routing, SelectPrefill, FilterDecode, PickDecode, AllocateSlot, MapRequest,
     TrackRequest, SendPrepare, SendAssign, SendTo, AbortRouting, CountPrefill, CountDecode,
     trackerVars
<1>2. CASE Forwarding(w)
  BY <1>2 DEF Forwarding, ForwardPrefill, ForwardToDecode, SetStatus, trackerVars
<1>3. CASE Failing(w)
  BY <1>3 DEF Failing, FailStatus, FailFree, FailUncountPrefill, FailUncountDecode,
     FailReply, SetStatus, trackerVars
<1> QED BY <1>1, <1>2, <1>3 DEF Handle

\* A worker comes to "prepare" from track_request, and from there to "assign".
LEMMA ComesToSend ==
  ASSUME TypeOK, NEW w \in Workers, Handle(w), pc'[w] \in {"prepare", "assign"}
  PROVE  \/ TrackRequest(w) /\ req'[w] = req[w]
         \/ pc[w] = "prepare" /\ req'[w] = req[w]
<1> USE DEF TypeOK
<1>1. CASE Routing(w)
  BY <1>1 DEF Routing, SelectPrefill, Refuse, FilterDecode, PickDecode, AllocateSlot,
     MapRequest, TrackRequest, SendPrepare, SendAssign, SendTo, AbortRouting,
     CountPrefill, CountDecode
<1>2. CASE Forwarding(w)
  BY <1>2 DEF Forwarding, ForwardPrefill, ForwardToDecode
<1>3. CASE Failing(w)
  BY <1>3 DEF Failing, FailStatus, FailFree, FailUncountPrefill, FailUncountDecode,
     FailReply
<1> QED BY <1>1, <1>2, <1>3 DEF Handle

\* What the invariant says of tracking is kept by every handler.
LEMMA AssignedTrackedKept ==
  ASSUME IInv, AssignedTracked, NEW w \in Workers, Handle(w)
  PROVE  AssignedTracked'
<1>1. TypeOK /\ OthersStay(w)
  BY HandlerIsLocal DEF IInv
<1>2. \A r \in Requests : Tracked(r) => Tracked(r)'
  BY <1>1, TrackedStays
<1>3. ASSUME NEW r \in Requests, Sent("ASSIGN_REQUEST", r)'
      PROVE  Tracked(r)'
  <2>1. CASE Sent("ASSIGN_REQUEST", r)
    BY <1>2, <2>1 DEF AssignedTracked
  <2>2. CASE ~Sent("ASSIGN_REQUEST", r)
    <3>1. r \in AssignedRequests' /\ r \notin AssignedRequests
      BY <1>3, <2>2 DEF AssignedRequests
    <3>2. SendAssign(w) /\ r = req[w]
      BY <1>1, <3>1, AssignedGrow
    <3> QED BY <1>2, <3>2 DEF SendAssign, AssignedTracked
  <2> QED BY <2>1, <2>2
<1>4. ASSUME NEW v \in Workers, NEW r \in Requests, req'[v] = r,
             pc'[v] \in {"prepare", "assign"}
      PROVE  Tracked(r)'
  <2>1. CASE v # w
    BY <1>1, <1>2, <1>4, <2>1 DEF AssignedTracked, OthersStay
  <2>2. CASE v = w /\ pc[w] = "prepare" /\ req'[w] = req[w]
    BY <1>2, <1>4, <2>2 DEF AssignedTracked
  <2>3. CASE v = w /\ TrackRequest(w) /\ req'[w] = req[w]
    <3>1. status' = [status EXCEPT ![r] = "PENDING"]
      BY <1>4, <2>3 DEF TrackRequest
    <3> QED BY <1>1, <3>1 DEF Tracked, TypeOK
  <2> QED BY <1>1, <1>4, <2>1, <2>2, <2>3, ComesToSend
<1> QED BY <1>3, <1>4 DEF AssignedTracked

\* A failing worker goes on with its request, or leaves it settled.
LEMMA FailingGoesOn ==
  ASSUME IInv, FInv, NEW w \in Workers, Handle(w), pc[w] \in InFailure,
         NEW r \in Requests, req[w] = r
  PROVE  \/ pc'[w] \in InFailure /\ req'[w] = r
         \/ Settled(r)'
<1>1. TypeOK /\ Event("REQUEST_FAILED", r) \in produced
  BY DEF IInv, WorkerView, View
<1>2. Failing(w)
  BY DEF Handle, Routing, Forwarding, SelectPrefill, FilterDecode, PickDecode, AllocateSlot,
     MapRequest, TrackRequest, SendPrepare, SendAssign, AbortRouting, CountPrefill,
     CountDecode, ForwardPrefill, ForwardToDecode
<1>3. CASE FailReply(w)
  <2>1. Sent("ASSIGN_REQUEST", r)
    BY <1>1 DEF IInv, ReportsFollowAssign, EventTypes
  <2>2. Tracked(r) /\ ~HoldsSlot(r)
    BY <1>3, <2>1 DEF FInv, AssignedTracked, SlotGoneFirst, FailReply
  <2>3. sent' = sent \cup {<<"REQUEST_FAILED", r>>} /\ UNCHANGED <<slotVars, produced>>
    BY <1>3, <2>2 DEF FailReply, Tracked, queueVars
  <2> QED BY <1>1, <2>2, <2>3 DEF Settled, HoldsSlot, slotVars
<1>4. CASE ~FailReply(w)
  BY <1>1, <1>2, <1>4 DEF Failing, FailStatus, FailFree, FailUncountPrefill,
     FailUncountDecode, TypeOK
<1> QED BY <1>3, <1>4

LEMMA SlotGoneFirstKept ==
  ASSUME IInv, SlotGoneFirst, NEW w \in Workers, Handle(w)
  PROVE  SlotGoneFirst'
<1>1. TypeOK /\ OthersStay(w)
  BY HandlerIsLocal DEF IInv
<1> SUFFICES ASSUME NEW v \in Workers, NEW r \in Requests, req'[v] = r,
                    pc'[v] \in {"fail_dec_prefill", "fail_dec_decode", "fail_reply"}
             PROVE  ~HoldsSlot(r)'
  BY DEF SlotGoneFirst
<1>2. /\ pc[v] \in InFailure /\ req[v] = r
      /\ \/ FailFree(w) /\ v = w
         \/ pc[v] \in {"fail_dec_prefill", "fail_dec_decode", "fail_reply"}
  <2>1. CASE v # w
    BY <1>1, <2>1 DEF OthersStay
  <2>2. CASE v = w
    <3>1. Failing(w) /\ pc[w] \in InFailure /\ req'[w] = req[w]
      BY <2>2, FailureFromQueue
    <3> QED BY <1>1, <2>2, <3>1 DEF Failing, FailStatus, FailFree, FailUncountPrefill,
               FailUncountDecode, FailReply, TypeOK
  <2> QED BY <2>1, <2>2
<1>3. r \in AssignedRequests
  BY <1>2 DEF IInv, WorkerView, View, ReportsFollowAssign, EventTypes, AssignedRequests
<1>4. CASE FailFree(w) /\ v = w
  BY <1>2, <1>4, FreeLeavesNothing
<1>5. CASE pc[v] \in {"fail_dec_prefill", "fail_dec_decode", "fail_reply"}
  <2>1. ~HoldsSlot(r)
    BY <1>2, <1>5 DEF SlotGoneFirst
  <2> QED BY <1>3, <2>1, NoSecondSlot
<1> QED BY <1>2, <1>4, <1>5

LEMMA FailuresKept ==
  ASSUME IInv, FInv, [Next]_vars
  PROVE  FInv'
<1>1. ASSUME NEW w \in Workers, Handle(w)
      PROVE  FInv'
  BY <1>1, SlotGoneFirstKept, AssignedTrackedKept DEF FInv
<1>2. ASSUME NEW w \in Workers, ProcessEvent(w)
      PROVE  FInv'
  <2>1. /\ UNCHANGED <<slotVars, trackerVars, sent>>
        /\ \A v \in Workers : v # w => pc'[v] = pc[v] /\ req'[v] = req[v]
        /\ pc'[w] \in {"idle", "select_prefill", "forward", "fail_status"}
    BY <1>2 DEF ProcessEvent, FirstStep, IInv, TypeOK
  <2> QED BY <2>1 DEF FInv, SlotGoneFirst, AssignedTracked, Tracked, HoldsSlot, slotVars,
             trackerVars
<1>3. ASSUME UNCHANGED <<slotVars, trackerVars, sent, localVars>>
      PROVE  FInv'
  BY <1>3 DEF FInv, SlotGoneFirst, AssignedTracked, Tracked, HoldsSlot, slotVars,
     trackerVars, localVars
<1>4. CASE Environment
  BY <1>3, <1>4 DEF Environment, AddNode, AddNodeFd, UpdateNodeHealth, ClientSubmits,
     NodeReports, Push
<1>5. CASE UNCHANGED vars
  BY <1>3, <1>5 DEF vars
<1> QED BY <1>1, <1>2, <1>4, <1>5 DEF Next

LEMMA FailureInvariance == Spec => []FInv
<1>1. Init => FInv
  BY DEF Init, FInv, SlotGoneFirst, AssignedTracked
<1>2. IInv /\ FInv /\ [Next]_vars => FInv'
  BY FailuresKept
<1> QED BY <1>1, <1>2, Invariance, PTL DEF Spec

\* A full queue drops the new event and keeps those that wait.
LEMMA PushKeepsQueued ==
  ASSUME event_queue \in Seq(Events), NEW e \in Events, Push(e)
  PROVE  Queued \subseteq Queued'
<1>1. CASE event_queue' = event_queue
  BY <1>1 DEF Queued
<1>2. CASE event_queue' = Append(event_queue, e)
  <2>1. /\ Len(event_queue) \in Nat /\ Len(Append(event_queue, e)) = Len(event_queue) + 1
        /\ \A i \in 1 .. Len(event_queue) : Append(event_queue, e)[i] = event_queue[i]
    OBVIOUS
  <2>2. \A i \in 1 .. Len(event_queue) : i \in 1 .. Len(Append(event_queue, e))
    BY <2>1
  <2> QED BY <1>2, <2>1, <2>2 DEF Queued
<1> QED BY <1>1, <1>2 DEF Push

LEMMA PendingGoesOn ==
  ASSUME IInv, FInv, [Next]_vars, NEW r \in Requests, Pending(r)
  PROVE  Pending(r)' \/ Settled(r)'
<1>1. ASSUME NEW w \in Workers, Handle(w)
      PROVE  Pending(r)' \/ Settled(r)'
  <2>1. OthersStay(w) /\ Queued' = Queued
    BY <1>1, HandlerIsLocal DEF IInv, queueVars, Queued
  <2>2. CASE Event("REQUEST_FAILED", r) \in Queued
    BY <2>1, <2>2 DEF Pending
  <2>3. ASSUME NEW v \in Workers, req[v] = r, pc[v] \in InFailure
        PROVE  Pending(r)' \/ Settled(r)'
    <3>1. CASE v # w
      BY <2>1, <2>3, <3>1 DEF Pending, OthersStay
    <3>2. CASE v = w
      <4>1. (pc'[w] \in InFailure /\ req'[w] = r) \/ Settled(r)'
        BY <1>1, <2>3, <3>2, FailingGoesOn
      <4> QED BY <4>1 DEF Pending
    <3> QED BY <3>1, <3>2
  <2> QED BY <2>2, <2>3 DEF Pending
<1>2. ASSUME NEW w \in Workers, ProcessEvent(w)
      PROVE  Pending(r)'
  <2>1. /\ Head(event_queue) \in Events /\ Queued' = Queued \ {Head(event_queue)}
    BY <1>2, PopQueue DEF ProcessEvent, IInv, TypeOK
  <2>2. \A v \in Workers : pc[v] \in InFailure => pc'[v] = pc[v] /\ req'[v] = req[v]
    BY <1>2 DEF ProcessEvent, IInv, TypeOK
  <2>3. CASE Head(event_queue) = Event("REQUEST_FAILED", r)
    <3>1. pc'[w] = "fail_status" /\ req'[w] = r
      BY <1>2, <2>3 DEF ProcessEvent, FirstStep, IInv, TypeOK
    <3> QED BY <3>1 DEF Pending
  <2>4. CASE Head(event_queue) # Event("REQUEST_FAILED", r)
    BY <2>1, <2>2, <2>4 DEF Pending
  <2> QED BY <2>3, <2>4
<1>3. ASSUME Queued \subseteq Queued', UNCHANGED localVars
      PROVE  Pending(r)'
  BY <1>3 DEF Pending, localVars
<1>4. CASE Environment
  <2>1. CASE UNCHANGED <<queueVars, localVars>>
    BY <1>3, <2>1 DEF Queued, queueVars
  <2>2. ASSUME NEW e \in Events, Push(e)
        PROVE  Pending(r)'
    BY <1>3, <2>2, PushKeepsQueued DEF Push, IInv, TypeOK
  <2>3. \A t \in EventTypes, q \in Requests : Event(t, q) \in Events
    BY DEF Events
  <2> QED BY <1>4, <2>1, <2>2, <2>3 DEF Environment, AddNode, AddNodeFd, UpdateNodeHealth,
             ClientSubmits, NodeReports, EventTypes
<1>5. CASE UNCHANGED vars
  BY <1>3, <1>5 DEF vars, queueVars, Queued
<1> QED BY <1>1, <1>2, <1>4, <1>5 DEF Next

\* Handlers and deliveries take back no message and no report.
LEMMA MessagesGrow ==
  ASSUME TypeOK, [Next]_vars
  PROVE  sent \subseteq sent' /\ produced \subseteq produced'
<1>1. ASSUME NEW w \in Workers, Handle(w)
      PROVE  sent \subseteq sent' /\ produced' = produced
  <2>1. produced' = produced
    BY <1>1, HandlerIsLocal DEF queueVars
  <2>2. ASSUME Routing(w) PROVE sent \subseteq sent'
    BY <2>2 DEF Routing, SelectPrefill, Refuse, FilterDecode, PickDecode, AllocateSlot,
       MapRequest, TrackRequest, SendPrepare, SendAssign, SendTo, AbortRouting,
       CountPrefill, CountDecode
  <2>3. ASSUME Forwarding(w) PROVE sent \subseteq sent'
    BY <2>3 DEF Forwarding, ForwardPrefill, ForwardToDecode
  <2>4. ASSUME Failing(w) PROVE sent \subseteq sent'
    BY <2>4 DEF Failing, FailStatus, FailFree, FailUncountPrefill, FailUncountDecode,
       FailReply
  <2> QED BY <1>1, <2>1, <2>2, <2>3, <2>4 DEF Handle
<1>2. ASSUME NEW w \in Workers, ProcessEvent(w)
      PROVE  sent' = sent /\ produced' = produced
  BY <1>2 DEF ProcessEvent
<1>3. CASE Environment
  BY <1>3 DEF Environment, AddNode, AddNodeFd, UpdateNodeHealth, ClientSubmits,
     NodeReports, Push, queueVars
<1>4. CASE UNCHANGED vars
  BY <1>4 DEF vars, queueVars
<1> QED BY <1>1, <1>2, <1>3, <1>4 DEF Next

LEMMA SettledStays ==
  ASSUME IInv, [Next]_vars, NEW r \in Requests, Settled(r)
  PROVE  Settled(r)'
<1>1. r \in AssignedRequests
  BY DEF Settled, IInv, ReportsFollowAssign, EventTypes, AssignedRequests
<1>2. ~HoldsSlot(r)
  BY DEF Settled
<1>3. ~HoldsSlot(r)'
  <2>1. ASSUME NEW w \in Workers, Handle(w)
        PROVE  ~HoldsSlot(r)'
    BY <1>1, <1>2, <2>1, NoSecondSlot
  <2>2. ASSUME UNCHANGED slotVars
        PROVE  ~HoldsSlot(r)'
    BY <1>2, <2>2 DEF HoldsSlot, slotVars
  <2>3. ASSUME NEW w \in Workers, ProcessEvent(w)
        PROVE  ~HoldsSlot(r)'
    BY <2>2, <2>3 DEF ProcessEvent
  <2>4. CASE Environment
    BY <2>2, <2>4 DEF Environment, AddNode, AddNodeFd, UpdateNodeHealth, ClientSubmits,
       NodeReports, Push
  <2>5. CASE UNCHANGED vars
    BY <2>2, <2>5 DEF vars
  <2> QED BY <2>1, <2>3, <2>4, <2>5 DEF Next
<1>4. sent \subseteq sent' /\ produced \subseteq produced'
  BY MessagesGrow DEF IInv
<1> QED BY <1>3, <1>4 DEF Settled

\* No failure in the queue is forgotten on any step, and a settled one stays settled:
\* what FailureSettled adds is the fairness of the workers.
THEOREM FailuresGoOn == Spec => FailureGoesOn
<1>1. ASSUME IInv, FInv, [Next]_vars
      PROVE  [\A r \in Requests : /\ Pending(r) => Pending(r)' \/ Settled(r)'
                                 /\ Settled(r) => Settled(r)']_vars
  BY <1>1, PendingGoesOn, SettledStays
<1> QED BY <1>1, FailureInvariance, Invariance, PTL DEF Spec, FailureGoesOn

\* Once ASSIGN_REQUEST is out, the nodes and the slot of the request are what it says:
\* no step of any worker tracks the request again.
THEOREM AssignmentsAreFinal == Spec => AssignmentIsFinal
<1>1. ASSUME IInv, [Next]_vars
      PROVE  [\A r \in Requests : Sent("ASSIGN_REQUEST", r) => info'[r] = info[r]]_vars
  <2>1. ASSUME NEW r \in Requests, Sent("ASSIGN_REQUEST", r)
        PROVE  info'[r] = info[r]
    <3>1. ASSUME NEW w \in Workers, Handle(w)
          PROVE  info'[r] = info[r]
      BY <1>1, <2>1, <3>1, AssignedKeepsNodes DEF AssignedRequests
    <3>2. ASSUME NEW w \in Workers, ProcessEvent(w)
          PROVE  info' = info
      BY <3>2 DEF ProcessEvent, trackerVars
    <3>3. CASE Environment
      BY <3>3 DEF Environment, AddNode, AddNodeFd, UpdateNodeHealth, ClientSubmits,
         NodeReports, Push, trackerVars
    <3>4. CASE UNCHANGED vars
      BY <3>4 DEF vars, trackerVars
    <3> QED BY <1>1, <3>1, <3>2, <3>3, <3>4 DEF Next
  <2> QED BY <2>1
<1> QED BY <1>1, Invariance, PTL DEF Spec, AssignmentIsFinal

=============================================================================
