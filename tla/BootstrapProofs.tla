--------------------------- MODULE BootstrapProofs ---------------------------
(***************************************************************************)
(* Proofs about ClusterBootstrap, for any finite set of nodes, any set of  *)
(* workers and any bound on restarts.                                      *)
(***************************************************************************)
EXTENDS ClusterBootstrap, FiniteSetTheorems, TLAPS

(***************************************************************************)
(* The inductive invariant.  A broadcast goes out of a complete registry,  *)
(* and the registry never shrinks, so whatever a broadcast leads to (a     *)
(* message in an inbox, a vLLM server, RDMA_READY in the queue or in the   *)
(* hands of a worker) finds it complete.  A node that was started once     *)
(* sends one registration, and one RDMA_READY for each broadcast that it   *)
(* handled, and each is in one place: the queue, a worker, the tracker.    *)
(***************************************************************************)
Positions == 1 .. Len(event_queue)

\* What a worker in the middle of a handler knows.
View(w) ==
  /\ pc[w] # "idle" => /\ node[w] \in Nodes /\ conn[w] \in Incarnations
                       /\ incarnation[node[w]] > 0
  /\ pc[w] \in {"add_fd", "register"} => node[w] \in registry
  /\ pc[w] = "register" => node_fd[node[w]] # NoConn
  /\ pc[w] \in {"broadcast", "mark_ready", "set_running"} => registry = Nodes

WorkerView == \A w \in Workers : View(w)

\* Only a node that was started leaves traces.
OnlyStarted ==
  /\ \A n \in Nodes : node_fd[n] # NoConn \/ inbox[n] > 0 \/ vllm[n] > 0
                        => incarnation[n] > 0
  /\ \A i \in Positions : incarnation[event_queue[i].node] > 0

ReadyQueuedWhenComplete ==
  \A i \in Positions : event_queue[i].type = "RDMA_READY" => registry = Nodes

IsAt(i, t, n) == event_queue[i].type = t /\ event_queue[i].node = n

InQueue(t, n) == \E i \in Positions : IsAt(i, t, n)

\* An event of type t about n is in one place at most: the queue, a worker that
\* is between the labels L, or the set S of nodes it was handled for.
Once(t, L, S, n) ==
  /\ \A i, j \in Positions : IsAt(i, t, n) /\ IsAt(j, t, n) => i = j
  /\ \A w \in Workers : pc[w] \in L /\ node[w] = n => ~InQueue(t, n) /\ n \notin S
  /\ \A v, w \in Workers :
       pc[v] \in L /\ node[v] = n /\ pc[w] \in L /\ node[w] = n => v = w
  /\ InQueue(t, n) => n \notin S

Registering == {"add_node", "add_fd", "register"}

RegistersOnce ==
  \A n \in Nodes : incarnation[n] <= 1 =>
    Once("RDMA_PROCESS_REGISTRATION", Registering, registered, n)

AnswersOnce ==
  \A n \in Nodes : incarnation[n] <= 1 /\ vllm[n] <= 1 =>
    /\ Once("RDMA_READY", {"mark_ready"}, ready, n)
    /\ vllm[n] = 0 => /\ ~InQueue("RDMA_READY", n) /\ n \notin ready
                      /\ \A w \in Workers : pc[w] = "mark_ready" => node[w] # n

IInv == /\ TypeOK /\ CompleteBeforeReady /\ TrackerFollowsRegistry /\ DoubleLockCause
        /\ WorkerView /\ OnlyStarted /\ ReadyQueuedWhenComplete
        /\ RegistersOnce /\ AnswersOnce

-----------------------------------------------------------------------------
(* The queue *)

\* push appends one event and moves none.
LEMMA QueueGrows ==
  ASSUME event_queue \in Seq(Events), NEW e \in Events, Push(e)
  PROVE  /\ event_queue' \in Seq(Events)
         /\ Len(event_queue) \in Nat /\ Len(event_queue)' = Len(event_queue) + 1
         /\ \A i \in Positions' : i \in Positions \/ i = Len(event_queue) + 1
         /\ \A i \in Positions : i \in Positions' /\ event_queue'[i] = event_queue[i]
         /\ event_queue'[Len(event_queue) + 1] = e
BY DEF Push, Positions

\* wait_and_pop takes the oldest event, and the others move up by one.
LEMMA QueueShrinks ==
  ASSUME event_queue \in Seq(Events), event_queue # <<>>,
         event_queue' = Tail(event_queue)
  PROVE  /\ event_queue' \in Seq(Events)
         /\ Len(event_queue) \in Nat /\ Len(event_queue)' = Len(event_queue) - 1
         /\ 1 \in Positions /\ Head(event_queue) = event_queue[1]
         /\ event_queue[1] \in Events
         /\ \A i \in Positions' : /\ i + 1 \in Positions /\ i + 1 # 1
                                  /\ event_queue'[i] = event_queue[i + 1]
BY DEF Positions

\* What a push changes of where the events are.
LEMMA EventAdded ==
  ASSUME event_queue \in Seq(Events), NEW e \in Events, Push(e)
  PROVE  /\ \A t, m : ~(e.type = t /\ e.node = m) =>
              /\ InQueue(t, m)' <=> InQueue(t, m)
              /\ \A i \in Positions' : IsAt(i, t, m)' => i \in Positions /\ IsAt(i, t, m)
         /\ \A t, m : ~InQueue(t, m) =>
              \A i \in Positions' : IsAt(i, t, m)' => i = Len(event_queue) + 1
<1>1. PICK k \in Nat : k = Len(event_queue) + 1
  BY QueueGrows
<1>2. /\ \A i \in Positions' : i \in Positions \/ i = k
      /\ \A i \in Positions : i \in Positions' /\ event_queue'[i] = event_queue[i]
      /\ event_queue'[k] = e
  BY <1>1, QueueGrows
<1>3. \A t, m : \A i \in Positions : IsAt(i, t, m)' <=> IsAt(i, t, m)
  BY <1>2 DEF IsAt
<1>4. \A t, m : IsAt(k, t, m)' <=> (e.type = t /\ e.node = m)
  BY <1>2 DEF IsAt
<1> QED BY <1>1, <1>2, <1>3, <1>4 DEF InQueue

-----------------------------------------------------------------------------
(* The steps of a worker inside a handler *)

\* A step that takes and gives no event, and after which no worker holds one
\* that it did not hold, leaves every event in the place it was in.
LEMMA EventsKept ==
  ASSUME IInv,
         UNCHANGED <<event_queue, registered, ready, incarnation, vllm>>,
         \A v \in Workers, n \in Nodes :
           /\ pc'[v] \in Registering /\ node'[v] = n => pc[v] \in Registering /\ node[v] = n
           /\ pc'[v] = "mark_ready" /\ node'[v] = n => pc[v] = "mark_ready" /\ node[v] = n
  PROVE  RegistersOnce' /\ AnswersOnce'
<1>1. \A t, n : InQueue(t, n)' <=> InQueue(t, n)
  BY DEF InQueue, IsAt, Positions
<1>2. RegistersOnce'
  <2> SUFFICES ASSUME NEW n \in Nodes, incarnation[n] <= 1
               PROVE  Once("RDMA_PROCESS_REGISTRATION", Registering, registered, n)'
    BY DEF RegistersOnce
  <2>1. Once("RDMA_PROCESS_REGISTRATION", Registering, registered, n)
    BY DEF IInv, RegistersOnce
  <2> QED BY <2>1, <1>1 DEF Once, IsAt, Positions
<1>3. AnswersOnce'
  <2> SUFFICES ASSUME NEW n \in Nodes, incarnation[n] <= 1, vllm[n] <= 1
               PROVE  /\ Once("RDMA_READY", {"mark_ready"}, ready, n)'
                      /\ vllm[n] = 0 =>
                           /\ ~InQueue("RDMA_READY", n)' /\ n \notin ready'
                           /\ \A v \in Workers : pc'[v] = "mark_ready" => node'[v] # n
    BY DEF AnswersOnce
  <2>1. /\ Once("RDMA_READY", {"mark_ready"}, ready, n)
        /\ vllm[n] = 0 => /\ ~InQueue("RDMA_READY", n) /\ n \notin ready
                          /\ \A v \in Workers : pc[v] = "mark_ready" => node[v] # n
    BY DEF IInv, AnswersOnce
  <2> QED BY <2>1, <1>1 DEF Once, IsAt, Positions
<1> QED BY <1>2, <1>3

\* A worker that goes on to a later critical section, or returns, without taking
\* or giving an event, disturbs nothing that speaks of where the events are.
LEMMA EventsStay ==
  ASSUME IInv, NEW w \in Workers, NEW l \in PCs,
         l \notin {"mark_ready", "wedged"},
         l \in Registering => pc[w] \in Registering,
         pc' = [pc EXCEPT ![w] = l],
         node' \in [Workers -> Nodes \cup {NoNode}],
         \A v \in Workers : v # w \/ l # "idle" => node'[v] = node[v],
         UNCHANGED <<event_queue, trackerVars, crashed, incarnation, vllm>>
  PROVE  /\ DoubleLockCause' /\ RegistersOnce' /\ AnswersOnce'
         /\ pc' \in [Workers -> PCs]
<1>1. pc \in [Workers -> PCs] /\ pc'[w] = l /\ \A v \in Workers : v # w => pc'[v] = pc[v]
  BY DEF IInv, TypeOK
<1>2. UNCHANGED <<event_queue, registered, ready, crashed, incarnation, vllm>>
  BY DEF trackerVars
<1>3. DoubleLockCause'
  BY <1>1, <1>2 DEF IInv, DoubleLockCause, Stuck, TrackerFree
<1>4. \A v \in Workers, n \in Nodes :
        /\ pc'[v] \in Registering /\ node'[v] = n => pc[v] \in Registering /\ node[v] = n
        /\ pc'[v] = "mark_ready" /\ node'[v] = n => pc[v] = "mark_ready" /\ node[v] = n
  BY <1>1 DEF Registering
<1> QED BY <1>1, <1>2, <1>3, <1>4, EventsKept

\* A handler that returns.
LEMMA FinishStep ==
  ASSUME IInv, NEW w \in Workers, Finish(w),
         state' \in {"STARTING", "WAITING_FOR_NODES", "RUNNING"},
         UNCHANGED <<started, event_queue, registryVars, trackerVars, crashed, nodeVars>>
  PROVE  IInv'
<1>1. UNCHANGED <<started, event_queue, registry, node_fd, registered, ready, crashed,
                  incarnation, inbox, vllm, qmaps, up>>
  BY DEF registryVars, trackerVars, nodeVars
<1>2. /\ node' \in [Workers -> Nodes \cup {NoNode}]
      /\ conn' \in [Workers -> Incarnations \cup {NoConn}]
      /\ todo' \in [Workers -> SUBSET Nodes]
      /\ pc' = [pc EXCEPT ![w] = "idle"]
      /\ \A v \in Workers : v # w => node'[v] = node[v] /\ conn'[v] = conn[v]
      /\ \A v \in Workers : v # w => pc'[v] = pc[v]
      /\ pc'[w] = "idle"
  BY DEF Finish, Goto, IInv, TypeOK
<1>3. /\ DoubleLockCause' /\ RegistersOnce' /\ AnswersOnce'
      /\ pc' \in [Workers -> PCs]
  <2>1. "idle" \in PCs /\ "idle" \notin Registering
    BY DEF PCs, Registering
  <2>2. UNCHANGED <<event_queue, trackerVars, crashed, incarnation, vllm>>
    BY <1>1 DEF trackerVars
  <2> QED BY <1>2, <2>1, <2>2, EventsStay
<1>4. TypeOK'
  <2>1. TypeOK
    BY DEF IInv
  <2> QED BY <1>1, <1>2, <1>3, <2>1 DEF TypeOK
<1>5. WorkerView'
  BY <1>1, <1>2 DEF IInv, WorkerView, View
<1>6. /\ CompleteBeforeReady' /\ TrackerFollowsRegistry' /\ OnlyStarted'
      /\ ReadyQueuedWhenComplete'
  BY <1>1 DEF IInv, CompleteBeforeReady, TrackerFollowsRegistry, OnlyStarted,
              ReadyQueuedWhenComplete, Positions
<1> QED BY <1>3, <1>4, <1>5, <1>6 DEF IInv

\* add_node and add_node_fd: the registry grows, and the node it grows by is the
\* worker's.
LEMMA AddNodeStep ==
  ASSUME IInv, NEW w \in Workers, AddNode(w) \/ AddNodeFd(w)
  PROVE  IInv'
<1> DEFINE l == IF pc[w] = "add_node" THEN "add_fd" ELSE "register"
<1>1. /\ node[w] \in Nodes /\ conn[w] \in Incarnations /\ incarnation[node[w]] > 0
      /\ pc[w] = "add_fd" => node[w] \in registry
      /\ registry \subseteq Nodes /\ node_fd \in [Nodes -> Incarnations \cup {NoConn}]
      /\ pc \in [Workers -> PCs] /\ node \in [Workers -> Nodes \cup {NoNode}]
  BY DEF IInv, WorkerView, View, AddNode, AddNodeFd, TypeOK
<1>2. /\ pc[w] \in {"add_node", "add_fd"} /\ pc' = [pc EXCEPT ![w] = l]
      /\ UNCHANGED <<state, started, event_queue, registered, ready, node, conn, todo,
                     crashed, incarnation, inbox, vllm, qmaps, up>>
  BY DEF AddNode, AddNodeFd, Goto, engineVars, trackerVars, nodeVars
<1>3. /\ registry \subseteq registry' /\ registry' \subseteq Nodes
      /\ node[w] \in registry'
      /\ node_fd' \in [Nodes -> Incarnations \cup {NoConn}]
      /\ \A n \in Nodes : n # node[w] => node_fd'[n] = node_fd[n]
      /\ l = "register" => node_fd'[node[w]] # NoConn
      /\ \A n \in Nodes : node_fd[n] # NoConn => node_fd'[n] # NoConn
  BY <1>1 DEF AddNode, AddNodeFd, Incarnations, NoConn
<1>4. /\ DoubleLockCause' /\ RegistersOnce' /\ AnswersOnce'
      /\ pc' \in [Workers -> PCs]
  BY <1>1, <1>2, EventsStay DEF PCs, Registering, trackerVars
<1>5. TypeOK'
  BY <1>2, <1>3, <1>4 DEF IInv, TypeOK
<1>6. WorkerView'
  <2> SUFFICES ASSUME NEW v \in Workers PROVE View(v)'
    BY DEF WorkerView
  <2>1. View(v) /\ View(w)
    BY DEF IInv, WorkerView
  <2>2. CASE v = w
    BY <2>1, <2>2, <1>1, <1>2, <1>3 DEF View
  <2>3. CASE v # w
    <3>1. pc'[v] = pc[v] /\ node'[v] = node[v] /\ conn'[v] = conn[v]
      BY <1>1, <1>2, <2>3
    <3>2. pc[v] = "register" => node[v] \in Nodes
      BY <2>1 DEF View
    <3> QED BY <2>1, <3>1, <3>2, <1>2, <1>3 DEF View
  <2> QED BY <2>2, <2>3
<1>7. CompleteBeforeReady' /\ ReadyQueuedWhenComplete'
  BY <1>2, <1>3 DEF IInv, CompleteBeforeReady, ReadyQueuedWhenComplete, Positions
<1>8. TrackerFollowsRegistry'
  BY <1>2, <1>3 DEF IInv, TrackerFollowsRegistry, TypeOK
<1>9. OnlyStarted'
  BY <1>1, <1>2, <1>3 DEF IInv, OnlyStarted, Positions
<1> QED BY <1>4, <1>5, <1>6, <1>7, <1>8, <1>9 DEF IInv

\* get_total_registered_nodes: as many as expected means all of them, and the
\* broadcast that follows has a complete list.
LEMMA CountNodesStep ==
  ASSUME IInv, NEW w \in Workers, CountNodes(w)
  PROVE  IInv'
<1>1. registry \subseteq Nodes /\ state \in {"STARTING", "WAITING_FOR_NODES", "RUNNING"}
  BY DEF IInv, TypeOK
<1>2. CASE Cardinality(registry) # Cardinality(Nodes)
  BY <1>1, <1>2, FinishStep DEF CountNodes, engineVars
<1>3. CASE Cardinality(registry) = Cardinality(Nodes)
  <2>1. registry = Nodes
    BY <1>1, <1>3, BootstrapAssumption, FS_Subset
  <2>2. /\ pc[w] = "count" /\ pc' = [pc EXCEPT ![w] = "broadcast"]
        /\ todo' = [todo EXCEPT ![w] = registry]
        /\ UNCHANGED <<state, started, event_queue, registry, node_fd, registered, ready,
                       node, conn, crashed, incarnation, inbox, vllm, qmaps, up>>
    BY <1>3 DEF CountNodes, Goto, engineVars, registryVars, trackerVars, nodeVars
  <2>3. /\ DoubleLockCause' /\ RegistersOnce' /\ AnswersOnce'
        /\ pc' \in [Workers -> PCs]
    <3>1. node \in [Workers -> Nodes \cup {NoNode}]
      BY DEF IInv, TypeOK
    <3> QED BY <2>2, <3>1, EventsStay DEF PCs, Registering, trackerVars
  <2>4. TypeOK'
    BY <1>1, <2>2, <2>3 DEF IInv, TypeOK
  <2>5. WorkerView'
    BY <2>1, <2>2 DEF IInv, WorkerView, View, TypeOK
  <2>6. /\ CompleteBeforeReady' /\ TrackerFollowsRegistry' /\ OnlyStarted'
        /\ ReadyQueuedWhenComplete'
    BY <2>2 DEF IInv, CompleteBeforeReady, TrackerFollowsRegistry, OnlyStarted,
                ReadyQueuedWhenComplete, Positions
  <2> QED BY <2>3, <2>4, <2>5, <2>6 DEF IInv
<1> QED BY <1>2, <1>3

\* One message of the broadcast: delivered only to a node that was started, and
\* only when the registry is complete.
LEMMA BroadcastToStep ==
  ASSUME IInv, NEW w \in Workers, NEW n \in Nodes, BroadcastTo(w, n)
  PROVE  IInv'
<1>1. /\ UNCHANGED <<state, started, event_queue, registry, node_fd, registered, ready,
                     pc, node, conn, crashed, incarnation, vllm, qmaps, up>>
      /\ pc[w] = "broadcast" /\ todo' = [todo EXCEPT ![w] = @ \ {n}]
  BY DEF BroadcastTo, engineVars, registryVars, trackerVars
<1>2. registry = Nodes
  BY <1>1 DEF IInv, WorkerView, View
<1>3. \/ UNCHANGED inbox
      \/ /\ inbox' = [inbox EXCEPT ![n] = @ + 1]
         /\ incarnation[n] > 0
  BY DEF BroadcastTo, Deliver, IInv, OnlyStarted
<1>4. TypeOK'
  <2>1. TypeOK
    BY DEF IInv
  <2>2. inbox' \in [Nodes -> Nat] /\ todo' \in [Workers -> SUBSET Nodes]
    BY <2>1, <1>1, <1>3 DEF TypeOK
  <2> QED BY <2>1, <2>2, <1>1 DEF TypeOK
<1>5. /\ DoubleLockCause' /\ WorkerView' /\ TrackerFollowsRegistry'
      /\ ReadyQueuedWhenComplete'
  BY <1>1 DEF IInv, DoubleLockCause, Stuck, TrackerFree, WorkerView, View,
              TrackerFollowsRegistry, ReadyQueuedWhenComplete, Positions
<1>6. CompleteBeforeReady'
  BY <1>1, <1>2 DEF CompleteBeforeReady
<1>7. OnlyStarted'
  BY <1>1, <1>3 DEF IInv, OnlyStarted, Positions, TypeOK
<1>8. RegistersOnce' /\ AnswersOnce'
  BY <1>1, EventsKept
<1> QED BY <1>4, <1>5, <1>6, <1>7, <1>8 DEF IInv

\* Taking the mutex twice, for a node that was restarted or was told twice.
LEMMA LockTwiceStep ==
  ASSUME IInv, NEW w \in Workers, LockTwice(w), pc[w] \in {"register", "mark_ready"},
         \E n \in Nodes : incarnation[n] > 1 \/ vllm[n] > 1
  PROVE  IInv'
<1>1. /\ UNCHANGED <<state, started, event_queue, registry, node_fd, registered, ready,
                     node, conn, todo, incarnation, inbox, vllm, qmaps, up>>
      /\ \/ crashed' = TRUE /\ UNCHANGED pc
         \/ pc' = [pc EXCEPT ![w] = "wedged"] /\ UNCHANGED crashed
  BY DEF LockTwice, Goto, engineVars, registryVars, trackerVars, nodeVars
<1>2. /\ pc' \in [Workers -> PCs] /\ crashed' \in BOOLEAN
      /\ \A v \in Workers : pc'[v] = pc[v] \/ (pc'[v] = "wedged" /\ pc[v] # "idle")
  <2>1. pc \in [Workers -> PCs] /\ crashed \in BOOLEAN /\ "wedged" \in PCs
    BY DEF IInv, TypeOK, PCs
  <2>2. CASE crashed' = TRUE /\ UNCHANGED pc
    BY <2>1, <2>2
  <2>3. CASE pc' = [pc EXCEPT ![w] = "wedged"] /\ UNCHANGED crashed
    BY <2>1, <2>3
  <2> QED BY <1>1, <2>2, <2>3
<1>3. TypeOK'
  BY <1>1, <1>2 DEF IInv, TypeOK
<1>4. DoubleLockCause'
  BY <1>1 DEF DoubleLockCause
<1>5. WorkerView'
  BY <1>1, <1>2 DEF IInv, WorkerView, View
<1>6. /\ CompleteBeforeReady' /\ TrackerFollowsRegistry' /\ OnlyStarted'
      /\ ReadyQueuedWhenComplete'
  BY <1>1 DEF IInv, CompleteBeforeReady, TrackerFollowsRegistry, OnlyStarted,
              ReadyQueuedWhenComplete, Positions
<1>7. RegistersOnce' /\ AnswersOnce'
  <2>1. \A v \in Workers : pc'[v] \in Registering \cup {"mark_ready"} => pc'[v] = pc[v]
    BY <1>2 DEF Registering
  <2> QED BY <2>1, <1>1, EventsKept
<1> QED BY <1>3, <1>4, <1>5, <1>6, <1>7 DEF IInv

\* register_node: a second registration of a node that was started once would
\* be a second place for its only event.
LEMMA RegisterNodeStep ==
  ASSUME IInv, NEW w \in Workers, RegisterNode(w)
  PROVE  IInv'
<1>1. /\ pc[w] = "register" /\ node[w] \in Nodes /\ incarnation[node[w]] > 0
      /\ node[w] \in registry /\ node_fd[node[w]] # NoConn
      /\ node \in [Workers -> Nodes \cup {NoNode}]
      /\ incarnation \in [Nodes -> Incarnations \cup {0}]
      /\ MaxRestarts \in Nat
  BY BootstrapAssumption DEF RegisterNode, IInv, WorkerView, View, TypeOK
<1>2. CASE node[w] \in registered /\ LockTwice(w)
  <2>1. incarnation[node[w]] > 1
    BY <1>1, <1>2 DEF IInv, RegistersOnce, Once, Registering, Incarnations
  <2> QED BY <1>1, <1>2, <2>1, LockTwiceStep
<1>3. CASE node[w] \notin registered /\ registered' = registered \cup {node[w]}
  <2>1. /\ pc' = [pc EXCEPT ![w] = "count"]
        /\ UNCHANGED <<state, started, event_queue, registry, node_fd, ready,
                       node, conn, todo, crashed, incarnation, inbox, vllm, qmaps, up>>
    BY <1>3 DEF RegisterNode, LockTwice, Goto, engineVars, registryVars, nodeVars, trackerVars
  <2>2. /\ pc \in [Workers -> PCs] /\ pc' \in [Workers -> PCs]
        /\ pc'[w] = "count" /\ \A v \in Workers : v # w => pc'[v] = pc[v]
    BY <2>1 DEF IInv, TypeOK, PCs
  <2>3. TypeOK'
    BY <1>1, <1>3, <2>1, <2>2 DEF IInv, TypeOK
  <2>4. DoubleLockCause'
    BY <2>1, <2>2 DEF IInv, DoubleLockCause, Stuck, TrackerFree
  <2>5. WorkerView'
    <3> SUFFICES ASSUME NEW v \in Workers PROVE View(v)'
      BY DEF WorkerView
    <3>1. View(v)
      BY DEF IInv, WorkerView
    <3>2. pc'[v] = pc[v] \/ (pc'[v] = "count" /\ pc[v] = "register")
      BY <1>1, <2>2
    <3> QED BY <3>1, <3>2, <2>1 DEF View
  <2>6. CompleteBeforeReady' /\ OnlyStarted' /\ ReadyQueuedWhenComplete'
    BY <2>1 DEF IInv, CompleteBeforeReady, OnlyStarted, ReadyQueuedWhenComplete, Positions
  <2>7. TrackerFollowsRegistry'
    BY <1>1, <1>3, <2>1 DEF IInv, TrackerFollowsRegistry
  <2>8. \A t, n : InQueue(t, n)' <=> InQueue(t, n)
    BY <2>1 DEF InQueue, IsAt, Positions
  <2>9. RegistersOnce'
    <3> SUFFICES ASSUME NEW n \in Nodes, incarnation[n] <= 1
                 PROVE  Once("RDMA_PROCESS_REGISTRATION", Registering, registered, n)'
      BY <2>1 DEF RegistersOnce
    <3>1. Once("RDMA_PROCESS_REGISTRATION", Registering, registered, n)
      BY DEF IInv, RegistersOnce
    <3>2. \A v \in Workers : pc'[v] \in Registering => v # w /\ pc[v] \in Registering
      BY <2>2 DEF Registering
    <3>3. pc[w] \in Registering
      BY <1>1 DEF Registering
    <3> QED BY <3>1, <3>2, <3>3, <1>3, <2>1, <2>8 DEF Once, IsAt, Positions
  <2>10. AnswersOnce'
    <3>1. \A v \in Workers : pc'[v] = "mark_ready" <=> pc[v] = "mark_ready"
      BY <1>1, <2>2
    <3> QED BY <3>1, <2>1, <2>8 DEF IInv, AnswersOnce, Once, IsAt, Positions
  <2> QED BY <2>3, <2>4, <2>5, <2>6, <2>7, <2>9, <2>10 DEF IInv
<1> QED BY <1>2, <1>3 DEF RegisterNode

\* mark_node_ready: a second RDMA_READY of a node that was started once comes of
\* a second broadcast.
LEMMA MarkNodeReadyStep ==
  ASSUME IInv, NEW w \in Workers, MarkNodeReady(w)
  PROVE  IInv'
<1>1. /\ pc[w] = "mark_ready" /\ node[w] \in Nodes /\ registry = Nodes
      /\ incarnation[node[w]] \in Nat /\ vllm[node[w]] \in Nat
  BY BootstrapAssumption DEF MarkNodeReady, IInv, WorkerView, View, TypeOK, Incarnations
<1>2. CASE node[w] \notin registered
  <2>1. /\ state \in {"STARTING", "WAITING_FOR_NODES", "RUNNING"}
        /\ TrackerFollowsRegistry
    BY DEF IInv, TypeOK
  <2>2. node[w] \notin ready
    BY <2>1, <1>2 DEF TrackerFollowsRegistry
  <2>3. /\ Finish(w)
        /\ UNCHANGED <<state, started, event_queue, registryVars, trackerVars, crashed,
                       nodeVars>>
    BY <1>2 DEF MarkNodeReady, engineVars
  <2> QED BY <2>1, <2>3, FinishStep
<1>3. CASE node[w] \in registered /\ node[w] \in ready /\ LockTwice(w)
  <2>1. incarnation[node[w]] > 1 \/ vllm[node[w]] > 1
    BY <1>1, <1>3 DEF IInv, AnswersOnce, Once
  <2> QED BY <1>1, <1>3, <2>1, LockTwiceStep
<1>4. CASE /\ node[w] \in registered /\ node[w] \notin ready
           /\ ready' = ready \cup {node[w]}
           /\ \/ Goto(w, "set_running") /\ UNCHANGED <<node, conn, todo>>
              \/ Finish(w)
           /\ UNCHANGED <<engineVars, event_queue, registryVars, registered, crashed,
                          nodeVars>>
  <2>1. UNCHANGED <<state, started, event_queue, registry, node_fd, registered, crashed,
                    incarnation, inbox, vllm, qmaps, up>>
    BY <1>4 DEF engineVars, registryVars, nodeVars
  <2>2. /\ pc' \in [Workers -> PCs] /\ pc'[w] \in {"set_running", "idle"}
        /\ pc'[w] = "set_running" => node'[w] = node[w] /\ conn'[w] = conn[w]
        /\ \A v \in Workers : v # w => /\ pc'[v] = pc[v] /\ node'[v] = node[v]
                                       /\ conn'[v] = conn[v]
        /\ node' \in [Workers -> Nodes \cup {NoNode}]
        /\ conn' \in [Workers -> Incarnations \cup {NoConn}]
        /\ todo' \in [Workers -> SUBSET Nodes]
    <3>1. /\ pc \in [Workers -> PCs] /\ "idle" \in PCs /\ "set_running" \in PCs
          /\ node \in [Workers -> Nodes \cup {NoNode}]
          /\ conn \in [Workers -> Incarnations \cup {NoConn}]
          /\ todo \in [Workers -> SUBSET Nodes]
      BY DEF IInv, TypeOK, PCs
    <3>2. CASE Goto(w, "set_running") /\ UNCHANGED <<node, conn, todo>>
      BY <3>1, <3>2 DEF Goto
    <3>3. CASE Finish(w)
      BY <3>1, <3>3 DEF Finish, Goto
    <3> QED BY <1>4, <3>2, <3>3
  <2>3. TypeOK'
    BY <1>1, <1>4, <2>1, <2>2 DEF IInv, TypeOK
  <2>4. DoubleLockCause'
    BY <2>1, <2>2 DEF IInv, DoubleLockCause, Stuck, TrackerFree
  <2>5. WorkerView'
    <3> SUFFICES ASSUME NEW v \in Workers PROVE View(v)'
      BY DEF WorkerView
    <3>1. View(v)
      BY DEF IInv, WorkerView
    <3>2. CASE v = w
      BY <3>1, <3>2, <1>1, <2>1, <2>2 DEF View
    <3>3. CASE v # w
      BY <3>1, <3>3, <2>1, <2>2 DEF View
    <3> QED BY <3>2, <3>3
  <2>6. CompleteBeforeReady' /\ OnlyStarted' /\ ReadyQueuedWhenComplete'
    BY <1>1, <2>1 DEF IInv, CompleteBeforeReady, OnlyStarted, ReadyQueuedWhenComplete,
                      Positions
  <2>7. TrackerFollowsRegistry'
    BY <1>4, <2>1 DEF IInv, TrackerFollowsRegistry
  <2>8. \A t, n : InQueue(t, n)' <=> InQueue(t, n)
    BY <2>1 DEF InQueue, IsAt, Positions
  <2>9. RegistersOnce'
    <3> SUFFICES ASSUME NEW n \in Nodes, incarnation[n] <= 1
                 PROVE  Once("RDMA_PROCESS_REGISTRATION", Registering, registered, n)'
      BY <2>1 DEF RegistersOnce
    <3>1. Once("RDMA_PROCESS_REGISTRATION", Registering, registered, n)
      BY DEF IInv, RegistersOnce
    <3>2. \A v \in Workers : pc'[v] \in Registering => v # w
      BY <2>2 DEF Registering
    <3> QED BY <3>1, <3>2, <2>1, <2>2, <2>8 DEF Once, IsAt, Positions
  <2>10. AnswersOnce'
    <3> SUFFICES ASSUME NEW n \in Nodes, incarnation[n] <= 1, vllm[n] <= 1
                 PROVE  /\ Once("RDMA_READY", {"mark_ready"}, ready, n)'
                        /\ vllm[n] = 0 =>
                             /\ ~InQueue("RDMA_READY", n)' /\ n \notin ready'
                             /\ \A v \in Workers : pc'[v] = "mark_ready" => node'[v] # n
      BY <2>1 DEF AnswersOnce
    <3>1. /\ Once("RDMA_READY", {"mark_ready"}, ready, n)
          /\ vllm[n] = 0 => /\ ~InQueue("RDMA_READY", n) /\ n \notin ready
                            /\ \A v \in Workers : pc[v] = "mark_ready" => node[v] # n
      BY DEF IInv, AnswersOnce
    <3>2. \A v \in Workers : pc'[v] = "mark_ready" => /\ v # w /\ pc[v] = "mark_ready"
                                                      /\ node'[v] = node[v]
      BY <2>2
    <3> QED BY <3>1, <3>2, <1>1, <1>4, <2>1, <2>8 DEF Once, IsAt, Positions
  <2> QED BY <2>3, <2>4, <2>5, <2>6, <2>7, <2>9, <2>10 DEF IInv
<1> QED BY <1>2, <1>3, <1>4 DEF MarkNodeReady

\* The other steps of a handler.
LEMMA HandleStep ==
  ASSUME IInv, NEW w \in Workers, Handle(w)
  PROVE  IInv'
<1>1. CASE EndBroadcast(w) \/ SetRunning(w)
  <2>1. state \in {"STARTING", "WAITING_FOR_NODES", "RUNNING"}
    BY DEF IInv, TypeOK
  <2> QED BY <1>1, <2>1, FinishStep DEF EndBroadcast, SetRunning, engineVars
<1> QED BY <1>1, AddNodeStep, RegisterNodeStep, CountNodesStep, BroadcastToStep,
           MarkNodeReadyStep DEF Handle

-----------------------------------------------------------------------------
(* The steps that take or give an event, and the start of the orchestrator *)

LEMMA EnterWaitingStep ==
  ASSUME IInv, EnterWaiting
  PROVE  IInv'
<1>1. /\ started' = TRUE /\ state' = "WAITING_FOR_NODES"
      /\ UNCHANGED <<event_queue, registry, node_fd, registered, ready, pc, node, conn, todo,
                     crashed, incarnation, inbox, vllm, qmaps, up>>
  BY DEF EnterWaiting, registryVars, trackerVars, workerVars, nodeVars
<1>2. TypeOK'
  BY <1>1 DEF IInv, TypeOK
<1>3. /\ DoubleLockCause' /\ WorkerView' /\ TrackerFollowsRegistry' /\ OnlyStarted'
      /\ ReadyQueuedWhenComplete' /\ CompleteBeforeReady'
  BY <1>1 DEF IInv, DoubleLockCause, Stuck, TrackerFree, WorkerView, View, OnlyStarted,
              TrackerFollowsRegistry, ReadyQueuedWhenComplete, CompleteBeforeReady, Positions
<1>4. RegistersOnce' /\ AnswersOnce'
  BY <1>1, EventsKept
<1> QED BY <1>2, <1>3, <1>4 DEF IInv

\* wait_and_pop: the event goes from the queue to the worker.
LEMMA ProcessEventStep ==
  ASSUME IInv, NEW w \in Workers, ProcessEvent(w)
  PROVE  IInv'
<1> DEFINE e == event_queue[1]
           l == IF e.type = "RDMA_READY" THEN "mark_ready" ELSE "add_node"
<1>1. event_queue \in Seq(Events) /\ event_queue # <<>> /\ event_queue' = Tail(event_queue)
  BY DEF IInv, TypeOK, ProcessEvent
<1>2. /\ event_queue' \in Seq(Events) /\ 1 \in Positions /\ Head(event_queue) = e
      /\ e \in Events
      /\ \A i \in Positions' : /\ i + 1 \in Positions /\ i + 1 # 1
                               /\ event_queue'[i] = event_queue[i + 1]
  BY <1>1, QueueShrinks
<1>3. /\ e.type \in {"RDMA_PROCESS_REGISTRATION", "RDMA_READY"}
      /\ e.node \in Nodes /\ e.conn \in Incarnations
  BY <1>2 DEF Events
<1>4. /\ pc[w] = "idle" /\ pc' = [pc EXCEPT ![w] = l]
      /\ node' = [node EXCEPT ![w] = e.node] /\ conn' = [conn EXCEPT ![w] = e.conn]
      /\ UNCHANGED <<state, started, registry, node_fd, registered, ready, todo, crashed,
                     incarnation, inbox, vllm, qmaps, up>>
  BY <1>2 DEF ProcessEvent, Goto, engineVars, registryVars, trackerVars, nodeVars
<1>5. /\ pc' \in [Workers -> PCs] /\ node' \in [Workers -> Nodes \cup {NoNode}]
      /\ conn' \in [Workers -> Incarnations \cup {NoConn}]
      /\ pc'[w] = l /\ node'[w] = e.node /\ conn'[w] = e.conn
      /\ \A v \in Workers : v # w => /\ pc'[v] = pc[v] /\ node'[v] = node[v]
                                     /\ conn'[v] = conn[v]
  BY <1>3, <1>4 DEF IInv, TypeOK, PCs
<1>6. TypeOK'
  BY <1>2, <1>4, <1>5 DEF IInv, TypeOK
<1>7. DoubleLockCause'
  BY <1>4, <1>5 DEF IInv, DoubleLockCause, Stuck, TrackerFree
<1>8. CompleteBeforeReady' /\ TrackerFollowsRegistry'
  BY <1>4 DEF IInv, CompleteBeforeReady, TrackerFollowsRegistry
<1>9. OnlyStarted' /\ ReadyQueuedWhenComplete'
  BY <1>2, <1>4 DEF IInv, OnlyStarted, ReadyQueuedWhenComplete
<1>10. WorkerView'
  <2>1. incarnation[e.node] > 0 /\ (l = "mark_ready" => registry = Nodes)
    BY <1>2 DEF IInv, OnlyStarted, ReadyQueuedWhenComplete
  <2> SUFFICES ASSUME NEW v \in Workers PROVE View(v)'
    BY DEF WorkerView
  <2>2. CASE v = w
    BY <2>1, <2>2, <1>3, <1>4, <1>5 DEF View
  <2>3. CASE v # w
    BY <2>3, <1>4, <1>5 DEF IInv, WorkerView, View
  <2> QED BY <2>2, <2>3
<1>11. \A t, n : /\ InQueue(t, n)' => InQueue(t, n)
                 /\ IsAt(1, t, n) => InQueue(t, n)
                 /\ \A i \in Positions' : IsAt(i, t, n)' =>
                      i + 1 \in Positions /\ i + 1 # 1 /\ IsAt(i + 1, t, n)
  BY <1>2 DEF InQueue, IsAt
<1>12. \A i, j \in Positions' : i \in Int /\ (i + 1 = j + 1 => i = j)
  BY DEF Positions
<1>13. RegistersOnce'
  <2> DEFINE t == "RDMA_PROCESS_REGISTRATION"
  <2> SUFFICES ASSUME NEW n \in Nodes, incarnation[n] <= 1
               PROVE  Once(t, Registering, registered, n)'
    BY <1>4 DEF RegistersOnce
  <2>1. Once(t, Registering, registered, n)
    BY DEF IInv, RegistersOnce
  <2>2. \A v \in Workers : pc'[v] \in Registering /\ node'[v] = n =>
          \/ v # w /\ pc[v] \in Registering /\ node[v] = n
          \/ v = w /\ IsAt(1, t, n)
    BY <1>3, <1>5 DEF Registering, IsAt
  <2>3. \A i, j \in Positions' : IsAt(i, t, n)' /\ IsAt(j, t, n)' => i = j
    BY <2>1, <1>11, <1>12 DEF Once
  <2>4. IsAt(1, t, n) => ~InQueue(t, n)'
    BY <2>1, <1>2, <1>11 DEF Once, InQueue
  <2> QED BY <2>1, <2>2, <2>3, <2>4, <1>4, <1>11 DEF Once
<1>14. AnswersOnce'
  <2> DEFINE t == "RDMA_READY"
  <2> SUFFICES ASSUME NEW n \in Nodes, incarnation[n] <= 1, vllm[n] <= 1
               PROVE  /\ Once(t, {"mark_ready"}, ready, n)'
                      /\ vllm[n] = 0 =>
                           /\ ~InQueue(t, n)' /\ n \notin ready'
                           /\ \A v \in Workers : pc'[v] = "mark_ready" => node'[v] # n
    BY <1>4 DEF AnswersOnce
  <2>1. /\ Once(t, {"mark_ready"}, ready, n)
        /\ vllm[n] = 0 => /\ ~InQueue(t, n) /\ n \notin ready
                          /\ \A v \in Workers : pc[v] = "mark_ready" => node[v] # n
    BY DEF IInv, AnswersOnce
  <2>2. \A v \in Workers : pc'[v] = "mark_ready" /\ node'[v] = n =>
          \/ v # w /\ pc[v] = "mark_ready" /\ node[v] = n
          \/ v = w /\ IsAt(1, t, n)
    BY <1>3, <1>5 DEF IsAt
  <2>3. \A i, j \in Positions' : IsAt(i, t, n)' /\ IsAt(j, t, n)' => i = j
    BY <2>1, <1>11, <1>12 DEF Once
  <2>4. IsAt(1, t, n) => ~InQueue(t, n)'
    BY <2>1, <1>2, <1>11 DEF Once, InQueue
  <2> QED BY <2>1, <2>2, <2>3, <2>4, <1>4, <1>11 DEF Once
<1> QED BY <1>6, <1>7, <1>8, <1>9, <1>10, <1>13, <1>14 DEF IInv

\* start() of a node: the first registration of a node finds no trace of it, and
\* a later one is of a restarted node.
LEMMA StartNodeStep ==
  ASSUME IInv, NEW n \in Nodes, StartNode(n)
  PROVE  IInv'
<1> DEFINE e == Event("RDMA_PROCESS_REGISTRATION", n, incarnation[n] + 1)
<1>1. /\ event_queue \in Seq(Events) /\ incarnation[n] \in Nat
      /\ incarnation[n] + 1 \in Incarnations
      /\ incarnation \in [Nodes -> Incarnations \cup {0}]
      /\ inbox \in [Nodes -> Nat] /\ vllm \in [Nodes -> Nat]
  BY BootstrapAssumption DEF IInv, TypeOK, StartNode, Incarnations
<1>2. /\ e \in Events /\ e.node = n /\ e.type = "RDMA_PROCESS_REGISTRATION"
      /\ Push(e)
  BY <1>1 DEF StartNode, Event, Events
<1>3. /\ event_queue' \in Seq(Events)
      /\ \A i \in Positions' : \/ i \in Positions /\ event_queue'[i] = event_queue[i]
                               \/ event_queue'[i] = e
  BY <1>1, <1>2, QueueGrows
<1>4. /\ incarnation' = [incarnation EXCEPT ![n] = @ + 1]
      /\ inbox' = [inbox EXCEPT ![n] = 0] /\ vllm' = [vllm EXCEPT ![n] = 0]
      /\ up' = [up EXCEPT ![n] = TRUE]
      /\ UNCHANGED <<state, started, registry, node_fd, registered, ready, pc, node, conn,
                     todo, crashed, qmaps>>
  BY DEF StartNode, engineVars, registryVars, trackerVars, workerVars
<1>5. /\ incarnation'[n] = incarnation[n] + 1 /\ inbox'[n] = 0 /\ vllm'[n] = 0
      /\ \A m \in Nodes : m # n => /\ incarnation'[m] = incarnation[m]
                                   /\ inbox'[m] = inbox[m] /\ vllm'[m] = vllm[m]
      /\ \A m \in Nodes : incarnation[m] > 0 => incarnation'[m] > 0
  BY <1>1, <1>4
<1>6. TypeOK'
  BY <1>1, <1>3, <1>4 DEF IInv, TypeOK
<1>7. CompleteBeforeReady' /\ TrackerFollowsRegistry'
  BY <1>4, <1>5 DEF IInv, CompleteBeforeReady, TrackerFollowsRegistry
<1>8. DoubleLockCause'
  <2> SUFFICES ASSUME Stuck
               PROVE  \E m \in Nodes : incarnation'[m] > 1 \/ vllm'[m] > 1
    BY <1>4 DEF DoubleLockCause, Stuck, TrackerFree
  <2>1. PICK m \in Nodes : incarnation[m] > 1 \/ vllm[m] > 1
    BY DEF IInv, DoubleLockCause
  <2>2. CASE m = n
    <3>1. vllm[n] > 1 => vllm[n] > 0
      BY <1>1
    <3>2. incarnation[n] > 0
      BY <1>1, <2>1, <2>2, <3>1 DEF IInv, OnlyStarted
    <3> QED BY <3>2, <1>1, <1>5
  <2>3. CASE m # n
    BY <2>1, <2>3, <1>5
  <2> QED BY <2>2, <2>3
<1>9. WorkerView'
  BY <1>4, <1>5 DEF IInv, WorkerView, View
<1>10. OnlyStarted' /\ ReadyQueuedWhenComplete'
  <2>1. \A i \in Positions : event_queue[i].node \in Nodes
    <3>1. \A i \in Positions : event_queue[i] \in Events
      BY <1>1 DEF Positions
    <3> QED BY <3>1 DEF Events
  <2>2. incarnation'[n] > 0
    BY <1>1, <1>5
  <2>3. \A m \in Nodes : node_fd'[m] # NoConn \/ inbox'[m] > 0 \/ vllm'[m] > 0
                           => incarnation'[m] > 0
    BY <1>4, <1>5, <2>2 DEF IInv, OnlyStarted
  <2>4. \A i \in Positions' : incarnation'[event_queue'[i].node] > 0
    BY <1>2, <1>3, <1>5, <2>1, <2>2 DEF IInv, OnlyStarted
  <2>5. ReadyQueuedWhenComplete'
    BY <1>2, <1>3, <1>4 DEF IInv, ReadyQueuedWhenComplete
  <2> QED BY <2>3, <2>4, <2>5 DEF OnlyStarted
<1>11. incarnation[n] = 0 => /\ \A t : ~InQueue(t, n)
                             /\ n \notin registered /\ n \notin ready
                             /\ \A w \in Workers : pc[w] # "idle" => node[w] # n
  BY DEF IInv, OnlyStarted, TrackerFollowsRegistry, WorkerView, View, InQueue, IsAt
<1>12. /\ \A t, m : ~(t = "RDMA_PROCESS_REGISTRATION" /\ m = n) =>
            /\ InQueue(t, m)' <=> InQueue(t, m)
            /\ \A i \in Positions' : IsAt(i, t, m)' => i \in Positions /\ IsAt(i, t, m)
       /\ \A t, m : ~InQueue(t, m) =>
            \A i \in Positions' : IsAt(i, t, m)' => i = Len(event_queue) + 1
  BY <1>1, <1>2, EventAdded
<1>13. ASSUME NEW m \in Nodes, m = n, incarnation'[m] <= 1
       PROVE  incarnation[n] = 0
  BY <1>1, <1>5, <1>13
<1>14. RegistersOnce'
  <2> DEFINE t == "RDMA_PROCESS_REGISTRATION"
  <2> SUFFICES ASSUME NEW m \in Nodes, incarnation'[m] <= 1
               PROVE  Once(t, Registering, registered, m)'
    BY DEF RegistersOnce
  <2>1. CASE m # n
    <3>1. Once(t, Registering, registered, m)
      BY <2>1, <1>5 DEF IInv, RegistersOnce
    <3> QED BY <3>1, <2>1, <1>4, <1>12 DEF Once
  <2>2. CASE m = n
    <3>1. /\ ~InQueue(t, m) /\ m \notin registered
          /\ \A w \in Workers : pc[w] \in Registering => node[w] # m
      BY <2>2, <1>11, <1>13 DEF Registering
    <3> QED BY <3>1, <1>4, <1>12 DEF Once
  <2> QED BY <2>1, <2>2
<1>15. AnswersOnce'
  <2> DEFINE t == "RDMA_READY"
  <2> SUFFICES ASSUME NEW m \in Nodes, incarnation'[m] <= 1, vllm'[m] <= 1
               PROVE  /\ Once(t, {"mark_ready"}, ready, m)'
                      /\ vllm'[m] = 0 =>
                           /\ ~InQueue(t, m)' /\ m \notin ready'
                           /\ \A w \in Workers : pc'[w] = "mark_ready" => node'[w] # m
    BY DEF AnswersOnce
  <2>1. CASE m # n
    <3>1. /\ Once(t, {"mark_ready"}, ready, m)
          /\ vllm[m] = 0 => /\ ~InQueue(t, m) /\ m \notin ready
                            /\ \A w \in Workers : pc[w] = "mark_ready" => node[w] # m
      BY <2>1, <1>5 DEF IInv, AnswersOnce
    <3> QED BY <3>1, <2>1, <1>4, <1>5, <1>12 DEF Once
  <2>2. CASE m = n
    <3>1. /\ ~InQueue(t, m) /\ m \notin ready
          /\ \A w \in Workers : pc[w] = "mark_ready" => node[w] # m
      BY <2>2, <1>11, <1>13
    <3> QED BY <3>1, <1>4, <1>12 DEF Once, InQueue
  <2> QED BY <2>1, <2>2
<1> QED BY <1>6, <1>7, <1>8, <1>9, <1>10, <1>14, <1>15 DEF IInv

\* handle_broadcast_member_info: the first answer of a node that was started once
\* finds no earlier one.
LEMMA HandleBroadcastStep ==
  ASSUME IInv, NEW n \in Nodes, HandleBroadcast(n)
  PROVE  IInv'
<1> DEFINE e == Event("RDMA_READY", n, incarnation[n])
<1>1. /\ event_queue \in Seq(Events) /\ inbox[n] > 0 /\ incarnation[n] > 0
      /\ registry = Nodes
      /\ incarnation[n] \in Incarnations
      /\ inbox \in [Nodes -> Nat] /\ vllm \in [Nodes -> Nat]
  BY BootstrapAssumption DEF IInv, TypeOK, CompleteBeforeReady, OnlyStarted, HandleBroadcast,
                             Incarnations
<1>2. e \in Events /\ e.node = n /\ e.type = "RDMA_READY" /\ Push(e)
  BY <1>1 DEF HandleBroadcast, Event, Events
<1>3. /\ event_queue' \in Seq(Events)
      /\ \A i \in Positions' : \/ i \in Positions /\ event_queue'[i] = event_queue[i]
                               \/ event_queue'[i] = e
  BY <1>1, <1>2, QueueGrows
<1>4. /\ inbox' = [inbox EXCEPT ![n] = @ - 1] /\ vllm' = [vllm EXCEPT ![n] = @ + 1]
      /\ UNCHANGED <<state, started, registry, node_fd, registered, ready, pc, node, conn,
                     todo, crashed, incarnation, qmaps, up>>
  BY DEF HandleBroadcast, StartVllmServer, engineVars, registryVars, trackerVars, workerVars
<1>5. /\ inbox'[n] \in Nat /\ vllm'[n] = vllm[n] + 1
      /\ \A m \in Nodes : m # n => inbox'[m] = inbox[m] /\ vllm'[m] = vllm[m]
      /\ \A m \in Nodes : vllm[m] \in Nat
  BY <1>1, <1>4
<1>6. TypeOK'
  BY <1>1, <1>3, <1>4, <1>5 DEF IInv, TypeOK
<1>7. CompleteBeforeReady' /\ TrackerFollowsRegistry' /\ ReadyQueuedWhenComplete'
  BY <1>1, <1>4 DEF IInv, CompleteBeforeReady, TrackerFollowsRegistry,
                    ReadyQueuedWhenComplete
<1>8. DoubleLockCause'
  <2>1. \A m \in Nodes : vllm[m] > 1 => vllm'[m] > 1
    BY <1>5
  <2> QED BY <2>1, <1>4 DEF IInv, DoubleLockCause, Stuck, TrackerFree
<1>9. WorkerView'
  BY <1>4 DEF IInv, WorkerView, View
<1>10. OnlyStarted'
  <2>1. \A m \in Nodes : node_fd'[m] # NoConn \/ inbox'[m] > 0 \/ vllm'[m] > 0
                           => incarnation'[m] > 0
    BY <1>1, <1>4, <1>5 DEF IInv, OnlyStarted
  <2>2. \A i \in Positions' : incarnation'[event_queue'[i].node] > 0
    BY <1>1, <1>2, <1>3, <1>4 DEF IInv, OnlyStarted
  <2> QED BY <2>1, <2>2 DEF OnlyStarted
<1>11. /\ \A t, m : ~(t = "RDMA_READY" /\ m = n) =>
            /\ InQueue(t, m)' <=> InQueue(t, m)
            /\ \A i \in Positions' : IsAt(i, t, m)' => i \in Positions /\ IsAt(i, t, m)
       /\ \A t, m : ~InQueue(t, m) =>
            \A i \in Positions' : IsAt(i, t, m)' => i = Len(event_queue) + 1
  BY <1>1, <1>2, EventAdded
<1>12. RegistersOnce'
  <2> DEFINE t == "RDMA_PROCESS_REGISTRATION"
  <2> SUFFICES ASSUME NEW m \in Nodes, incarnation[m] <= 1
               PROVE  Once(t, Registering, registered, m)'
    BY <1>4 DEF RegistersOnce
  <2>1. Once(t, Registering, registered, m)
    BY DEF IInv, RegistersOnce
  <2> QED BY <2>1, <1>4, <1>11 DEF Once
<1>13. AnswersOnce'
  <2> DEFINE t == "RDMA_READY"
  <2> SUFFICES ASSUME NEW m \in Nodes, incarnation[m] <= 1, vllm'[m] <= 1
               PROVE  /\ Once(t, {"mark_ready"}, ready, m)'
                      /\ vllm'[m] = 0 =>
                           /\ ~InQueue(t, m)' /\ m \notin ready'
                           /\ \A w \in Workers : pc'[w] = "mark_ready" => node'[w] # m
    BY <1>4 DEF AnswersOnce
  <2>1. CASE m # n
    <3>1. /\ Once(t, {"mark_ready"}, ready, m)
          /\ vllm[m] = 0 => /\ ~InQueue(t, m) /\ m \notin ready
                            /\ \A w \in Workers : pc[w] = "mark_ready" => node[w] # m
      BY <2>1, <1>5 DEF IInv, AnswersOnce
    <3> QED BY <3>1, <2>1, <1>4, <1>5, <1>11 DEF Once
  <2>2. CASE m = n
    <3>1. vllm[m] = 0 /\ vllm'[m] # 0
      BY <2>2, <1>5
    <3>2. /\ ~InQueue(t, m) /\ m \notin ready
          /\ \A w \in Workers : pc[w] = "mark_ready" => node[w] # m
      BY <3>1 DEF IInv, AnswersOnce
    <3> QED BY <3>1, <3>2, <1>4, <1>11 DEF Once
  <2> QED BY <2>1, <2>2
<1> QED BY <1>6, <1>7, <1>8, <1>9, <1>10, <1>12, <1>13 DEF IInv

\* A peer that gave no queue pair: the process of the node ends, and leaves no event.
LEMMA HandleBroadcastThrowsStep ==
  ASSUME IInv, NEW n \in Nodes, HandleBroadcastThrows(n)
  PROVE  IInv'
<1>1. /\ UNCHANGED <<state, started, event_queue, registry, node_fd, registered, ready, pc,
                     node, conn, todo, crashed, incarnation, vllm, qmaps>>
      /\ inbox' = [inbox EXCEPT ![n] = 0] /\ up' = [up EXCEPT ![n] = FALSE]
  BY DEF HandleBroadcastThrows, engineVars, registryVars, trackerVars, workerVars
<1>2. TypeOK'
  BY <1>1 DEF IInv, TypeOK
<1>3. \A m \in Nodes : inbox'[m] > 0 => inbox[m] > 0
  BY <1>1 DEF IInv, TypeOK
<1>4. CompleteBeforeReady' /\ OnlyStarted'
  BY <1>1, <1>3 DEF IInv, CompleteBeforeReady, OnlyStarted, Positions
<1>5. /\ DoubleLockCause' /\ WorkerView' /\ TrackerFollowsRegistry'
      /\ ReadyQueuedWhenComplete'
  BY <1>1 DEF IInv, DoubleLockCause, Stuck, TrackerFree, WorkerView, View,
              TrackerFollowsRegistry, ReadyQueuedWhenComplete, Positions
<1>6. RegistersOnce' /\ AnswersOnce'
  BY <1>1, EventsKept
<1> QED BY <1>2, <1>4, <1>5, <1>6 DEF IInv

-----------------------------------------------------------------------------
(* The theorems *)

LEMMA InitEstablishes == Init => IInv
<1> SUFFICES ASSUME Init PROVE IInv
  OBVIOUS
<1>1. TypeOK
  <2>1. event_queue \in Seq(Events)
    BY DEF Init
  <2>2. /\ pc \in [Workers -> PCs] /\ node \in [Workers -> Nodes \cup {NoNode}]
        /\ conn \in [Workers -> Incarnations \cup {NoConn}]
        /\ todo \in [Workers -> SUBSET Nodes]
    BY DEF Init, PCs
  <2>3. /\ node_fd \in [Nodes -> Incarnations \cup {NoConn}]
        /\ incarnation \in [Nodes -> Incarnations \cup {0}]
        /\ up \in [Nodes -> BOOLEAN]
        /\ inbox \in [Nodes -> Nat] /\ vllm \in [Nodes -> Nat]
    BY DEF Init
  <2> QED BY <2>1, <2>2, <2>3 DEF Init, TypeOK
<1>2. Positions = {}
  BY DEF Init, Positions
<1>3. /\ CompleteBeforeReady /\ TrackerFollowsRegistry /\ DoubleLockCause /\ WorkerView
      /\ OnlyStarted /\ ReadyQueuedWhenComplete
  BY <1>2 DEF Init, CompleteBeforeReady, TrackerFollowsRegistry, DoubleLockCause, Stuck,
              TrackerFree, WorkerView, View, OnlyStarted, ReadyQueuedWhenComplete, NoConn
<1>4. RegistersOnce /\ AnswersOnce
  BY <1>2 DEF Init, RegistersOnce, AnswersOnce, Once, InQueue, Registering
<1> QED BY <1>1, <1>3, <1>4 DEF IInv

LEMMA NextKeeps == IInv /\ [Next]_vars => IInv'
<1> SUFFICES ASSUME IInv, [Next]_vars PROVE IInv'
  OBVIOUS
<1>1. CASE Next
  BY <1>1, EnterWaitingStep, StartNodeStep, HandleBroadcastStep, HandleBroadcastThrowsStep,
     ProcessEventStep, HandleStep DEF Next
<1>2. CASE UNCHANGED vars
  <2>1. UNCHANGED <<state, started, event_queue, registry, node_fd, registered, ready, pc,
                    node, conn, todo, crashed, incarnation, inbox, vllm, qmaps, up>>
    BY <1>2 DEF vars, engineVars, registryVars, trackerVars, workerVars, nodeVars
  <2>2. TypeOK'
    BY <2>1 DEF IInv, TypeOK
  <2>3. /\ DoubleLockCause' /\ WorkerView' /\ TrackerFollowsRegistry' /\ OnlyStarted'
        /\ ReadyQueuedWhenComplete' /\ CompleteBeforeReady'
    BY <2>1 DEF IInv, DoubleLockCause, Stuck, TrackerFree, WorkerView, View, OnlyStarted,
                TrackerFollowsRegistry, ReadyQueuedWhenComplete, CompleteBeforeReady,
                Positions
  <2>4. RegistersOnce' /\ AnswersOnce'
    BY <2>1, EventsKept
  <2> QED BY <2>2, <2>3, <2>4 DEF IInv
<1> QED BY <1>1, <1>2

\* In every behaviour of the handlers, the invariant holds throughout.
THEOREM Invariance == Spec => []IInv
BY InitEstablishes, NextKeeps, PTL DEF Spec

\* The registry, the tracker, the queue and the handlers' locals keep their types,
\* however many nodes register, restart and answer.
THEOREM BootstrapTyping == Spec => []TypeOK
<1>1. IInv => TypeOK
  BY DEF IInv
<1> QED BY <1>1, Invariance, PTL

\* The broadcast of process_registration is never partial: no node connects to its
\* peers, starts vLLM or is counted ready before all are in the registry.
THEOREM BroadcastIsComplete == Spec => []CompleteBeforeReady
<1>1. IInv => CompleteBeforeReady
  BY DEF IInv
<1> QED BY <1>1, Invariance, PTL

\* register_node and mark_node_ready keep the tracker within the registry: what
\* they know of can be addressed, and only registered nodes are counted ready.
THEOREM TrackerWithinRegistry == Spec => []TrackerFollowsRegistry
<1>1. IInv => TrackerFollowsRegistry
  BY DEF IInv
<1> QED BY <1>1, Invariance, PTL

\* The tracker takes its mutex twice only after a restart of a node or a second
\* broadcast to one: without them the defect of its two queries stays latent.
THEOREM LockedTwiceOnlyOnRepeat == Spec => []DoubleLockCause
<1>1. IInv => DoubleLockCause
  BY DEF IInv
<1> QED BY <1>1, Invariance, PTL

=============================================================================
