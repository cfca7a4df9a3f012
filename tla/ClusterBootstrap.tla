-------------------------- MODULE ClusterBootstrap --------------------------
(***************************************************************************)
(* Bringing the cluster up: every prefill and decode node registers with   *)
(* the orchestrator, the worker that finds all of them registered          *)
(* broadcasts the member info, every node connects its queue pairs, starts *)
(* vLLM and answers RDMA_READY, and the last answer sets the orchestrator  *)
(* RUNNING.  The handlers run in a pool of threads over NodeRegistry and   *)
(* RdmaExchangeTracker; a step of a worker is one critical section.        *)
(*                                                                         *)
(* A node keeps its node_id when it is restarted (the id is a hash of its  *)
(* address) and registers again over a new connection.  A node ends when a *)
(* peer that it has a queue pair for has none for it.                      *)
(***************************************************************************)
EXTENDS Integers, Sequences, FiniteSets

CONSTANTS Nodes,        \* the nodes that the orchestrator expects
          Workers,      \* threads of its worker pool
          PeerLists,    \* the configurations looked at: who lists whom as a peer
          MaxRestarts,  \* bound on the restarts of nodes
          NoNode        \* model value for "absent"

ASSUME BootstrapAssumption ==
  /\ IsFiniteSet(Nodes) /\ Nodes # {}
  /\ PeerLists \subseteq [Nodes -> SUBSET Nodes]
  /\ MaxRestarts \in Nat
  /\ NoNode \notin Nodes

\* A connection is named by the incarnation of the node that opened it.
Incarnations == 1 .. (MaxRestarts + 1)
NoConn == 0

Events == [type : {"RDMA_PROCESS_REGISTRATION", "RDMA_READY"},
           node : Nodes, conn : Incarnations]
Event(t, n, c) == [type |-> t, node |-> n, conn |-> c]

PCs == {"idle", "add_node", "add_fd", "register", "count", "broadcast",
        "mark_ready", "set_running", "wedged"}

VARIABLES
  state,        \* OrchestratorEngine::state_
  started,      \* start() has stored WAITING_FOR_NODES
  event_queue,  \* the orchestrator's event queue, a FIFO
  registry,     \* NodeRegistry: keys of nodes_
  node_fd,      \* NodeRegistry: connection recorded for a node
  registered,   \* RdmaExchangeTracker::registered_nodes_
  ready,        \* RdmaExchangeTracker::ready_nodes_
  pc, node, conn, todo,  \* locals of each worker
  crashed,      \* the orchestrator process has terminated
  qmaps,        \* per node, the peers it has made a queue pair for
  incarnation,  \* per node, 0 before its first start
  up,           \* per node, its process runs
  inbox,        \* per node, member info messages not handled yet
  vllm          \* per node, vLLM servers started by this incarnation

engineVars   == <<state, started>>
registryVars == <<registry, node_fd>>
trackerVars  == <<registered, ready>>
workerVars   == <<pc, node, conn, todo>>
nodeVars     == <<qmaps, incarnation, up, inbox, vllm>>
vars == <<engineVars, event_queue, registryVars, trackerVars, workerVars,
          crashed, nodeVars>>

-----------------------------------------------------------------------------
Init ==
  /\ state = "STARTING" /\ started = FALSE
  /\ event_queue = <<>>
  /\ registry = {} /\ node_fd = [n \in Nodes |-> NoConn]
  /\ registered = {} /\ ready = {}
  /\ pc = [w \in Workers |-> "idle"]
  /\ node = [w \in Workers |-> NoNode]
  /\ conn = [w \in Workers |-> NoConn]
  /\ todo = [w \in Workers |-> {}]
  /\ crashed = FALSE
  /\ qmaps \in PeerLists
  /\ incarnation = [n \in Nodes |-> 0]
  /\ up = [n \in Nodes |-> FALSE]
  /\ inbox = [n \in Nodes |-> 0]
  /\ vllm = [n \in Nodes |-> 0]

\* A worker wedged in the tracker holds its mutex for ever.
TrackerFree == \A w \in Workers : pc[w] # "wedged"

Stuck == crashed \/ ~TrackerFree

Push(e) == event_queue' = Append(event_queue, e)

Goto(w, l) == pc' = [pc EXCEPT ![w] = l]

Finish(w) ==
  /\ Goto(w, "idle")
  /\ node' = [node EXCEPT ![w] = NoNode]
  /\ conn' = [conn EXCEPT ![w] = NoConn]
  /\ todo' = [todo EXCEPT ![w] = {}]

-----------------------------------------------------------------------------
(* The nodes *)

\* Node::start: by the launch scripts, and again after a crash of the node.  A
\* broadcast sent to the connection of a dead incarnation does not arrive.
StartNode(n) ==
  /\ incarnation[n] <= MaxRestarts
  /\ incarnation' = [incarnation EXCEPT ![n] = @ + 1]
  /\ up' = [up EXCEPT ![n] = TRUE]
  /\ inbox' = [inbox EXCEPT ![n] = 0]
  /\ vllm' = [vllm EXCEPT ![n] = 0]
  /\ Push(Event("RDMA_PROCESS_REGISTRATION", n, incarnation[n] + 1))
  /\ UNCHANGED <<engineVars, registryVars, trackerVars, workerVars, crashed, qmaps>>

\* start_vllm_server forks whenever it is called; vllm_pid keeps the last one.
StartVllmServer(n) == vllm' = [vllm EXCEPT ![n] = @ + 1]

\* The peers of n that gave no queue pair for it in the member info: they do not list
\* it, or have no queue pairs at all (use_gpu is false).
Missing(n) == {m \in qmaps[n] : n \notin qmaps[m]}

\* Mutant: a node brings itself up without being told about its peers.
HandleBroadcastUnasked(n) ==
  /\ up[n] /\ Missing(n) = {}
  /\ inbox' = [inbox EXCEPT ![n] = @ - 1]
  /\ StartVllmServer(n)
  /\ Push(Event("RDMA_READY", n, incarnation[n]))
  /\ UNCHANGED <<engineVars, registryVars, trackerVars, workerVars, crashed,
                 qmaps, incarnation, up>>

\* Mutant: RDMA_READY is sent again, to be sure.
HandleBroadcastReadyTwice(n) ==
  /\ up[n] /\ inbox[n] > 0 /\ Missing(n) = {}
  /\ inbox' = [inbox EXCEPT ![n] = @ - 1]
  /\ StartVllmServer(n)
  /\ event_queue' = event_queue \o <<Event("RDMA_READY", n, incarnation[n]),
                                     Event("RDMA_READY", n, incarnation[n])>>
  /\ UNCHANGED <<engineVars, registryVars, trackerVars, workerVars, crashed,
                 qmaps, incarnation, up>>

\* handle_broadcast_member_info: take over what the peers gave, connect the queue pairs
\* (a failure is logged and ignored), fork a vLLM server, answer.  Nothing remembers
\* that a first broadcast was handled.
HandleBroadcast(n) ==
  /\ up[n] /\ inbox[n] > 0 /\ Missing(n) = {}
  /\ inbox' = [inbox EXCEPT ![n] = @ - 1]
  /\ StartVllmServer(n)
  /\ Push(Event("RDMA_READY", n, incarnation[n]))
  /\ UNCHANGED <<engineVars, registryVars, trackerVars, workerVars, crashed,
                 qmaps, incarnation, up>>

\* A peer gave nothing: the handler throws, no caller catches it, and the process ends
\* before it has started vLLM or answered.
HandleBroadcastThrows(n) ==
  /\ up[n] /\ inbox[n] > 0 /\ Missing(n) # {}
  /\ up' = [up EXCEPT ![n] = FALSE]
  /\ inbox' = [inbox EXCEPT ![n] = 0]
  /\ UNCHANGED <<engineVars, event_queue, registryVars, trackerVars, workerVars, crashed,
                 qmaps, incarnation, vllm>>

-----------------------------------------------------------------------------
(* The orchestrator *)

\* start() stores the state after the worker threads have been started.
EnterWaiting ==
  /\ ~crashed /\ ~started
  /\ started' = TRUE
  /\ state' = "WAITING_FOR_NODES"
  /\ UNCHANGED <<event_queue, registryVars, trackerVars, workerVars, crashed,
                 nodeVars>>

\* wait_and_pop and the switch of process_event.
ProcessEvent(w) ==
  LET e == Head(event_queue)
  IN /\ ~crashed
     /\ pc[w] = "idle"
     /\ event_queue # <<>>
     /\ event_queue' = Tail(event_queue)
     /\ Goto(w, IF e.type = "RDMA_READY" THEN "mark_ready" ELSE "add_node")
     /\ node' = [node EXCEPT ![w] = e.node]
     /\ conn' = [conn EXCEPT ![w] = e.conn]
     /\ UNCHANGED <<engineVars, registryVars, trackerVars, todo, crashed, nodeVars>>

AddNode(w) ==
  /\ pc[w] = "add_node"
  /\ registry' = registry \cup {node[w]}
  /\ Goto(w, "add_fd")
  /\ UNCHANGED <<engineVars, event_queue, node_fd, trackerVars, node, conn, todo,
                 crashed, nodeVars>>

AddNodeFd(w) ==
  /\ pc[w] = "add_fd"
  /\ node_fd' = [node_fd EXCEPT ![node[w]] = conn[w]]
  /\ Goto(w, "register")
  /\ UNCHANGED <<engineVars, event_queue, registry, trackerVars, node, conn, todo,
                 crashed, nodeVars>>

\* register_node and mark_node_ready call a query that takes the mutex they
\* already hold: undefined behaviour.  The mutex detects the deadlock and throws,
\* which ends the process (nothing catches it in a worker thread), or the thread
\* waits for itself with the mutex held.
LockTwice(w) ==
  /\ \/ crashed' = TRUE /\ UNCHANGED pc
     \/ Goto(w, "wedged") /\ UNCHANGED crashed
  /\ UNCHANGED <<engineVars, event_queue, registryVars, trackerVars, node, conn,
                 todo, nodeVars>>

RegisterNode(w) ==
  /\ pc[w] = "register"
  /\ TrackerFree
  /\ \/ node[w] \in registered /\ LockTwice(w)
     \/ /\ node[w] \notin registered
        /\ registered' = registered \cup {node[w]}
        /\ Goto(w, "count")
        /\ UNCHANGED <<engineVars, event_queue, registryVars, ready, node, conn,
                       todo, crashed, nodeVars>>

\* Mutant: the node being registered is counted twice.
CountNodesTooEarly(w) ==
  /\ pc[w] = "count"
  /\ \/ /\ Cardinality(registry) + 1 < Cardinality(Nodes)
        /\ Finish(w)
     \/ /\ Cardinality(registry) + 1 >= Cardinality(Nodes)
        /\ todo' = [todo EXCEPT ![w] = registry]
        /\ Goto(w, "broadcast")
        /\ UNCHANGED <<node, conn>>
  /\ UNCHANGED <<engineVars, event_queue, registryVars, trackerVars, crashed,
                 nodeVars>>

\* Mutant: a worker leaves the broadcast to another one that is at it already.
CountNodesUnlessBroadcasting(w) ==
  /\ pc[w] = "count"
  /\ \/ /\ \/ Cardinality(registry) # Cardinality(Nodes)
           \/ \E v \in Workers : pc[v] = "broadcast"
        /\ Finish(w)
     \/ /\ Cardinality(registry) = Cardinality(Nodes)
        /\ \A v \in Workers : pc[v] # "broadcast"
        /\ todo' = [todo EXCEPT ![w] = registry]
        /\ Goto(w, "broadcast")
        /\ UNCHANGED <<node, conn>>
  /\ UNCHANGED <<engineVars, event_queue, registryVars, trackerVars, crashed,
                 nodeVars>>

\* get_total_registered_nodes against the expected number, and get_all_nodes.
CountNodes(w) ==
  /\ pc[w] = "count"
  /\ \/ /\ Cardinality(registry) # Cardinality(Nodes)
        /\ Finish(w)
     \/ /\ Cardinality(registry) = Cardinality(Nodes)
        /\ todo' = [todo EXCEPT ![w] = registry]
        /\ Goto(w, "broadcast")
        /\ UNCHANGED <<node, conn>>
  /\ UNCHANGED <<engineVars, event_queue, registryVars, trackerVars, crashed,
                 nodeVars>>

\* A message to the connection of a dead incarnation is lost, or reaches the new
\* one when the kernel gave it the same fd.
Deliver(n) ==
  \/ up[n] /\ inbox' = [inbox EXCEPT ![n] = @ + 1]
  \/ (~up[n] \/ node_fd[n] # incarnation[n]) /\ UNCHANGED inbox

\* One round of the loop that sends BROADCAST_MEMBER_INFO, in any order of the
\* nodes; a node without fd is skipped.
BroadcastTo(w, n) ==
  /\ pc[w] = "broadcast"
  /\ n \in todo[w]
  /\ todo' = [todo EXCEPT ![w] = @ \ {n}]
  /\ IF node_fd[n] = NoConn THEN UNCHANGED inbox ELSE Deliver(n)
  /\ UNCHANGED <<engineVars, event_queue, registryVars, trackerVars, pc, node,
                 conn, crashed, qmaps, incarnation, up, vllm>>

EndBroadcast(w) ==
  /\ pc[w] = "broadcast"
  /\ todo[w] = {}
  /\ Finish(w)
  /\ UNCHANGED <<engineVars, event_queue, registryVars, trackerVars, crashed,
                 nodeVars>>

\* Mutant: no test whether the node is registered.
MarkNodeReadyUnchecked(w) ==
  /\ pc[w] = "mark_ready"
  /\ TrackerFree
  /\ \/ node[w] \in ready /\ LockTwice(w)
     \/ /\ node[w] \notin ready
        /\ ready' = ready \cup {node[w]}
        /\ IF Cardinality(ready') = Cardinality(registered)
           THEN Goto(w, "set_running") /\ UNCHANGED <<node, conn, todo>>
           ELSE Finish(w)
        /\ UNCHANGED <<engineVars, event_queue, registryVars, registered,
                       crashed, nodeVars>>

\* mark_node_ready: all ready means as many as have registered by now.
MarkNodeReady(w) ==
  /\ pc[w] = "mark_ready"
  /\ TrackerFree
  /\ \/ /\ node[w] \notin registered
        /\ Finish(w)
        /\ UNCHANGED <<engineVars, event_queue, registryVars, trackerVars,
                       crashed, nodeVars>>
     \/ node[w] \in registered /\ node[w] \in ready /\ LockTwice(w)
     \/ /\ node[w] \in registered /\ node[w] \notin ready
        /\ ready' = ready \cup {node[w]}
        /\ IF Cardinality(ready') = Cardinality(registered)
           THEN Goto(w, "set_running") /\ UNCHANGED <<node, conn, todo>>
           ELSE Finish(w)
        /\ UNCHANGED <<engineVars, event_queue, registryVars, registered,
                       crashed, nodeVars>>

SetRunning(w) ==
  /\ pc[w] = "set_running"
  /\ state' = "RUNNING"
  /\ Finish(w)
  /\ UNCHANGED <<started, event_queue, registryVars, trackerVars, crashed,
                 nodeVars>>

-----------------------------------------------------------------------------
Handle(w) ==
  /\ ~crashed
  /\ \/ AddNode(w) \/ AddNodeFd(w) \/ RegisterNode(w) \/ CountNodes(w)
     \/ \E n \in Nodes : BroadcastTo(w, n)
     \/ EndBroadcast(w) \/ MarkNodeReady(w) \/ SetRunning(w)

Next ==
  \/ EnterWaiting
  \/ \E n \in Nodes : StartNode(n) \/ HandleBroadcast(n) \/ HandleBroadcastThrows(n)
  \/ \E w \in Workers : ProcessEvent(w) \/ Handle(w)

Spec == Init /\ [][Next]_vars

\* Every node is launched once, threads run, and the event loops deliver.
\* Restarts are not promised.
Fairness ==
  /\ WF_vars(EnterWaiting)
  /\ \A n \in Nodes : WF_vars(incarnation[n] = 0 /\ StartNode(n))
  /\ \A n \in Nodes : WF_vars(HandleBroadcast(n))
  /\ \A w \in Workers : WF_vars(Handle(w))
  /\ WF_vars(\E w \in Workers : ProcessEvent(w))

FairSpec == Spec /\ Fairness

-----------------------------------------------------------------------------
(* Properties *)

\* Every location holds a value of its type.
TypeOK ==
  /\ state \in {"STARTING", "WAITING_FOR_NODES", "RUNNING"}
  /\ started \in BOOLEAN /\ crashed \in BOOLEAN
  /\ event_queue \in Seq(Events)
  /\ registry \subseteq Nodes
  /\ node_fd \in [Nodes -> Incarnations \cup {NoConn}]
  /\ registered \subseteq Nodes /\ ready \subseteq Nodes
  /\ pc \in [Workers -> PCs]
  /\ node \in [Workers -> Nodes \cup {NoNode}]
  /\ conn \in [Workers -> Incarnations \cup {NoConn}]
  /\ todo \in [Workers -> SUBSET Nodes]
  /\ qmaps \in PeerLists
  /\ incarnation \in [Nodes -> Incarnations \cup {0}]
  /\ up \in [Nodes -> BOOLEAN]
  /\ inbox \in [Nodes -> Nat] /\ vllm \in [Nodes -> Nat]

\* No node is told who its peers are, and so none answers RDMA_READY, before
\* every expected node is in the registry with its queue-pair info: a broadcast
\* is never partial, whichever worker's count triggers it.
CompleteBeforeReady ==
  (\E n \in Nodes : inbox[n] > 0 \/ vllm[n] > 0 \/ n \in ready) => registry = Nodes

\* The tracker follows the registry: it knows a node only when a message to the
\* node can be addressed, and takes no READY from one that it does not know.
TrackerFollowsRegistry ==
  /\ ready \subseteq registered
  /\ \A n \in registered : n \in registry /\ node_fd[n] # NoConn

\* The tracker locks its mutex twice only for a node that was restarted, or that
\* has been told to bring itself up twice because the handlers of two
\* registrations overlapped.
DoubleLockCause ==
  Stuck => \E n \in Nodes : incarnation[n] > 1 \/ vllm[n] > 1

\* Unless the orchestrator is stuck, every node becomes ready whose peers have queue
\* pairs for it, also when others end over theirs: a node that a broadcast skipped, or
\* whose READY came before its registration, is told again by the worker that handles
\* its own registration.
EveryNodeJoins == \A n \in Nodes : (Missing(n) = {}) ~> (Stuck \/ n \in ready)
=============================================================================
