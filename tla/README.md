# A specification of rdma-kv-cache

TLA+ models of the C++/Python system in `src/`: an orchestrator that routes LLM
requests to a prefill node and a decode node, and the nodes, which move the KV
cache of a request from one GPU to the other by RDMA and run vLLM on both ends.
Paths below are relative to the repository's `src/`; `.../orchestrator/` stands
for `cpp/apps/orchestrator/`.

## The system

```
 client --CLIENT_REQUEST--> orchestrator --PREPARE_DECODE_SLOT--> decode node
                              |                                     ^   |
                              +--ASSIGN_REQUEST--> prefill node     |   |
                              <--PREFILL_COMPLETE--      |          |   |
                                                         +== RDMA ==+   |
                              <------------- DECODE_COMPLETE -----------+
```

Every process has the same skeleton: one epoll thread parses messages and pushes
them into an `EventQueue`; a pool of worker threads (4 by default) pops events
and runs handlers to the end; handlers share the process's objects, each guarded
by its own mutex, and answer through the epoll thread's output buffers.  A decode
node also has a thread that polls the RDMA receive queue.

| Part | State it keeps | Operations | What is hard | What makes it correct |
|---|---|---|---|---|
| `RequestRouter` | per decode node a FIFO of free slots and two maps slot/request; request -> decode node; load counters | `select_nodes_and_allocate_slot`, `free_slot`, `increment/decrement_node_load` | selection, allocation, recording and counting are separate critical sections | a slot has one holder, is never lost or duplicated, and stays with a live request; loads are not underestimated |
| `WorkerOrchestrator` | none of its own | one handler per message type | a report can overtake the handler it answers; partial failures | a failed request gives everything back and its client is told |
| `NodeRegistry` | nodes, health flags, node -> fd | add, add fd, health, queries | node and fd appear in two steps | a node that is announced can be reached |
| `RdmaExchangeTracker` | registered and ready nodes | `register_node`, `mark_node_ready` | overlapping registrations, restarts, a recursive lock | RUNNING only when every node is ready |
| `RequestTrackerOrchestrator` | status, request info, client fd | `track_request`, `update_status`, `get_client_fd` | used across handlers | the client of a request can be answered |
| `OrchestratorEngine` | life-cycle state | `start`, `shutdown` | state stored after the threads run | state matches what has happened |
| `EventQueue`, worker pools | bounded FIFO, stop flag, threads | `push`, `wait_and_pop`, `wake_all` | full queue, stopping | events are handled once; stop terminates |
| `Node`, `WorkerNode` | life-cycle state, vLLM child, poll thread | start, broadcast, prepare, KV-complete handlers, poll loop | poll thread against workers; repeated broadcasts | one vLLM server; a decode starts when its cache is there |
| `RequestTrackerLayer` | requests, sequence number -> request, layers received | `add_request`, `resolve_seq_num`, `mark_layer_received`, `update_state`, `remove_request` | resolve and mark are two critical sections; each layer completes twice | a layer is counted for the request that wrote it; one decode per request |
| `RDMAEngine`, bindings, `rdma_connector.py` | queue pairs, completion queues, posted receives | poll, replenish, write with immediate | loss of a whole batch on one error; byte order; queue depth | every write is seen once by the tracker |
| epoll workers | connections, input and output buffers | read, write, `enqueue_response` | arming EPOLLOUT races with queueing | a queued response is sent |
| messages, connections | frames on a TCP stream | send, receive, close | pieces, garbled frames, ends in the middle | framing stays in step |
| memory layout (router, nodes, connector) | offsets of slots and layers | assign, save, load | four computations from four configurations | caches do not overlap; what is written is found |
| device layer | verbs and CUDA handles | create, destroy | a call fails half-way | nothing is taken from under another object |
| logging, HTTP client, mains, scripts | - | - | - | - |

`PROJECT.json` lists all of them with what is modelled, and the hazards, each at
its line.

## Modules

| Module | Models | Extended or used by |
|---|---|---|
| `SlotPool` | abstract: what the slot allocator promises | `RequestRouting` (`Pool`), `RequestRoutingProofs` |
| `RequestRouting` | the orchestrator's request path | `MCRequestRouting`, `RequestRoutingProofs` |
| `RequestRoutingProofs` | its theorems | `RequestLoadProofs` |
| `RequestLoadProofs` | theorems about its loads, failures and assignments | - |
| `ClusterBootstrap` | registration, broadcast, readiness, restarts | `MCClusterBootstrap`, `BootstrapProofs` |
| `BootstrapProofs` | its theorems | - |
| `DecodeTracker` | the decode node: RDMA completions, poll thread, tracker, decode workers | `MCDecodeTracker`, `DecodeProofs` |
| `DecodeProofs` | its theorems | - |
| `EpollIO` | the epoll thread of any process: connections, framing, output buffers | `MCEpollIO`, `EpollProofs` |
| `EpollProofs` | its theorems | - |
| `RdmaChannel` | prefill nodes writing to one decode node: signalling, waiting, receive requests | `MCRdmaChannel`, `ChannelProofs` |
| `ChannelProofs` | its theorems | - |
| `NodeLifecycle` | start and shutdown of any process: threads, RDMA objects, vLLM | `MCNodeLifecycle`, `LifecycleProofs` |
| `LifecycleProofs` | its theorems | - |
| `SlotLayout` | where router, writer, connector and tracker place a cache | `MCSlotLayout`, `SlotLayoutProofs` |
| `SlotLayoutProofs` | its theorems | - |

Each module looks at one concern of the running system and takes the others as
its environment: what `EpollIO` delivers into the event queue is what workers
pop in `RequestRouting` and `ClusterBootstrap`; the objects that `NodeLifecycle`
creates are the queue pairs of `RdmaChannel`; a completion that `RdmaChannel`
hands to the poll loop is an element of `cq` in `DecodeTracker`, and the slot it
names is the one that `RequestRouting` allocated and `SlotLayout` places.

In all of them **an action is one critical section** (or one step that touches
state no lock guards), a thread's program counter says which one comes next, and
threads interleave between any two.  `SlotLayout` has no threads; there an action
is one call of a handler or of the connector.  Operators with a comment
"Mutant:" are plausible mistakes; no specification uses them, they show that a
property can fail.

### RequestRouting

`free_slots`, `request_to_slot`, `slot_to_request`, `request_to_decode_node` and
`node_loads` are the fields of `RequestRouter` and its `NodeSlotAllocator`s;
`registered`, `healthy`, `node_fd` those of `NodeRegistry`; `status` and `info`
those of `RequestTrackerOrchestrator`; `pc`, `req`, `prefill`, `decode`, `slot`,
`cand` the locals of a handler.  `produced` and `sent` are history: what
connections have delivered and what has been sent.

* `handle_client_request` is the chain `SelectPrefill`, `FilterDecode`,
  `PickDecode`, `AllocateSlot`, `MapRequest`, `TrackRequest`, `SendPrepare`,
  `SendAssign`, `CountPrefill`, `CountDecode`, with the exits `Refuse` (client is
  told) and `AbortRouting` (slot freed, nobody told).  A registry query is merged
  with the critical section that follows it in the same step.
* `handle_request_failed` is `FailStatus`, `FailFree`, `FailUncountPrefill`,
  `FailUncountDecode`, `FailReply`; the error branch of
  `handle_prefill_complete_orchestrator` makes the same calls and shares them.
* `process_event` is `FirstStep`; it has no case for `DECODE_COMPLETE`, and
  `handle_decode_complete` is therefore not in the model.
* Allocators are created lazily with all slots free and are present from the
  start here.  `select_least_loaded` walks an `unordered_map`, so among equally
  loaded nodes any may win.
* The nodes are the environment: after `ASSIGN_REQUEST` a request may be reported
  as failed, prefilled or decoded, once each, in any order.  **`REQUEST_FAILED`
  has no sender in the repository yet** (`cpp/nodes/worker_node.cpp:335` is a TODO
  for it); the handler exists, so the reports are in the environment.
* `HealthUpdates` are the values `update_node_health` is called with.  It has no
  caller: `{}` is the program as it is, in which no request is ever routed;
  `{TRUE}` is the program with a health reporter, which the runs use.

### ClusterBootstrap

`registered` and `ready` are the tracker's sets, `registry` and `node_fd` the
registry's maps, `state` and `started` the engine's; `incarnation`, `inbox` and
`vllm` describe each node: how often it was started, the broadcasts it has not
handled, the vLLM servers this incarnation forked.

* `handle_process_rdma_registration` is `AddNode`, `AddNodeFd`, `RegisterNode`,
  `CountNodes`, then one `BroadcastTo` per node and `EndBroadcast`.
  `CountNodes` merges `get_total_registered_nodes` and `get_all_nodes`: when the
  total equals the expected number the registry is complete and no longer grows.
* `handle_ready` is `MarkNodeReady` and `SetRunning`.
* `LockTwice` is the call of a locking query with the `shared_mutex` already held
  exclusively.  This is undefined behaviour; the two outcomes a build can produce
  are the process ending (glibc reports the deadlock, the `system_error` is caught
  nowhere) and the thread waiting for itself with the mutex held (`wedged`).
* A restart is the crash and the new start in one step.  The node keeps its id and
  opens a new connection; a message to the old fd is lost, or reaches the new
  connection if the kernel reused the number (`Deliver`).
* `qmaps` is who lists whom as a peer, from the configuration files.  A node whose
  peer does not list it finds no queue pair for itself: `handle_broadcast_member_info`
  throws, nothing in the worker pool catches it, and the node ends before it has
  answered (`HandleBroadcastThrows`).  Otherwise `HandleBroadcast` answers: a
  `connect_all_qps` that fails is logged and ignored.
* Only a handler of the broadcast and a restart end a node here; the other ways a
  process may end are in `NodeLifecycle` and `DecodeTracker`.

### DecodeTracker

`tracked`, `seq_to_request`, `state`, `received` are `RequestTrackerLayer`'s maps;
`cq` the receive completion queue, `batch`, `poll_pc`, `poll_req` the locals of
`rdma_poll_loop`; `landed` counts the writes of a request that are in the buffer,
`phase` and `slot_of` are what the orchestrator did.  `seen` records, at every
decode call, how many of the request's writes were in the buffer.

* `Write` is one of the two writes that `save_kv_layer` makes per layer, keys
  first, both with the immediate value `[slot | layer]`; writes of one request use
  one queue pair and land in order, those of different requests mix.  The
  connector takes the slot number from the request itself (where the bytes go, which it
  looks up otherwise, is `SlotLayout`'s concern); its fall-back to a hash is not
  modelled.
* `Poll` is `poll_recv_cq`: one failing completion drops the batch.  `Resolve`
  and `MarkLayerReceived` are two critical sections of the tracker, with worker
  steps between them.
* `Decoded` says what `decode_layer_id` finds on a host of either byte order:
  `htonl` on one side, nothing on the other.  Byte order is chosen in `Init`.
* `handle_prepare_decode_slot` is `AddRequest` and `SetWaiting`;
  `handle_kv_transfer_complete` is `GetRequest`, `SetDecoding`, `PostDecode`, then
  `SetFailed` or `SetCompleted`, `SendDecodeComplete`, `RemoveRequest`.
  An exception (`add_request`, JSON parsing) is caught nowhere and ends the
  process.
* The orchestrator never frees the slot of a finished request (see
  `FinishedFreesSlot`), but does when it gives a request up after
  `PREPARE_DECODE_SLOT`; `AfterPrepare` has both continuations.

### EpollIO

`connections`, `input_buffer`, `reading_header`, `output_buffer` are the fields of
`EpollWorkerBase` and its `ConnectionState`; `armed` is what epoll watches, `batch`
what `epoll_wait` returned, `epc` and `cur` where the thread is in its loop;
`peer`, `kinds`, `sent`, `received`, `wire` are the TCP connections, `fd_of` the
descriptor that the kernel gave one; `handed`, `queued`, `disarmed` are history.

* A frame is two units, its header and its payload.  TCP delivers any number of
  units at a time; a payload may be refused by `deserialize_message` and a header
  may announce an impossible length.
* The loop is `EpollWait`, then per event `StartAccepting` / `Accept` /
  `AcceptNothing`, `HandleError`, `HandleRead` or `HandleReadEnd`, `ParseHeader` /
  `ParsePayload` / `ParseBadLength` / `ParseEnd`, `WriteSome` / `WriteAll` /
  `WriteError`.  `Disarm` is a step of its own because `handle_write` unlocks
  before `modify_epoll`.
* `Drop` is `remove_connection`; the descriptor is free for the next `Accept`.
* `HandleReadEnd` removes what was received together with the end of the stream:
  the code returns before it parses.
* `WriteKills`: `send` is called without `MSG_NOSIGNAL` and nothing ignores
  SIGPIPE, so a response to a client that has closed ends the process.
* `enqueue_response` of any handler is `EnqueueResponse`; responses carry the name
  of the message they answer.

### RdmaChannel

`counter` is `write_counter_`, `posted`, `reclaimed`, `signalled` and `send_cq`
describe a sender's queue pair, `recv_wrs` and `recv_cq` the receiving side,
`failures` and `fatal` are `recv_wr_replenish_failures_` and `rdma_fatal_error_`.

* A vLLM thread runs `StartStep`, writes (`Write`, `WriteFails`, `WriteRejected`)
  and `Wait`.  `SignalNow` is the modulo of `rdma_write`; a refused write was
  counted all the same.
* `ConnectAll` is `connect_all_qps` of a broadcast with `post_recv_wrs`, which posts
  everything on the first queue pair of the map.  `ConnectFails` stops half-way.
* `Poll`, `PollBad` and `PollPostFails` are `poll_recv_cq`: replenish by the size of
  the batch, give a batch up when one completion is bad, stop for good after
  `MaxFailures` failures in a row.
* `Land`, `RetriesExceeded`, `RecvQpBreaks` and `Flushed` are the adapters and the
  network (external).
* The model starts from a connector that has its engine.  `node_accessor` keeps
  the engine in a global of the node's process, while vLLM is forked and executed:
  in that process the global is empty and the connector's constructor raises.

### NodeLifecycle

`main` is where the main thread is in `start` or `shutdown`; `alive` the RDMA
objects that exist, `initialized`, `peer_qps` and `step` belong to `RDMAEngine`;
`io`, `worker`, `poll` are the other threads with their flags `io_running`,
`pool_running`, `poll_running`; `events` and `stopped` are the `EventQueue`;
`vllm_pid`, `vllms` the child.

* The objects are created in `CreateOrder`; when a call fails its function undoes
  `UndoneBy` and `start` goes to the clean-up it has for that place.
* `Destroy` takes one object after the other in `DestroyOrder`.  An object that is
  still needed stays (the adapter answers EBUSY), memory is freed anyway.
* The condition variable of `EventQueue` is modelled as such: a worker that finds
  nothing sleeps (`PopNothing`), `IoNotify` and `NotifyAll` come after the lock is
  released, and a worker may wake for no reason.
* A bring-up message is the broadcast (nodes: connect queue pairs, start vLLM,
  answer, store RUNNING) or the last `RDMA_READY` (orchestrator: store RUNNING).
* `StartIo(FALSE)`: `epoll_worker_.start` is void; if it fails, `start` goes on
  without an epoll thread.
* `shutdown` reads `vllm_pid` three times while workers write it without a lock:
  `LookForServer` (is there one), `Kill`, `CallWaitpid`, then `WaitpidReturns`, with
  forks in between.  An id of -1, which a failed fork leaves, means every server to
  `kill` and any to `waitpid`.  A server that is sent SIGTERM ends (the child is a
  `bash` that runs it), and no server ends by itself.
* A handler may throw (`Throw`: a peer without a queue pair, a message that does not
  parse), which nothing catches and which ends the process; one of the orchestrator may
  take the mutex of the exchange tracker twice and wait for itself (`Wedge`, from
  `ClusterBootstrap`), and others then wait for it (`TrackerFree`).
* The end of the process and its destructors are not modelled; a process that ends by
  an exception leaves its servers behind, and no property says otherwise.

### SlotLayout

Actions are `Assign` (router and tracker take a slot), `StartStep` (vLLM on a prefill
node binds the metadata of a step: the requests whose caches it stores, in some order),
`Save` (`save_kv_layer`, one layer of one request: keys then values, each refused for
the reasons in the code) and `Load` (`start_load_kv` of one layer).  `written` holds byte
ranges, with the request they are for and the slot they go into.

* The router uses the defaults of `RequestRouterSlotConfig`, the nodes their
  configuration (`Valid` is what `Config` checks).  The connector reads the layer size,
  the number of layers and the buffer size from `kv_connector_extra_config`, and
  `start_vllm_server` passes none of them, so it always has its defaults (128 MB, 32,
  16 GB): the `Connector...` constants.  Nothing in the code compares the three.
* `_calculate_rdma_offset` finds the slot of a request by comparing token ids with those
  of every request of the step, and takes the first that is equal (`Found`).  Two
  requests with equal prompts in one step both get the slot of the first.  `Prompts`
  stands for the token ids; the size of a cache is a function of them (`CacheSize`).
* `save_kv_layer` takes the requests of a step in their order and an error ends it
  (`ComesTo`).  `known` is false when the metadata lacks `slot_id` or
  `slot_base_offset`, which is an error; nothing in the repository puts them there: the
  nodes send them, with a `layer_size`, only in the `extra_body` of the HTTP request
  (`cpp/nodes/worker_node.cpp:322`, `:397`), and how vLLM hands them on is outside.
  `registered` says whether the tensor lies in registered memory (a gathered copy does
  not).
* The prefill nodes are told apart by their configuration.  Caches have the standard
  shape (2, tokens, width); metadata of requests that are not stored is left out.
* `Load` is the call in a connector whose role is "recv".  The role is read from the same
  configuration and is "send" by default, so that in the program as it is
  `start_load_kv` returns at once.
* `FitsIn` is the assumption that makes the layout sound and that no line checks:
  keys and values of a layer fit into a layer of the connector, and its layers into a
  slot of the router.

## Runs

`CHECK_DEADLOCK FALSE` is set everywhere: requests, starts, messages and reports
are finite, so every behaviour ends in a quiet state.  Model values `r1 r2`,
`w1 w2`, `n1 n2`, `p1 p2`, `d1 d2`, `c1 c2` stand for requests, workers, nodes,
prefill and decode nodes, and connections.

| Run | Bounds | Result |
|---|---|---|
| `MCRouter` | 2 workers, 2 requests, 1 prefill and 1 decode node, 1 slot, queue of 1, `FairSpec` | passes, about 160 000 states: `TypeOK`, `SlotAccounting`, `NoOrphanSlot`, `LiveHoldsItsSlot`, `LoadCoversLive`, refinement `PoolSpec`, `FailureSettled` |
| `MCRouterSlotLeak` | the same with 2 slots | `FinishedFreesSlot` violated: a finished request keeps its slot |
| `MCBootstrap` | 2 nodes that list each other or of which one does not, 1 restart each, 2 workers, `FairSpec` | passes, about 430 000 states: `TypeOK`, `CompleteBeforeReady`, `TrackerFollowsRegistry`, `DoubleLockCause`, `EveryNodeJoins` |
| `MCDecode` | 2 requests, 2 workers, slots 0..2 of which the node has 0..1, 2 layers, batches of 2, 1 failure, symmetric requests and workers | passes, about 1.5 million states: `TypeOK`, `TrackerMapsAgree`, `LayerComesFromItsWrite`, `DecodeOnce`, `DecodeAfterKeys` |
| `MCDecodeLiveness` | 2 requests, 1 worker, no failures, `FairSpec` | passes, about 400 000 states: `TransferStartsDecode` |
| `MCEpoll` | 2 connections of which one sends 2 messages of any kind, 2 descriptors, 1 worker, event queue of 1, `FairSpec` | passes, about 290 000 states: `TypeOK`, `OutputIntact`, `FramesInStep`, `StrayOnlyByReuse`, `QueuedIsSent`, `EveryoneAccepted` |
| `MCEpollStuck` | 1 connection, 2 good messages | `QueuedIsArmed` violated: EPOLLOUT is taken back from a queued response |
| `MCChannel` | 2 peers, steps of 3 writes (6 and 3 in all), batch 2, send queue 3, receive queue 2, polls of 2, 1 refused write, 2 faults, `FairSpec` | passes, about 140 000 states: `TypeOK`, `ReceivesConserved`, `WaitsCoverBatches`, `FullQueueDrains`, `FirstPeerServed`, `WaitEnds` |
| `MCChannelOthers` | the same with 3 writes each and nothing that breaks or is refused | `AnyPeerServed` violated: the writes of the second peer never land |
| `MCLifecycle` | orchestrator, prefill and decode node, with and without GPU, 2 workers, 1 peer, 2 messages, queue of 1, `FairSpec` | passes, about 180 000 states: `TypeOK`, `TeardownInOrder`, `EngineUsedAlive`, `NoOrphanVllm`, `QueueDrains`, `ShutdownEnds` |
| `MCLayout` | 2 slots, 2 layers, layers of 4 bytes, elements of 2, 3 node configurations, 3 prompts of which one does not fit, steps of 1 and 2 requests | passes, about 620 000 states: `TypeOK`, `SlotsKeptApart`, `WriterMeetsTracker`, `SlotServed` |
| `MCLayoutLoad` | 1 slot, one configuration, one prompt | `LoadsWhatWasSaved` violated: byte offset used as element index |

The violated properties quote what the repository says of itself; `PROJECT.json`
"findings" gives the quotations and lines.

Why these bounds are enough to be interesting: two workers suffice for every
race between two critical sections.  One slot makes two requests compete, and a
queue of one drops events.  With one decode node the choice between nodes is not
exercised by the run; the invariants and the refinement of the router are proved for
any set of nodes.  Peer lists that do not match in `MCBootstrap` end a node in the
handler of the broadcast while the other must join.  Two layers are the least for which "first" and "last" layer differ;
batches of two completions split and join the four writes of a request in every
way.  Slot 2 in `MCDecode` lies beyond the node's buffer, which happens in the
default configuration (8 slots of 4 GB, 16 GB of buffer); in `MCLayout` the second
slot crosses the end of the buffer that the connector assumes, one configuration has a
buffer of one slot, one has layers of another size than the connector assumes, and the
two requests have equal prompts or not and meet in one step or do not.  Two descriptors
for two connections, each of which may leave, give a descriptor to a second
connection while an answer for the first is on its way.  In `MCChannel` a step is no multiple of a batch, so batches span steps,
the send queue can fill, and more writes come than the receive queue holds.  One
peer in `MCLifecycle` is enough, as the queue pairs are created and destroyed in a row and
workers that connect them only matter to those being destroyed.

### What holds in spite of a weakness

Some properties are stated with the exception that the code leaves, because the
stronger form is false:

* no node is healthy until someone reports it, and nobody does (`HealthUpdates`);
* RUNNING is stored when the nodes *registered so far* are ready, so
  `CompleteBeforeReady` speaks of the broadcast and not of RUNNING;
* a restarted node that registers again makes the tracker lock its mutex twice:
  `DoubleLockCause` says what must have happened, `EveryNodeJoins` excepts it;
* a node whose peer has no queue pair for it ends in the handler of the broadcast:
  `EveryNodeJoins` is about the nodes of which that is not so (`Missing`);
* the immediate value is converted on one side only: `TransferStartsDecode` is
  about a host of network byte order; on others only layer 0 of slot 0 is counted;
* a layer counts as received with its keys, so `DecodeAfterKeys` says keys and not
  values;
* a request that is given up after `PREPARE_DECODE_SLOT` keeps its entry in the
  tracker and may get the layers of the next one in its slot:
  `LayerComesFromItsWrite` is about requests that were not given up;
* a wait polls one completion, and so covers one batch (`WaitsCoverBatches`), and it
  ends only if a signalled write is on its way (`WaitEnds`): a step of fewer writes
  than a batch may wait for ever;
* only the first peer has receive requests: `FirstPeerServed` passes and
  `AnyPeerServed`, what the comment of `post_recv_wrs` says, is violated;
* what was queued in the window of `handle_write` may stay (`QueuedIsSent`);
* a second broadcast starts a second vLLM server, and one started during shutdown
  is not killed (`NoOrphanVllm`);
* a shutdown hangs when it waits for a server that was forked after `kill`, when a
  handler waits for itself, and does not get to its end when a handler throws
  (`ShutdownEnds`, `QueueDrains`);
* a cache that does not fit overwrites its neighbour (`FitsIn`), and two requests with
  equal prompts in one step overwrite each other (`SlotsKeptApart` names them by `Alike`
  and says that nobody else does), although the docstring of `_calculate_rdma_offset`
  promises addresses without collisions (`python/rdma_connector.py:596`);
* the layers are placed by the layer size the connector assumes, whatever the nodes
  have: `WriterMeetsTracker` is about a decode node that has the same.

### Bounds that are not in the code

`Requests` (each submitted once), `MaxRestarts`, `MaxErrors`, `MaxSends`, `MaxWrites`,
`MaxRejects`, `MaxFaults`, `MaxBroadcasts`, `MaxEvents`, `PeerLists` (the peer lists
looked at), `Prompts` (the token ids looked at), slots that are given once each in
`SlotLayout`, and the event queue of the
bootstrap and decode models, which is unbounded there: at most
2 (MaxRestarts + 1) + broadcasts events per node and 2 per request exist, far from
the configured 1000.

### Fairness

Every thread runs: weak fairness of each worker's current handler, and of *some*
idle worker taking a waiting event (a condition variable wakes one waiter, no
particular one).  Bootstrap adds that every node is launched once, that a node
handles a broadcast it received, and that `start()` returns; decode adds the poll
thread and that a prefill node which started writing goes on.  `EpollIO` has the
epoll thread and the workers, and assumes of peers only that a socket reported
writable takes something; `RdmaChannel` the poll loop, the waiting threads and a
network that delivers; `NodeLifecycle` every thread, where a worker that sleeps is
*not* enabled: waking it is for `notify_one` and `wake_all`, and a spurious wake-up
has no fairness.  No fairness is assumed for requests, reports, health updates,
restarts, failures, sends, an operator's shutdown, nor for a vLLM call to succeed.

## Proofs

`RequestRoutingProofs` proves, for any finite pool of workers, arbitrary sets of
requests and nodes and arbitrary `MaxSlots` and `QueueCapacity` (assumption
`RoutingAssumption`: prefill and decode nodes are disjoint, both numbers positive, the
two model values are not requests or nodes, a pool has finitely many threads):

* `Invariance`: the inductive invariant `IInv`;
* `Typing`, `SlotsAccounted`, `NoSlotOrphaned`, `LiveRequestsHoldTheirSlot`: the
  invariants `TypeOK`, `SlotAccounting`, `NoOrphanSlot`, `LiveHoldsItsSlot`;
* `RouterImplementsPool`: `Spec` implements `SlotPool` under
  `owner <- slot_to_request`.

`SlotAccounting` alone is not inductive: `TakeSlot` preserves it only if the
request holds nothing yet, and `FreeSlot` only if what the router's map says of
the request is what the allocator says.  That a routing worker's request holds
nothing follows from *who can be routing it*: a `CLIENT_REQUEST` is delivered
once (`FreshRequests`, `QueueDistinct`), popped by one worker (`OneRouter`), and
until that worker reaches `MapRequest` the slot is known to it alone (`View`).
Live requests need in addition that a report follows `ASSIGN_REQUEST`
(`ReportsFollowAssign`) and that nothing but a failure report frees a slot
after it (`LiveMapped`, and the part of `View` that puts every worker in
`InFailure` at a request whose failure was reported).  The last part is why
`info[r].decode \in node_fd` is kept: it excludes the error branch of
`ForwardToDecode` for requests that were assigned.

The proof has one lemma per action (or per group with the same effect), on top of
four lemmas on the allocator (`TakeSlotKeepsAccounting`,
`FreeSlotKeepsAccounting`) and the queue (`PopQueue`, `PushQueue`).  For the
refinement, `AllocateAcquires` and `FreeReleases` map the two allocator
operations to `Acquire` and `Release`; every other step stutters.

`RequestLoadProofs` adds `LoadInvariance` and `LiveRequestsAreCounted`
(`LoadCoversLive`).  The property compares a counter with a number of requests, so the
invariant does too: a load *plus* the workers on their way to count on the node
(`Coming`) is at least the number of requests that the node is owed (`Owed`: assigned
to it, and not uncounted on it since their failure was reported).  The sum is what a
race cannot spoil: a failure that is uncounted while the counter is zero finds its own
worker still coming.  Four lemmas do the counting, by what a step adds to or takes
from the two sets (`NothingCounted`, `OneCounted`, `OneMoreOwed`, `OneUncounted`);
that a decrement meets a request still owed needs a report of failure to be in one
place (`FailsOnce`), and that its two nodes do not change after `ASSIGN_REQUEST`
(`AssignedKeepsNodes`).  Between handlers nobody is coming.

Two action properties follow.  `FailuresGoOn` (`FailureGoesOn`) is what `FailureSettled`
says without fairness: a report of failure that is in the queue or with a worker stays
there on every step until the request has no slot and its client an answer, and that is
final, even while another worker still routes the request.  A report dropped by a full
queue is not pending and not covered.  `AssignmentsAreFinal` (`AssignmentIsFinal`): after
`ASSIGN_REQUEST` nothing changes what the tracker has for the request.  Besides `IInv`
they take that the failure path frees the slot before it touches the loads and that a
request a node knows of is tracked (`FInv`).

`BootstrapProofs` does the same for `ClusterBootstrap`, for any finite set of nodes,
any set of workers, any peer lists and any bound on restarts (assumption `BootstrapAssumption`):
`Invariance`, and from it `BootstrapTyping` (`TypeOK`), `BroadcastIsComplete`
(`CompleteBeforeReady`), `TrackerWithinRegistry` (`TrackerFollowsRegistry`) and
`LockedTwiceOnlyOnRepeat` (`DoubleLockCause`).

* `CompleteBeforeReady` and `TrackerFollowsRegistry` rest on what a worker knows in
  the middle of its handler (`View`): past `CountNodes` it broadcasts because the
  count was complete, and `registry` never shrinks; between `AddNodeFd` and
  `RegisterNode` its node can be addressed.  `ReadyQueuedWhenComplete` carries the
  fact through the queue.  That as many nodes as expected means all of them uses
  the cardinality of finite sets (`FS_Subset`).
* `DoubleLockCause` says why the recursive lock of the tracker is not seen in a
  clean start: a node that was started once has one registration, and one that was
  told once has one answer, and each is in one place - the queue, a worker, or the
  set the tracker keeps (`Once`, in `RegistersOnce` and `AnswersOnce`).  A worker
  that finds its node in that set would make it two places.  A first registration
  and a first answer find no earlier ones because a node leaves no trace before it
  is started (`OnlyStarted`) or told (the last part of `AnswersOnce`).

`DecodeProofs` proves for `DecodeTracker`, for any sets of requests and workers, any
numbers of slots and layers up to 256 (what the halves of the immediate value are
compared with), any batch size and any bound on failures (assumption
`DecodeAssumption`): `Invariance`, and from it `DecodeTyping` (`TypeOK`), `MapsAgree`
(`TrackerMapsAgree`), `LayersFromTheirWrites` (`LayerComesFromItsWrite`),
`DecodedOnce` (`DecodeOnce`) and `DecodedAfterKeys` (`DecodeAfterKeys`).  None of the
five is inductive; the invariant `IInv` adds two arguments:

* *Whose write it was.*  A completion names a slot, not a request.  Among the requests
  that were not given up a slot has one owner (`OwnSlots`), and a good completion in
  the queue or in the batch was caused by the owner of the slot it names, whose write
  of that layer has landed (`CompletionsWritten`).  The poll thread still has in hand
  the completion for which it looked the request up (`PollView`).  On a host of the
  other byte order both halves of the value arrive reversed, and are in range only if
  slot and layer are 0: `DecodedIsMeant` shows that a value that makes sense is the
  one that was sent.
* *Where the order is.*  `PREPARE_DECODE_SLOT` and `KV_TRANSFER_COMPLETE` of a request
  are each in one place: the queue, the poll thread, or a worker between the labels
  that handle it (`PreparesOnce`, `DecidesOnce`).  While the first is under way nothing
  of the request was received, so `add_request` cannot wipe out layers; while the
  second is, all layers are and no decode was begun, so there is never a second call.
  A process that ended in the middle of the call keeps its place (`crashed`).

Lemma by lemma: one per action, with `EventsKept` and `TransfersKept` for what a step
leaves alone, `HandlerStep` for the workers' critical sections, `PollOnlyStep` for
polls that tell nobody, and `OutsideStep` for orchestrator and writers.

`TransfersGoOn` (`TransferGoesOn`) and `TransfersWaitForSomething` are what
`TransferStartsDecode` says without fairness.  A request is `Waiting` when of every
write that landed the layer is counted or its completion is `Underway`, and when the
order to decode exists as soon as all layers are counted; a transfer whose slot was
prepared in time begins to wait, and without failures only its decode call ends the
wait.  The delicate place is the first completion of the batch, which counts only as
long as the poll thread has looked up nobody or this very request (`StillCounts`).
Besides `IInv` the proof takes that a request is removed after its call, that only a
failure puts a bad completion into the queue, which makes `poll_recv_cq` give up the good
ones of its batch, and that a new batch replaces none (`TInv`).  Writes that land before
the slot is prepared are lost by the code, and such a request does not wait.

`EpollProofs` proves for `EpollIO`, for any sets of connections, descriptors and workers,
any kinds of message, numbers of messages and capacity of the event queue (assumption
`EpollAssumption`): `Invariance`, `TypeCorrect` (`TypeOK`), `OutputStaysIntact`
(`OutputIntact`), `FramingStaysInStep` (`FramesInStep`) and `StraysOnlyByReuse`
(`StrayOnlyByReuse`).

* Only the epoll thread opens and closes descriptors, and it closes only the one it is
  at: what it has in hand (`cur`, the rest of `batch`) stays what it was while workers
  queue responses (`FdsAgree`, `BatchOpen`).  An unused connection has no state
  (`FreshUntilAccepted`).
* `OutputIntact` and `FramesInStep` are about sequences that move from one place to
  another in pieces; `MovePrefix` (a prefix cut off in front and put behind) and
  `FramesAppend` (whole frames stay whole) are their steps.  `HandedParsed` relates what
  workers got to what was parsed.
* A stray answer needs the descriptor of its event to have changed hands:
  `EventsNameSenders` says that the descriptor in an event is the one its sender was
  given, and a descriptor in use belongs to one connection.

`ChannelProofs` proves for `RdmaChannel`, for any set of prefill nodes, any queue depths,
batch sizes, numbers of writes and bounds on refusals and faults (assumption
`ChannelAssumption`): `Invariance`, `ChannelTyping` (`TypeOK`), `ReceivesStayConserved`
(`ReceivesConserved`), `WaitsCover` (`WaitsCoverBatches`) and `FullQueuesDrain`
(`FullQueueDrains`).  `ReceivesConserved` bounds what landed of each peer; the invariant
has the sum over all of them (`ReceivesCounted`).

* The senders do not share state, so their part of the invariant is about one of them
  and `OneSender` lifts a step of one to all.  `CompletionsInOrder`: completions are of
  writes in the order of posting, and a signalled write that landed waits until it is
  polled.  `SignalsCounted`: every `BatchSize`-th call signals, hence the n-th signal is
  for a call not before n batches; a wait, which polls one completion, stands for a
  batch of writes that landed or failed.
* That a full queue holds a signalled write is arithmetic on where the signals are:
  `BatchSize` apart, as long as every call was posted (`Aligned`), and `MultipleWithin`
  finds one among `BatchSize` consecutive numbers.  A refused write breaks the
  alignment, which is why the property excepts it.
* On the decode node only the first queue pair ever has receive requests, and requests
  and completions together never exceed `RecvDepth` (`ReceiverInv`); the polls replace
  what they take (`BatchReplaced`).

`LifecycleProofs` proves for `NodeLifecycle`, for every role and configuration, any finite
pool of workers, any peers, capacity and number of messages (assumption
`LifecycleAssumption`: finitely many workers, the peers listed without repetition):
`Invariance`, `LifecycleTyping` (`TypeOK`), `TeardownKeepsOrder` (`TeardownInOrder`),
`EngineAliveWhenUsed` (`EngineUsedAlive`), `NoVllmOrphaned` (`NoOrphanVllm`), and the two
theorems on wake-ups and joins below.

* `EngineStage` says at every step of the main thread which RDMA objects exist: a prefix
  of the order of creation while `initialize` runs, what its function left after a
  failure, what is behind the current object in the order of destruction during
  `shutdown`.  That no object goes while another needs it is then a fact about two
  orders (`MadeAfterNeeded`, `GoneWhenFree`), whatever the number of queue pairs.
* A start that failed never registered, so no broadcast ever comes and no worker uses
  the engine (`Known`); the poll thread runs only within the life of the engine
  (`PollInTime`), and a worker that still connects queue pairs after their destruction
  began does so while the process goes down (`StrayLate`).
* A second vLLM server takes a second message: `ServersCounted` weighs servers, and
  workers about to start one, against the messages used up.
* `WakeupsArrive` (`NoLostWakeup`) and `JoinsAreAnswered` (`JoinsReturn`) are what
  `QueueDrains` and `ShutdownEnds` say without fairness: no event waits while all workers
  sleep and nobody is about to wake one, unless a handler never comes back, and a thread
  that is joined was started, has been told to end and does not sleep through it (a
  worker that waits for itself does not sleep, and does not end either).  `wake_all` sets `stopped` under the
  lock and notifies everyone after it, hence no worker goes to sleep that could have
  missed it; that threads exist when their flags say so is `ThreadsStarted` (`WInv`).

`SlotLayoutProofs` proves, for any sizes, node configurations, prompts, steps and layer
names (assumption `LayoutAssumption`: sizes are natural numbers, a prompt determines the
size of its cache, and no two layers have the same number): `Invariance`, `Typing`
(`TypeOK`), `WritesKeptApart` (`SlotsKeptApart`), `WritersMeetTracker`
(`WriterMeetsTracker`) and `SlotsServed` (`SlotServed`).

* The invariant says of every write into which slot it went, which is the one that is
  found for its request, and where it begins (`Placed`); of every refusal why
  (`Excused`); and of the requests of a step that they have the same metadata
  (`StepsShared`).  There is one first match (`FoundOnce`), and it stays the same once
  the step is bound (`FoundStable`).
* The rest is arithmetic: multiples of a size are a size apart (`NextMultiple`), so a
  write of a cache that fits stays in its layer and its layer in its slot
  (`WriteInLayer`), and of two writes the one into the lower slot or layer ends first
  (`LowerEndsBefore`).  Two writes into one layer of one slot come from requests that
  the connector cannot tell apart, or are keys and values of one (`SameLayer`).

Every invariant and the refinement that a run checks are proved.  Only model-checked
are the liveness properties (`FailureSettled`, `EveryNodeJoins`, `TransferStartsDecode`,
`QueuedIsSent`, `EveryoneAccepted`, `FirstPeerServed`, `WaitEnds`, `QueueDrains`,
`ShutdownEnds`): they rest on fairness and `ENABLED`, out of the prover's reach.  What
four of them say without fairness is proved (above); `FailureGoesOn`,
`AssignmentIsFinal`, `TransferGoesOn`, `NoLostWakeup`, `JoinsReturn` and the invariants
they rest on were checked by TLC on the instances of the runs before they were proved.
The violated properties are refuted, of course, by TLC.

## Not modelled, and the plan

Done: (1) `SlotPool`, `RequestRouting`; (2) `ClusterBootstrap`; (3) `DecodeTracker`;
(4) `EpollIO`; (5) `RdmaChannel`; (6) `NodeLifecycle`; (7) `SlotLayout`; each with its
proofs.  What would come next:

8. what the other liveness properties (`EveryNodeJoins`, `QueuedIsSent`,
   `EveryoneAccepted`, `FirstPeerServed`, `WaitEnds`) say without fairness, as theorems
   about steps; done for `FailureSettled`, `TransferStartsDecode`, `QueueDrains` and
   `ShutdownEnds`;
9. `RequestLifecycle`: orchestrator and both nodes composed.  It has little to show
   while `DECODE_COMPLETE` and `REQUEST_FAILED` have no handler and no sender.

Left out for good: the encoding of each message type, logging, configuration
parsing, the choice of a GPU and an adapter (`device_probe` reads system files and
keeps nothing), the HTTP client beyond its outcomes, mains, the benchmark client and
scripts.  Functions that nothing calls (`reset_node_load`, `remove_node`,
`wait_for_all_nodes`, `connect_to_peer`, the time-out queries of the request tracker)
have no actions.  vLLM is outside the repository and appears as a call with its
possible outcomes.
