---------------------------- MODULE NodeLifecycle ----------------------------
(***************************************************************************)
(* How a process starts and stops: the orchestrator, a prefill node or a   *)
(* decode node.  The main thread starts the epoll thread and the worker    *)
(* pool, creates the RDMA objects, registers, starts the poll thread and,  *)
(* on a signal, takes all of that down again, while workers connect queue  *)
(* pairs, start vLLM and set the state.                                    *)
(*                                                                         *)
(* An action is what a thread does between two steps of another that it    *)
(* could meet: a store of an atomic, one critical section of the event     *)
(* queue, one call that creates or destroys an RDMA object.  The adapter   *)
(* refuses to destroy an object that another one still needs; memory is    *)
(* freed whatever needs it.                                                *)
(***************************************************************************)
EXTENDS Integers, Sequences, SequencesExt, FiniteSets

CONSTANTS Roles,     \* the kinds of processes looked at
          Workers,   \* threads of the worker pool
          PeerOrder, \* the peers in peer_qps_, a std::map
          Capacity,  \* capacity of the event queue
          MaxEvents  \* bound on the messages that arrive

Kinds == {"bring_up", "other"}

\* Where a worker is: in its loop, in a handler, or gone.
WorkerStages == {"off", "loop", "pop", "asleep", "other", "members", "connect", "fork",
                 "answer", "wedged", "exited"}

\* What fork returns when it fails, and vllm_pid holds before the first one.
NoPid == -1

ASSUME LifecycleAssumption ==
  /\ Roles \subseteq {"orchestrator", "prefill", "decode"}
  /\ IsFiniteSet(Workers)
  /\ PeerOrder \in Seq(ToSet(PeerOrder)) /\ IsInjective(PeerOrder)
  /\ Capacity \in Nat \ {0} /\ MaxEvents \in Nat

Peers == ToSet(PeerOrder)
Qp(p) == <<"qp", p>>
Qps   == {Qp(p) : p \in Peers}
Handle(name) == <<name, "">>

\* open_ib_device: the verbs context and the protection domain.
DeviceObjects == <<Handle("ctx"), Handle("pd")>>

\* alloc_and_register_gpu_mem: the GPU buffer, its host mirror and the memory region.
MemoryObjects == <<Handle("buf"), Handle("host"), Handle("mr")>>

\* create_cqs.
QueueObjects == <<Handle("send_cq"), Handle("recv_cq")>>

\* create_qp_for_peer, for one peer after the other.
QpObjects == [i \in 1 .. Len(PeerOrder) |-> Qp(PeerOrder[i])]

\* The RDMA objects in the order of initialize.
CreateOrder == DeviceObjects \o MemoryObjects \o QueueObjects \o QpObjects
Objects == ToSet(CreateOrder)

\* What a function undoes of its own work when the call for o fails.
UndoneBy(o) == CASE o = Handle("pd")      -> {Handle("ctx")}
                 [] o = Handle("mr")      -> {Handle("buf"), Handle("host")}
                 [] o = Handle("recv_cq") -> {Handle("send_cq")}
                 [] OTHER -> {}

\* Memory, which is freed whatever refers to it.
Memory == {Handle("buf"), Handle("host")}

\* What an object needs as long as it lives.
Needs(o) ==
  IF o \in Qps THEN {Handle("pd"), Handle("send_cq"), Handle("recv_cq")}
  ELSE IF o = Handle("mr") THEN {Handle("pd"), Handle("buf")}
  ELSE IF o \in {Handle("pd"), Handle("send_cq"), Handle("recv_cq")} THEN {Handle("ctx")}
  ELSE {}

\* Mutant: the memory is freed before its region is deregistered.
DestroyOrderFreeingFirst ==
  QpObjects \o QueueObjects
    \o <<Handle("buf"), Handle("host"), Handle("mr"), Handle("pd"), Handle("ctx")>>

\* The order of shutdown and destroy_rdma_context.
DestroyOrder ==
  QpObjects \o QueueObjects
    \o <<Handle("mr"), Handle("pd"), Handle("ctx"), Handle("buf"), Handle("host")>>

VARIABLES
  role, use_gpu,    \* the configuration
  main,             \* where the main thread is
  failed,           \* start has failed
  alive,            \* the RDMA objects that exist
  peer_qps,         \* the keys of the map peer_qps_
  initialized,      \* initialized_
  step,             \* how far the destruction has come
  io, io_running,   \* the epoll thread and its flag
  registered,       \* others know of this process
  events,           \* the event queue
  stopped,          \* stopped_ of the event queue
  pushed,           \* messages that have arrived
  pool_running,     \* running_ of the worker pool
  worker, todo,     \* a worker: where it is, queue pairs it has to connect
  poll, poll_running, \* rdma_poll_thread_, rdma_poll_running_
  poll_joined,      \* rdma_poll_thread_ has been joined
  state,            \* state_
  vllm_pid,         \* the server forked last, by its number, or NoPid
  vllms,            \* vLLM servers that run
  awaited,          \* the argument of waitpid
  forks,            \* history: vLLM servers started
  signalled,        \* history: the argument of kill
  late,             \* history: one was started after the kill, or its id was lost
  stray             \* history: a worker used a queue pair that was destroyed

config   == <<role, use_gpu>>
rdmaVars == <<alive, peer_qps, initialized, step>>
ioVars   == <<io, io_running, registered, pushed>>
pollVars == <<poll, poll_running, poll_joined>>
vllmVars == <<vllm_pid, vllms, awaited, forks, signalled, late>>
vars == <<config, main, failed, rdmaVars, ioVars, events, stopped, pool_running, worker,
          todo, pollVars, state, vllmVars, stray>>

Init ==
  /\ role \in Roles /\ use_gpu \in BOOLEAN /\ (role = "orchestrator" => ~use_gpu)
  /\ main = "new" /\ failed = FALSE
  /\ alive = {} /\ peer_qps = {} /\ initialized = FALSE /\ step = 1
  /\ io = "off" /\ io_running = FALSE /\ registered = FALSE
  /\ pushed = 0
  /\ events = <<>> /\ stopped = FALSE
  /\ pool_running = FALSE
  /\ worker = [w \in Workers |-> "off"] /\ todo = [w \in Workers |-> {}]
  /\ poll = "off" /\ poll_running = FALSE /\ poll_joined = FALSE
  /\ state = "starting"
  /\ vllm_pid = NoPid /\ vllms = {} /\ awaited = 0
  /\ forks = 0 /\ signalled = 0 /\ late = FALSE
  /\ stray = FALSE

-----------------------------------------------------------------------------
(* The main thread: start *)

\* The listening sockets.
Bind ==
  /\ main = "new" /\ main' = "bound"
  /\ UNCHANGED <<config, failed, rdmaVars, ioVars, events, stopped, pool_running, worker,
                 todo, pollVars, state, vllmVars, stray>>

BindFails ==
  /\ main = "new" /\ main' = "end" /\ failed' = TRUE
  /\ UNCHANGED <<config, rdmaVars, ioVars, events, stopped, pool_running, worker, todo,
                 pollVars, state, vllmVars, stray>>

\* epoll_worker_.start: no thread if a call fails, and nobody is told.  Clients and
\* nodes can reach an orchestrator from here on.
StartIo(ok) ==
  /\ main = "bound" /\ main' = "io"
  /\ io' = (IF ok THEN "on" ELSE "off") /\ io_running' = ok
  /\ registered' = (role = "orchestrator")
  /\ UNCHANGED <<config, failed, rdmaVars, pushed, events, stopped, pool_running, worker,
                 todo, pollVars, state, vllmVars, stray>>

\* worker_pool_.start, and what comes next by configuration.
StartPool ==
  /\ main = "io"
  /\ pool_running' = TRUE /\ worker' = [w \in Workers |-> "loop"]
  /\ main' = IF role = "orchestrator" THEN "set_state"
             ELSE IF use_gpu THEN "probe" ELSE "connect"
  /\ UNCHANGED <<config, failed, rdmaVars, ioVars, events, stopped, todo, pollVars, state,
                 vllmVars, stray>>

\* probe_and_bind_devices and bind_cuda_device: a GPU and an active port are chosen.
Probe ==
  /\ main = "probe" /\ main' = "init"
  /\ UNCHANGED <<config, failed, rdmaVars, ioVars, events, stopped, pool_running, worker,
                 todo, pollVars, state, vllmVars, stray>>

\* There is none, or CUDA refuses: the threads are stopped.
ProbeFails ==
  /\ main = "probe" /\ main' = "stop_io" /\ failed' = TRUE
  /\ UNCHANGED <<config, rdmaVars, ioVars, events, stopped, pool_running, worker, todo,
                 pollVars, state, vllmVars, stray>>

\* The object that initialize creates next.
NextObject == CreateOrder[Cardinality(alive) + 1]

Create ==
  /\ main = "init" /\ alive # Objects
  /\ alive' = alive \cup {NextObject}
  /\ peer_qps' = {p \in Peers : Qp(p) \in alive'}
  /\ UNCHANGED <<config, main, failed, initialized, step, ioVars, events, stopped,
                 pool_running, worker, todo, pollVars, state, vllmVars, stray>>

\* A call fails: what the failing function itself has made is undone, the rest stays
\* because initialized_ is not set; the threads are stopped.
CreateFails ==
  /\ main = "init" /\ alive # Objects
  /\ alive' = alive \ UndoneBy(NextObject)
  /\ main' = "stop_io" /\ failed' = TRUE
  /\ UNCHANGED <<config, peer_qps, initialized, step, ioVars, events, stopped,
                 pool_running, worker, todo, pollVars, state, vllmVars, stray>>

Initialized ==
  /\ main = "init" /\ alive = Objects
  /\ initialized' = TRUE /\ main' = "connect"
  /\ UNCHANGED <<config, failed, alive, peer_qps, step, ioVars, events, stopped,
                 pool_running, worker, todo, pollVars, state, vllmVars, stray>>

\* connect_to_orchestrator and send_node_info_to_orchestrator.
Connect ==
  /\ main = "connect" /\ io = "on"
  /\ registered' = TRUE /\ main' = "start_poll"
  /\ UNCHANGED <<config, failed, rdmaVars, io, io_running, pushed, events, stopped,
                 pool_running, worker, todo, pollVars, state, vllmVars, stray>>

ConnectFails ==
  /\ main = "connect"
  /\ main' = "rdma" /\ failed' = TRUE
  /\ UNCHANGED <<config, rdmaVars, ioVars, events, stopped, pool_running, worker, todo,
                 pollVars, state, vllmVars, stray>>

StartPoll ==
  /\ main = "start_poll" /\ main' = "set_state"
  /\ IF role = "decode" THEN poll' = "check" /\ poll_running' = TRUE
     ELSE UNCHANGED <<poll, poll_running>>
  /\ UNCHANGED <<config, failed, rdmaVars, ioVars, events, stopped, pool_running, worker,
                 todo, poll_joined, state, vllmVars, stray>>

\* The state is stored last, after the workers may have set it already: a node that has
\* answered then shows WAITING.
SetState ==
  /\ main = "set_state" /\ main' = "up"
  /\ state' = "waiting"
  /\ UNCHANGED <<config, failed, rdmaVars, ioVars, events, stopped, pool_running, worker,
                 todo, pollVars, vllmVars, stray>>

-----------------------------------------------------------------------------
(* The main thread: shutdown *)

Shutdown ==
  /\ main = "up" /\ main' = "kill"
  /\ UNCHANGED <<config, failed, rdmaVars, ioVars, events, stopped, pool_running, worker,
                 todo, pollVars, state, vllmVars, stray>>

\* Mutant: a server that runs is left alone.
KillNothing ==
  /\ main = "kill" /\ main' = "mark"
  /\ UNCHANGED <<config, failed, rdmaVars, ioVars, events, stopped, pool_running, worker,
                 todo, pollVars, state, vllmVars, stray>>

\* The main thread reads vllm_pid three times, which workers store without a lock:
\* to see whether there is a server to terminate,
LookForServer ==
  /\ main = "kill"
  /\ main' = IF vllm_pid > 0 THEN "signal" ELSE "mark"
  /\ UNCHANGED <<config, failed, rdmaVars, ioVars, events, stopped, pool_running, worker,
                 todo, pollVars, state, vllmVars, stray>>

\* as the argument of kill, for which NoPid stands for every process that can be
\* signalled,
Kill ==
  /\ main = "signal" /\ main' = "reap"
  /\ vllms' = IF vllm_pid = NoPid THEN {} ELSE vllms \ {vllm_pid}
  /\ signalled' = vllm_pid
  /\ UNCHANGED <<config, failed, rdmaVars, ioVars, events, stopped, pool_running, worker,
                 todo, pollVars, state, vllm_pid, awaited, forks, late, stray>>

\* and as the argument of waitpid.
CallWaitpid ==
  /\ main = "reap" /\ main' = "wait"
  /\ awaited' = vllm_pid
  /\ UNCHANGED <<config, failed, rdmaVars, ioVars, events, stopped, pool_running, worker,
                 todo, pollVars, state, vllm_pid, vllms, forks, signalled, late, stray>>

\* waitpid returns when that server has ended; for NoPid, when any has.
WaitpidReturns ==
  /\ main = "wait" /\ main' = "mark"
  /\ IF awaited = NoPid THEN vllms # 1 .. forks ELSE awaited \notin vllms
  /\ UNCHANGED <<config, failed, rdmaVars, ioVars, events, stopped, pool_running, worker,
                 todo, pollVars, state, vllmVars, stray>>

MarkStopped ==
  /\ main = "mark" /\ main' = "stop_poll"
  /\ state' = "stopped"
  /\ UNCHANGED <<config, failed, rdmaVars, ioVars, events, stopped, pool_running, worker,
                 todo, pollVars, vllmVars, stray>>

\* Mutant: the poll thread is told to stop and not joined.
StopPollOnly ==
  /\ main = "stop_poll"
  /\ poll_running' = FALSE /\ main' = "rdma"
  /\ UNCHANGED <<config, failed, rdmaVars, ioVars, events, stopped, pool_running, worker,
                 todo, poll, poll_joined, state, vllmVars, stray>>

\* The poll thread is stopped and joined if it runs.
StopPoll ==
  /\ main = "stop_poll"
  /\ IF role = "decode" /\ poll_running
     THEN poll_running' = FALSE /\ main' = "join_poll"
     ELSE UNCHANGED poll_running /\ main' = "rdma"
  /\ UNCHANGED <<config, failed, rdmaVars, ioVars, events, stopped, pool_running, worker,
                 todo, poll, poll_joined, state, vllmVars, stray>>

JoinPoll ==
  /\ main = "join_poll" /\ poll = "exited"
  /\ poll_joined' = TRUE /\ main' = "rdma"
  /\ UNCHANGED <<config, failed, rdmaVars, ioVars, events, stopped, pool_running, worker,
                 todo, poll, poll_running, state, vllmVars, stray>>

\* RDMAEngine::shutdown destroys one object after the other; peer_qps_ is cleared
\* when all queue pairs have had their turn.
Destroy ==
  /\ main = "rdma" /\ initialized /\ step <= Len(DestroyOrder)
  /\ LET o == DestroyOrder[step]
         needed == \E q \in alive : o \in Needs(q)
     IN  alive' = IF needed /\ o \notin Memory THEN alive ELSE alive \ {o}
  /\ step' = step + 1
  /\ peer_qps' = IF step >= Len(PeerOrder) THEN {} ELSE peer_qps
  /\ UNCHANGED <<config, main, failed, initialized, ioVars, events, stopped, pool_running,
                 worker, todo, pollVars, state, vllmVars, stray>>

\* The engine is shut down, or it was never initialized.
RdmaDown ==
  /\ main = "rdma" /\ (initialized => step > Len(DestroyOrder))
  /\ initialized' = FALSE /\ main' = "stop_io"
  /\ UNCHANGED <<config, failed, alive, peer_qps, step, ioVars, events, stopped,
                 pool_running, worker, todo, pollVars, state, vllmVars, stray>>

\* epoll_worker_.stop.
StopIo ==
  /\ main = "stop_io"
  /\ io_running' = FALSE
  /\ main' = IF io_running THEN "join_io" ELSE "stop_pool"
  /\ UNCHANGED <<config, failed, rdmaVars, io, registered, pushed, events, stopped,
                 pool_running, worker, todo, pollVars, state, vllmVars, stray>>

JoinIo ==
  /\ main = "join_io" /\ io = "exited"
  /\ main' = "stop_pool"
  /\ UNCHANGED <<config, failed, rdmaVars, ioVars, events, stopped, pool_running, worker,
                 todo, pollVars, state, vllmVars, stray>>

\* worker_pool_.stop: the flag, then wake_all, then the threads are joined.
StopPool ==
  /\ main = "stop_pool" /\ main' = "wake"
  /\ pool_running' = FALSE
  /\ UNCHANGED <<config, failed, rdmaVars, ioVars, events, stopped, worker, todo, pollVars,
                 state, vllmVars, stray>>

\* Mutant: the waiting threads are notified and stopped_ is not set.
WakeAllWithoutFlag ==
  /\ main = "wake" /\ main' = "notify"
  /\ UNCHANGED <<config, failed, rdmaVars, ioVars, events, stopped, pool_running, worker,
                 todo, pollVars, state, vllmVars, stray>>

\* wake_all sets stopped_ with the mutex held and notifies without it.
WakeAll ==
  /\ main = "wake" /\ main' = "notify"
  /\ stopped' = TRUE
  /\ UNCHANGED <<config, failed, rdmaVars, ioVars, events, pool_running, worker, todo,
                 pollVars, state, vllmVars, stray>>

NotifyAll ==
  /\ main = "notify" /\ main' = "join_pool"
  /\ worker' = [w \in Workers |-> IF worker[w] = "asleep" THEN "pop" ELSE worker[w]]
  /\ UNCHANGED <<config, failed, rdmaVars, ioVars, events, stopped, pool_running, todo,
                 pollVars, state, vllmVars, stray>>

JoinPool ==
  /\ main = "join_pool" /\ \A w \in Workers : worker[w] = "exited"
  /\ main' = "end"
  /\ UNCHANGED <<config, failed, rdmaVars, ioVars, events, stopped, pool_running, worker,
                 todo, pollVars, state, vllmVars, stray>>

\* What the main thread does by itself; Shutdown is the operator's choice.
Main ==
  \/ Bind \/ BindFails \/ StartIo(TRUE) \/ StartIo(FALSE) \/ StartPool
  \/ Probe \/ ProbeFails \/ Create \/ CreateFails \/ Initialized \/ Connect \/ ConnectFails
  \/ StartPoll \/ SetState
  \/ LookForServer \/ Kill \/ CallWaitpid \/ WaitpidReturns
  \/ MarkStopped \/ StopPoll \/ JoinPoll \/ Destroy \/ RdmaDown
  \/ StopIo \/ JoinIo \/ StopPool \/ WakeAll \/ NotifyAll \/ JoinPool

-----------------------------------------------------------------------------
(* The epoll thread *)

\* Mutant: the capacity is not looked at.
IoPushUnbounded(k) ==
  /\ io = "on" /\ registered /\ pushed < MaxEvents
  /\ pushed' = pushed + 1
  /\ events' = Append(events, k) /\ io' = "notify"
  /\ UNCHANGED <<config, main, failed, rdmaVars, io_running, registered, stopped,
                 pool_running, worker, todo, pollVars, state, vllmVars, stray>>

\* Mutant: a worker is only told when another event waits already.
IoPushQuietly(k) ==
  /\ io = "on" /\ registered /\ pushed < MaxEvents
  /\ pushed' = pushed + 1
  /\ IF Len(events) < Capacity
     THEN events' = Append(events, k) /\ io' = IF events = <<>> THEN "on" ELSE "notify"
     ELSE UNCHANGED <<events, io>>
  /\ UNCHANGED <<config, main, failed, rdmaVars, io_running, registered, stopped,
                 pool_running, worker, todo, pollVars, state, vllmVars, stray>>

\* A message arrives and is pushed: the broadcast of the orchestrator or the last
\* RDMA_READY ("bring_up"), or another one.  A full queue drops it.
IoPush(k) ==
  /\ io = "on" /\ registered /\ pushed < MaxEvents
  /\ pushed' = pushed + 1
  /\ IF Len(events) < Capacity
     THEN events' = Append(events, k) /\ io' = "notify"
     ELSE UNCHANGED <<events, io>>
  /\ UNCHANGED <<config, main, failed, rdmaVars, io_running, registered, stopped,
                 pool_running, worker, todo, pollVars, state, vllmVars, stray>>

\* notify_one, after the mutex is released.
IoNotify ==
  /\ io = "notify" /\ io' = "on"
  /\ LET asleep == {w \in Workers : worker[w] = "asleep"}
     IN  IF asleep = {} THEN UNCHANGED worker
         ELSE \E w \in asleep : worker' = [worker EXCEPT ![w] = "pop"]
  /\ UNCHANGED <<config, main, failed, rdmaVars, io_running, registered, pushed, events,
                 stopped, pool_running, todo, pollVars, state, vllmVars, stray>>

IoExit ==
  /\ io = "on" /\ ~io_running /\ io' = "exited"
  /\ UNCHANGED <<config, main, failed, rdmaVars, io_running, registered, pushed, events,
                 stopped, pool_running, worker, todo, pollVars, state, vllmVars, stray>>

-----------------------------------------------------------------------------
(* The workers *)

\* The head of worker_thread_function's loop.
Loop(w) ==
  /\ worker[w] = "loop"
  /\ worker' = [worker EXCEPT ![w] = IF pool_running THEN "pop" ELSE "exited"]
  /\ UNCHANGED <<config, main, failed, rdmaVars, ioVars, events, stopped, pool_running,
                 todo, pollVars, state, vllmVars, stray>>

\* Where a worker goes with an event.
StartOf(k) == CASE k = "other" -> "other"
                [] role = "orchestrator" -> "answer"
                [] use_gpu -> "members"
                [] OTHER -> "fork"

\* wait_and_pop: an event, or the queue is stopped, or the worker sleeps; it may
\* wake for no reason.
Pop(w) ==
  /\ worker[w] = "pop" /\ events # <<>>
  /\ events' = Tail(events)
  /\ worker' = [worker EXCEPT ![w] = StartOf(Head(events))]
  /\ UNCHANGED <<config, main, failed, rdmaVars, ioVars, stopped, pool_running, todo,
                 pollVars, state, vllmVars, stray>>

PopNothing(w) ==
  /\ worker[w] = "pop" /\ events = <<>>
  /\ worker' = [worker EXCEPT ![w] = IF stopped THEN "loop" ELSE "asleep"]
  /\ UNCHANGED <<config, main, failed, rdmaVars, ioVars, events, stopped, pool_running,
                 todo, pollVars, state, vllmVars, stray>>

WakeSpuriously(w) ==
  /\ worker[w] = "asleep"
  /\ worker' = [worker EXCEPT ![w] = "pop"]
  /\ UNCHANGED <<config, main, failed, rdmaVars, ioVars, events, stopped, pool_running,
                 todo, pollVars, state, vllmVars, stray>>

\* Another handler returns.
OtherDone(w) ==
  /\ worker[w] = "other"
  /\ worker' = [worker EXCEPT ![w] = "loop"]
  /\ UNCHANGED <<config, main, failed, rdmaVars, ioVars, events, stopped, pool_running,
                 todo, pollVars, state, vllmVars, stray>>

\* handle_broadcast_member_info has found, for each peer, the queue pair that the peer
\* has made for this node.
MembersFilled(w) ==
  /\ worker[w] = "members"
  /\ worker' = [worker EXCEPT ![w] = "connect"]
  /\ todo' = [todo EXCEPT ![w] = peer_qps]
  /\ UNCHANGED <<config, main, failed, rdmaVars, ioVars, events, stopped, pool_running,
                 pollVars, state, vllmVars, stray>>

\* A handler throws, nothing catches it, and the process ends as it is: a peer gave no
\* queue pair; a request finds its slot taken, or vLLM's reply cannot be parsed; the
\* orchestrator's tracker locks a mutex that it holds, and the mutex notices.
Throw(w) ==
  /\ \/ worker[w] = "members" /\ Peers # {}
     \/ worker[w] = "other"
     \/ worker[w] = "answer" /\ role = "orchestrator"
  /\ main' = "crashed" /\ io' = "exited" /\ poll' = "exited"
  /\ worker' = [v \in Workers |-> "exited"]
  /\ UNCHANGED <<config, failed, rdmaVars, io_running, registered, pushed, events, stopped,
                 pool_running, todo, poll_running, poll_joined, state, vllmVars, stray>>

\* The mutex does not notice: the worker waits for itself, and a handler that needs the
\* tracker later waits for it.
Wedge(w) ==
  /\ role = "orchestrator" /\ worker[w] \in {"other", "answer"}
  /\ worker' = [worker EXCEPT ![w] = "wedged"]
  /\ UNCHANGED <<config, main, failed, rdmaVars, ioVars, events, stopped, pool_running,
                 todo, pollVars, state, vllmVars, stray>>

TrackerFree == \A w \in Workers : worker[w] # "wedged"

\* connect_all_qps goes through peer_qps_ without a lock.
ConnectQp(w, p) ==
  /\ worker[w] = "connect" /\ p \in todo[w]
  /\ todo' = [todo EXCEPT ![w] = @ \ {p}]
  /\ stray' = (stray \/ Qp(p) \notin alive)
  /\ UNCHANGED <<config, main, failed, rdmaVars, ioVars, events, stopped, pool_running,
                 worker, pollVars, state, vllmVars>>

\* All are connected or one could not be: the result is ignored.
ConnectDone(w) ==
  /\ worker[w] = "connect"
  /\ worker' = [worker EXCEPT ![w] = "fork"] /\ todo' = [todo EXCEPT ![w] = {}]
  /\ UNCHANGED <<config, main, failed, rdmaVars, ioVars, events, stopped, pool_running,
                 pollVars, state, vllmVars, stray>>

\* The main thread before shutdown.
BeforeShutdown == {"new", "bound", "io", "probe", "init", "connect", "start_poll",
                   "set_state", "up"}

\* The main thread has read which server to kill, if any.
Killed == main \notin BeforeShutdown \cup {"kill", "signal"}

\* start_vllm_server without a GPU: the Mooncake configuration cannot be written.
ConfigFails(w) ==
  /\ worker[w] = "fork" /\ ~use_gpu
  /\ worker' = [worker EXCEPT ![w] = "answer"]
  /\ UNCHANGED <<config, main, failed, rdmaVars, ioVars, events, stopped, pool_running,
                 todo, pollVars, state, vllmVars, stray>>

\* start_vllm_server.
Fork(w) ==
  /\ worker[w] = "fork"
  /\ worker' = [worker EXCEPT ![w] = "answer"]
  /\ forks' = forks + 1
  /\ vllms' = vllms \cup {forks'} /\ vllm_pid' = forks'
  /\ late' = (late \/ Killed)
  /\ UNCHANGED <<config, main, failed, rdmaVars, ioVars, events, stopped, pool_running,
                 todo, pollVars, state, awaited, signalled, stray>>

\* fork fails: the id of a server that was started before is gone.
ForkFails(w) ==
  /\ worker[w] = "fork"
  /\ worker' = [worker EXCEPT ![w] = "answer"]
  /\ vllm_pid' = NoPid /\ late' = (late \/ vllm_pid # NoPid)
  /\ UNCHANGED <<config, main, failed, rdmaVars, ioVars, events, stopped, pool_running,
                 todo, pollVars, state, vllms, awaited, forks, signalled, stray>>

\* RDMA_READY is sent and the state is set (the orchestrator: all nodes are ready).
Answer(w) ==
  /\ worker[w] = "answer" /\ TrackerFree
  /\ worker' = [worker EXCEPT ![w] = "loop"]
  /\ state' = "running"
  /\ UNCHANGED <<config, main, failed, rdmaVars, ioVars, events, stopped, pool_running,
                 todo, pollVars, vllmVars, stray>>

Work(w) == \/ Loop(w) \/ Pop(w) \/ PopNothing(w) \/ OtherDone(w) \/ MembersFilled(w)
           \/ (\E p \in Peers : ConnectQp(w, p)) \/ ConnectDone(w)
           \/ ConfigFails(w) \/ Fork(w) \/ ForkFails(w) \/ Answer(w)

-----------------------------------------------------------------------------
(* The poll thread of a decode node *)

PollCheck ==
  /\ poll = "check"
  /\ poll' = IF poll_running THEN "poll" ELSE "exited"
  /\ UNCHANGED <<config, main, failed, rdmaVars, ioVars, events, stopped, pool_running,
                 worker, todo, poll_running, poll_joined, state, vllmVars, stray>>

PollCq ==
  /\ poll = "poll" /\ poll' = "check"
  /\ UNCHANGED <<config, main, failed, rdmaVars, ioVars, events, stopped, pool_running,
                 worker, todo, poll_running, poll_joined, state, vllmVars, stray>>

\* The engine is fatal: the thread clears its own flag and ends.
PollFatal ==
  /\ poll = "check" /\ poll_running /\ use_gpu
  /\ poll' = "exited" /\ poll_running' = FALSE
  /\ UNCHANGED <<config, main, failed, rdmaVars, ioVars, events, stopped, pool_running,
                 worker, todo, poll_joined, state, vllmVars, stray>>

EpollThread == IoNotify \/ IoExit
PollThread  == PollCheck \/ PollCq

Next == \/ Main \/ Shutdown
        \/ (\E k \in Kinds : IoPush(k)) \/ EpollThread
        \/ (\E w \in Workers : Work(w) \/ WakeSpuriously(w) \/ Throw(w) \/ Wedge(w))
        \/ PollThread \/ PollFatal

Spec == Init /\ [][Next]_vars

\* The scheduler runs every thread that can run.
FairSpec == /\ Spec
            /\ WF_vars(Main) /\ WF_vars(EpollThread) /\ WF_vars(PollThread)
            /\ \A w \in Workers : WF_vars(Work(w))

-----------------------------------------------------------------------------
(* Properties *)

TypeOK ==
  /\ role \in Roles /\ use_gpu \in BOOLEAN
  /\ main \in {"new", "bound", "io", "probe", "init", "connect", "start_poll", "set_state",
               "up", "kill", "signal", "reap", "wait", "mark", "stop_poll", "join_poll",
               "rdma", "stop_io", "join_io", "stop_pool", "wake", "notify", "join_pool",
               "end", "crashed"}
  /\ failed \in BOOLEAN
  /\ alive \subseteq Objects /\ peer_qps \subseteq Peers
  /\ initialized \in BOOLEAN /\ step \in 1 .. Len(DestroyOrder) + 1
  /\ io \in {"off", "on", "notify", "exited"} /\ io_running \in BOOLEAN
  /\ registered \in BOOLEAN /\ pushed \in 0 .. MaxEvents
  /\ events \in Seq(Kinds) /\ Len(events) <= Capacity /\ stopped \in BOOLEAN
  /\ pool_running \in BOOLEAN
  /\ worker \in [Workers -> WorkerStages]
  /\ todo \in [Workers -> SUBSET Peers]
  /\ poll \in {"off", "check", "poll", "exited"}
  /\ poll_running \in BOOLEAN /\ poll_joined \in BOOLEAN
  /\ state \in {"starting", "waiting", "running", "stopped"}
  /\ forks \in 0 .. MaxEvents /\ vllms \subseteq 1 .. forks
  /\ vllm_pid \in 1 .. forks \cup {NoPid}
  /\ {awaited, signalled} \subseteq 1 .. forks \cup {NoPid, 0}
  /\ late \in BOOLEAN /\ stray \in BOOLEAN

\* RDMA objects go in an order in which none is taken from under another, registered
\* memory in particular, and a process that came up and was shut down leaves none
\* behind; after a failed start those remain that the failing initialize had made.
\* (initialize, shutdown, destroy_rdma_context)
TeardownInOrder ==
  /\ \A o \in alive : Needs(o) \subseteq alive
  /\ (main = "end" /\ alive # {}) => failed /\ ~initialized /\ step = 1

\* The poll thread never polls a completion queue that is gone, and a worker can meet
\* a queue pair that is gone only once the engine is being taken down, which happens
\* before the workers are joined.  (Node::shutdown, connect_all_qps)
EngineUsedAlive ==
  /\ (poll = "poll" /\ use_gpu) => Handle("recv_cq") \in alive /\ initialized
  /\ stray => main \notin BeforeShutdown \cup {"kill", "signal", "reap", "wait", "mark",
                                              "stop_poll", "join_poll"}

\* A vLLM server outlives a process that is shut down only if there were two, or it was
\* started while the process went down, or its id was lost.  (start_vllm_server,
\* Node::shutdown)
NoOrphanVllm ==
  (main = "end" /\ vllms # {}) => forks > 1 \/ late

\* A handler threw, or one of the orchestrator waits for itself.
Stalled == main = "crashed" \/ ~TrackerFree

\* No wake-up is lost: what is queued is taken out again unless the pool is stopped or
\* a handler never comes back.  (EventQueue::push, wait_and_pop)
QueueDrains == events # <<>> ~> (events = <<>> \/ ~pool_running \/ Stalled)

\* A shutdown, and a start that fails, come to their end, for no thread sleeps through
\* wake_all, unless a handler never comes back, or a worker has forked a second server
\* between kill and waitpid, and the main thread waits for one that nobody terminates.
\* (Node::shutdown, WorkerPool::stop, EventQueue::wake_all)
ShutdownEnds ==
  (main = "kill" \/ failed)
    ~> (main = "end" \/ Stalled \/ (main = "wait" /\ awaited \in vllms \ {signalled}))
=============================================================================
