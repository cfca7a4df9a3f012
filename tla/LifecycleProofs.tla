---------------------------- MODULE LifecycleProofs ----------------------------
(***************************************************************************)
(* Proofs about NodeLifecycle, for every role and configuration, any       *)
(* number of peers and workers, any capacity of the event queue and any    *)
(* number of messages.                                                     *)
(***************************************************************************)
EXTENDS NodeLifecycle, SequenceTheorems, FiniteSetTheorems, TLAPS

(***************************************************************************)
(* The inductive invariant.  While the engine is initialized and used, all *)
(* RDMA objects exist; while it is made, a prefix of the creation order    *)
(* exists, and while it is destroyed, what is left of the destruction      *)
(* order.  Nothing arrives before the process has registered, which a      *)
(* start that fails never does.  Every vLLM server that was started, and   *)
(* every worker on its way to start one, has used up an event.             *)
(***************************************************************************)

\* The first k objects of initialize, and what is left before the s-th of shutdown.
Created(k)   == {CreateOrder[i] : i \in 1 .. k}
Remaining(s) == {DestroyOrder[i] : i \in s .. Len(DestroyOrder)}

\* Where the main thread is while the process has no engine yet, uses it, or is done
\* with it.
Early   == {"new", "bound", "io", "probe"}
PollTime == {"set_state", "up", "kill", "signal", "reap", "wait", "mark", "stop_poll",
            "join_poll"}
Using   == PollTime \cup {"connect", "start_poll"}
Done    == {"stop_io", "join_io", "stop_pool", "wake", "notify", "join_pool", "end"}

\* Where it is when it does not come back to the engine.
Over == Done \cup {"rdma", "crashed"}

EngineStage ==
  /\ ~use_gpu => alive = {} /\ ~initialized
  /\ main \in Early => alive = {} /\ ~initialized
  /\ main = "probe" => use_gpu
  /\ main = "init" =>
       /\ use_gpu /\ ~initialized
       /\ IsFiniteSet(alive)
       /\ \E k \in 0 .. Len(CreateOrder) : alive = Created(k) /\ Cardinality(alive) = k
  /\ main \in Using /\ use_gpu => initialized /\ alive = Objects
  /\ main = "rdma" => IF initialized THEN alive = Remaining(step) ELSE alive = {}
  /\ main \in Done => ~initialized /\ (alive # {} => failed /\ step = 1)
  /\ main \notin Over => step = 1

NeedsMet == \A o \in alive : Needs(o) \subseteq alive

\* Only a process that others know of gets messages.
Known ==
  /\ role = "orchestrator" => ~use_gpu
  /\ main \in {"probe", "init", "connect", "start_poll"} => role # "orchestrator"
  /\ main \in {"new", "bound"} => ~registered
  /\ registered /\ role # "orchestrator" => main \in PollTime \cup {"start_poll"} \cup Over
  /\ failed => ~registered /\ main \in Over
  /\ pushed > 0 => registered

\* Workers on their way to start vLLM.
StartingServer == {"members", "connect", "fork"}
Busy == {w \in Workers : worker[w] \in StartingServer}

ServersCounted ==
  /\ forks + Cardinality(Busy) + Len(events) <= pushed
  /\ \A w \in Workers : worker[w] \in {"members", "connect"} => use_gpu
  /\ ~Killed /\ ~late /\ forks > 0 => vllm_pid # NoPid
  /\ Killed /\ main # "crashed" /\ vllms # {} => forks > 1 \/ late

\* The poll thread runs from start_poll to the join; it is joined when its flag is set.
PollInTime ==
  poll \in {"check", "poll"} =>
    role = "decode" /\ main \in PollTime /\ (main # "join_poll" => poll_running)

StrayLate == stray => main \in Over

IInv == /\ TypeOK /\ EngineStage /\ NeedsMet /\ Known /\ ServersCounted
        /\ PollInTime /\ StrayLate

-----------------------------------------------------------------------------
(* The orders of creation and destruction *)

\* The handles of the engine; the queue pairs are other objects.
LEMMA HandlesDiffer ==
  /\ \A x, y \in STRING : Handle(x) = Handle(y) => x = y
  /\ \A x \in STRING, p \in Peers : x # "qp" => Handle(x) # Qp(p) /\ Handle(x) \notin Qps
  /\ \A p, q \in Peers : Qp(p) = Qp(q) => p = q
BY DEF Handle, Qp, Qps

LEMMA HandlesApart ==
  /\ Handle("ctx") # Handle("pd") /\ Handle("ctx") # Handle("buf")
  /\ Handle("ctx") # Handle("host") /\ Handle("ctx") # Handle("mr")
  /\ Handle("ctx") # Handle("send_cq") /\ Handle("ctx") # Handle("recv_cq")
  /\ Handle("pd") # Handle("buf") /\ Handle("pd") # Handle("host")
  /\ Handle("pd") # Handle("mr") /\ Handle("pd") # Handle("send_cq")
  /\ Handle("pd") # Handle("recv_cq") /\ Handle("buf") # Handle("host")
  /\ Handle("buf") # Handle("mr") /\ Handle("buf") # Handle("send_cq")
  /\ Handle("buf") # Handle("recv_cq") /\ Handle("host") # Handle("mr")
  /\ Handle("host") # Handle("send_cq") /\ Handle("host") # Handle("recv_cq")
  /\ Handle("mr") # Handle("send_cq") /\ Handle("mr") # Handle("recv_cq")
  /\ Handle("send_cq") # Handle("recv_cq")
  /\ Handle("ctx") \notin Qps /\ Handle("pd") \notin Qps /\ Handle("buf") \notin Qps
  /\ Handle("host") \notin Qps /\ Handle("mr") \notin Qps /\ Handle("send_cq") \notin Qps
  /\ Handle("recv_cq") \notin Qps
BY DEF Handle, Qps, Qp

LEMMA QpObjectsType ==
  /\ Len(PeerOrder) \in Nat
  /\ QpObjects \in Seq(Qps) /\ Len(QpObjects) = Len(PeerOrder)
  /\ \A i \in 1 .. Len(PeerOrder) :
       PeerOrder[i] \in Peers /\ QpObjects[i] = Qp(PeerOrder[i]) /\ QpObjects[i] \in Qps
  /\ \A i, j \in 1 .. Len(PeerOrder) : QpObjects[i] = QpObjects[j] => i = j
  /\ \A o \in Qps : \E i \in 1 .. Len(PeerOrder) : o = QpObjects[i]
<1>1. /\ PeerOrder \in Seq(Peers) /\ Peers = {PeerOrder[i] : i \in DOMAIN PeerOrder}
      /\ \A i, j \in DOMAIN PeerOrder : PeerOrder[i] = PeerOrder[j] => i = j
  BY LifecycleAssumption DEF Peers, ToSet, IsInjective
<1>2. /\ Len(PeerOrder) \in Nat /\ DOMAIN PeerOrder = 1 .. Len(PeerOrder)
      /\ \A i \in 1 .. Len(PeerOrder) : PeerOrder[i] \in Peers
  BY <1>1
<1>3. \A i \in 1 .. Len(PeerOrder) : Qp(PeerOrder[i]) \in Qps
  BY <1>2 DEF Qps
<1>4. QpObjects \in [1 .. Len(PeerOrder) -> Qps]
  BY <1>3 DEF QpObjects
<1>5. QpObjects \in Seq(Qps) /\ Len(QpObjects) = Len(PeerOrder)
  BY <1>2, <1>4
<1>6. \A i \in 1 .. Len(PeerOrder) : QpObjects[i] = Qp(PeerOrder[i])
  BY DEF QpObjects
<1>7. \A i, j \in 1 .. Len(PeerOrder) : QpObjects[i] = QpObjects[j] => i = j
  BY <1>1, <1>2, <1>6, HandlesDiffer
<1>8. \A o \in Qps : \E i \in 1 .. Len(PeerOrder) : o = QpObjects[i]
  BY <1>1, <1>2, <1>6 DEF Qps
<1> QED BY <1>2, <1>3, <1>5, <1>6, <1>7, <1>8

\* The seven handles in the order of initialize.
LEMMA CreateAt ==
  /\ CreateOrder \in Seq(Objects)
  /\ Len(CreateOrder) = Len(PeerOrder) + 7
  /\ CreateOrder[1] = Handle("ctx") /\ CreateOrder[2] = Handle("pd")
  /\ CreateOrder[3] = Handle("buf") /\ CreateOrder[4] = Handle("host")
  /\ CreateOrder[5] = Handle("mr") /\ CreateOrder[6] = Handle("send_cq")
  /\ CreateOrder[7] = Handle("recv_cq")
  /\ \A i \in 1 .. Len(PeerOrder) : CreateOrder[i + 7] = QpObjects[i]
<1> DEFINE D == DeviceObjects
           M == MemoryObjects
           Q == QueueObjects
           P == QpObjects
           H == {Handle("ctx"), Handle("pd"), Handle("buf"), Handle("host"), Handle("mr"),
                 Handle("send_cq"), Handle("recv_cq")}
           S == H \cup Qps
<1>1. /\ D \in Seq(S) /\ Len(D) = 2 /\ D[1] = Handle("ctx") /\ D[2] = Handle("pd")
  BY DEF DeviceObjects
<1>2. /\ M \in Seq(S) /\ Len(M) = 3 /\ M[1] = Handle("buf") /\ M[2] = Handle("host")
      /\ M[3] = Handle("mr")
  BY DEF MemoryObjects
<1>3. /\ Q \in Seq(S) /\ Len(Q) = 2 /\ Q[1] = Handle("send_cq") /\ Q[2] = Handle("recv_cq")
  BY DEF QueueObjects
<1>4. P \in Seq(S) /\ Len(P) = Len(PeerOrder) /\ Len(PeerOrder) \in Nat
  BY QpObjectsType
<1> HIDE DEF D, M, Q, P, S
<1> DEFINE A == D \o M
           B == A \o Q
           C == B \o P
<1>5. /\ A \in Seq(S) /\ Len(A) = Len(D) + Len(M)
      /\ \A i \in 1 .. Len(D) + Len(M) : A[i] = IF i <= Len(D) THEN D[i] ELSE M[i - Len(D)]
  BY <1>1, <1>2, ConcatProperties
<1> HIDE DEF A
<1>6. Len(A) = 5 /\ A[1] = D[1] /\ A[2] = D[2] /\ A[3] = M[1] /\ A[4] = M[2] /\ A[5] = M[3]
  BY <1>1, <1>2, <1>5
<1>7. /\ B \in Seq(S) /\ Len(B) = Len(A) + Len(Q)
      /\ \A i \in 1 .. Len(A) + Len(Q) : B[i] = IF i <= Len(A) THEN A[i] ELSE Q[i - Len(A)]
  <2>1. A \in Seq(S) /\ Q \in Seq(S)
    BY <1>5, <1>3
  <2> QED BY <2>1, ConcatProperties
<1> HIDE DEF B
<1>8. /\ Len(B) = 7 /\ B[1] = D[1] /\ B[2] = D[2] /\ B[3] = M[1] /\ B[4] = M[2] /\ B[5] = M[3]
      /\ B[6] = Q[1] /\ B[7] = Q[2]
  BY <1>3, <1>6, <1>7
<1>9. /\ C \in Seq(S) /\ Len(C) = Len(B) + Len(P)
      /\ \A i \in 1 .. Len(B) + Len(P) : C[i] = IF i <= Len(B) THEN B[i] ELSE P[i - Len(B)]
  <2>1. B \in Seq(S) /\ P \in Seq(S)
    BY <1>7, <1>4
  <2> QED BY <2>1, ConcatProperties
<1> HIDE DEF C
<1>10. /\ Len(C) = Len(PeerOrder) + 7
       /\ C[1] = D[1] /\ C[2] = D[2] /\ C[3] = M[1] /\ C[4] = M[2] /\ C[5] = M[3]
       /\ C[6] = Q[1] /\ C[7] = Q[2]
  BY <1>4, <1>8, <1>9
<1>11. \A i \in 1 .. Len(PeerOrder) : C[i + 7] = P[i]
  BY <1>4, <1>8, <1>9
<1>12. CreateOrder = C
  BY DEF CreateOrder, A, B, C, D, M, Q, P
<1>13. C \in Seq(Objects)
  <2>1. \A i \in 1 .. Len(C) : C[i] \in Objects
    <3>1. DOMAIN C = 1 .. Len(C)
      BY <1>9
    <3> QED BY <1>12, <3>1, Zenon DEF Objects, ToSet
  <2> QED BY <1>9, <2>1
<1> QED BY <1>1, <1>2, <1>3, <1>10, <1>11, <1>12, <1>13 DEF P

LEMMA DestroyAt ==
  /\ Len(DestroyOrder) = Len(PeerOrder) + 7
  /\ \A i \in 1 .. Len(PeerOrder) : DestroyOrder[i] = QpObjects[i]
  /\ DestroyOrder[Len(PeerOrder) + 1] = Handle("send_cq")
  /\ DestroyOrder[Len(PeerOrder) + 2] = Handle("recv_cq")
  /\ DestroyOrder[Len(PeerOrder) + 3] = Handle("mr")
  /\ DestroyOrder[Len(PeerOrder) + 4] = Handle("pd")
  /\ DestroyOrder[Len(PeerOrder) + 5] = Handle("ctx")
  /\ DestroyOrder[Len(PeerOrder) + 6] = Handle("buf")
  /\ DestroyOrder[Len(PeerOrder) + 7] = Handle("host")
<1> DEFINE R == <<Handle("mr"), Handle("pd"), Handle("ctx"), Handle("buf"), Handle("host")>>
           Q == QueueObjects
           P == QpObjects
           H == {Handle("ctx"), Handle("pd"), Handle("buf"), Handle("host"), Handle("mr"),
                 Handle("send_cq"), Handle("recv_cq")}
           S == H \cup Qps
           n == Len(PeerOrder)
<1>1. /\ R \in Seq(S) /\ Len(R) = 5 /\ R[1] = Handle("mr") /\ R[2] = Handle("pd")
      /\ R[3] = Handle("ctx") /\ R[4] = Handle("buf") /\ R[5] = Handle("host")
  OBVIOUS
<1>2. /\ Q \in Seq(S) /\ Len(Q) = 2 /\ Q[1] = Handle("send_cq") /\ Q[2] = Handle("recv_cq")
  BY DEF QueueObjects
<1>3. P \in Seq(S) /\ Len(P) = n /\ n \in Nat
  BY QpObjectsType
<1> HIDE DEF R, Q, P, S, n
<1> DEFINE A == P \o Q
           B == A \o R
<1>4. /\ A \in Seq(S) /\ Len(A) = Len(P) + Len(Q)
      /\ \A i \in 1 .. Len(P) + Len(Q) : A[i] = IF i <= Len(P) THEN P[i] ELSE Q[i - Len(P)]
  BY <1>2, <1>3, ConcatProperties
<1> HIDE DEF A
<1>5. /\ Len(A) = n + 2 /\ (\A i \in 1 .. n : A[i] = P[i])
      /\ A[n + 1] = Q[1] /\ A[n + 2] = Q[2]
  BY <1>2, <1>3, <1>4
<1>6. /\ B \in Seq(S) /\ Len(B) = Len(A) + Len(R)
      /\ \A i \in 1 .. Len(A) + Len(R) : B[i] = IF i <= Len(A) THEN A[i] ELSE R[i - Len(A)]
  <2>1. A \in Seq(S) /\ R \in Seq(S)
    BY <1>4, <1>1
  <2> QED BY <2>1, ConcatProperties
<1> HIDE DEF B
<1>7. /\ Len(B) = n + 7 /\ (\A i \in 1 .. n : B[i] = P[i])
      /\ B[n + 1] = Q[1] /\ B[n + 2] = Q[2]
  BY <1>1, <1>3, <1>5, <1>6
<1>8. /\ B[n + 3] = R[1] /\ B[n + 4] = R[2] /\ B[n + 5] = R[3] /\ B[n + 6] = R[4]
      /\ B[n + 7] = R[5]
  BY <1>1, <1>3, <1>5, <1>6
<1>9. DestroyOrder = B
  BY DEF DestroyOrder, A, B, R, Q, P
<1> QED BY <1>1, <1>2, <1>7, <1>8, <1>9 DEF P, n

LEMMA NeedsOf ==
  /\ Needs(Handle("ctx")) = {} /\ Needs(Handle("pd")) = {Handle("ctx")}
  /\ Needs(Handle("buf")) = {} /\ Needs(Handle("host")) = {}
  /\ Needs(Handle("mr")) = {Handle("pd"), Handle("buf")}
  /\ Needs(Handle("send_cq")) = {Handle("ctx")} /\ Needs(Handle("recv_cq")) = {Handle("ctx")}
  /\ \A o \in Qps : Needs(o) = {Handle("pd"), Handle("send_cq"), Handle("recv_cq")}
BY HandlesApart DEF Needs

LEMMA UndoneByWhat ==
  /\ UndoneBy(Handle("ctx")) = {} /\ UndoneBy(Handle("pd")) = {Handle("ctx")}
  /\ UndoneBy(Handle("buf")) = {} /\ UndoneBy(Handle("host")) = {}
  /\ UndoneBy(Handle("mr")) = {Handle("buf"), Handle("host")}
  /\ UndoneBy(Handle("send_cq")) = {} /\ UndoneBy(Handle("recv_cq")) = {Handle("send_cq")}
  /\ \A o \in Qps : UndoneBy(o) = {}
BY HandlesApart DEF UndoneBy

\* Every object is created, and destroyed, at one place.
LEMMA Places ==
  ASSUME NEW n \in Nat, n = Len(PeerOrder)
  PROVE  /\ \A i, j \in 1 .. n + 7 : CreateOrder[i] = CreateOrder[j] => i = j
         /\ \A i, j \in 1 .. n + 7 : DestroyOrder[i] = DestroyOrder[j] => i = j
<1>1. \A i \in 1 .. n + 7 : \/ i \in {1, 2, 3, 4, 5, 6, 7}
                            \/ \E j \in 1 .. n : i = j + 7
  <2> SUFFICES ASSUME NEW i \in 1 .. n + 7, i \notin {1, 2, 3, 4, 5, 6, 7}
               PROVE  \E j \in 1 .. n : i = j + 7
    OBVIOUS
  <2>1. i - 7 \in 1 .. n /\ i = (i - 7) + 7
    OBVIOUS
  <2> QED BY <2>1
<1>2. /\ \A i, j \in 1 .. n : QpObjects[i] = QpObjects[j] => i = j
      /\ \A i \in 1 .. n : QpObjects[i] \in Qps
  BY QpObjectsType
<1>4. ASSUME NEW i \in 1 .. n + 7, NEW j \in 1 .. n + 7, CreateOrder[i] = CreateOrder[j]
      PROVE  i = j
  <2>1. CASE i \in {1, 2, 3, 4, 5, 6, 7} /\ j \in {1, 2, 3, 4, 5, 6, 7}
    BY HandlesApart, <1>4, <2>1, CreateAt
  <2>2. CASE (\E k \in 1 .. n : i = k + 7) /\ j \in {1, 2, 3, 4, 5, 6, 7}
    <3>1. CreateOrder[i] \in Qps
      BY <1>2, <2>2, CreateAt
    <3> QED BY HandlesApart, <1>4, <2>2, <3>1, CreateAt
  <2>3. CASE i \in {1, 2, 3, 4, 5, 6, 7} /\ \E k \in 1 .. n : j = k + 7
    <3>1. CreateOrder[j] \in Qps
      BY <1>2, <2>3, CreateAt
    <3> QED BY HandlesApart, <1>4, <2>3, <3>1, CreateAt
  <2>4. CASE (\E k \in 1 .. n : i = k + 7) /\ \E k \in 1 .. n : j = k + 7
    <3>1. PICK k \in 1 .. n, l \in 1 .. n : i = k + 7 /\ j = l + 7
      BY <2>4
    <3>2. QpObjects[k] = QpObjects[l]
      BY <1>4, <3>1, CreateAt
    <3> QED BY <1>2, <3>1, <3>2
  <2> QED BY <1>1, <2>1, <2>2, <2>3, <2>4
<1>5. \A i \in 1 .. n + 7 : i \in 1 .. n \/ i \in {n + 1, n + 2, n + 3, n + 4, n + 5, n + 6, n + 7}
  OBVIOUS
<1>6. ASSUME NEW i \in 1 .. n + 7, NEW j \in 1 .. n + 7, DestroyOrder[i] = DestroyOrder[j]
      PROVE  i = j
  <2>1. CASE /\ i \in {n + 1, n + 2, n + 3, n + 4, n + 5, n + 6, n + 7}
             /\ j \in {n + 1, n + 2, n + 3, n + 4, n + 5, n + 6, n + 7}
    BY HandlesApart, <1>6, <2>1, DestroyAt
  <2>2. CASE i \in 1 .. n /\ j \in {n + 1, n + 2, n + 3, n + 4, n + 5, n + 6, n + 7}
    BY <1>2, HandlesApart, <1>6, <2>2, DestroyAt
  <2>3. CASE i \in {n + 1, n + 2, n + 3, n + 4, n + 5, n + 6, n + 7} /\ j \in 1 .. n
    BY <1>2, HandlesApart, <1>6, <2>3, DestroyAt
  <2>4. CASE i \in 1 .. n /\ j \in 1 .. n
    BY <1>2, <1>6, <2>4, DestroyAt
  <2> QED BY <1>5, <2>1, <2>2, <2>3, <2>4
<1> QED BY <1>4, <1>6

LEMMA CreatedNext ==
  /\ Created(0) = {} /\ Created(Len(CreateOrder)) = Objects
  /\ \A k \in 0 .. Len(CreateOrder) : Created(k) \subseteq Objects
  /\ \A k \in 0 .. Len(CreateOrder), j \in 1 .. Len(CreateOrder) :
       CreateOrder[j] \in Created(k) <=> j <= k
  /\ \A k \in Nat : Created(k + 1) = Created(k) \cup {CreateOrder[k + 1]}
<1>1. PICK n \in Nat : n = Len(PeerOrder) /\ Len(CreateOrder) = n + 7
  BY QpObjectsType, CreateAt
<1>2. Created(0) = {}
  BY DEF Created
<1>3. Created(Len(CreateOrder)) = Objects
  <2>1. DOMAIN CreateOrder = 1 .. Len(CreateOrder)
    BY CreateAt
  <2> QED BY <2>1 DEF Created, Objects, ToSet
<1>4. \A k \in 0 .. n + 7 : Created(k) \subseteq Created(n + 7)
  BY DEF Created
<1>5. ASSUME NEW k \in 0 .. n + 7, NEW j \in 1 .. n + 7
      PROVE  CreateOrder[j] \in Created(k) <=> j <= k
  <2>1. j <= k => j \in 1 .. k
    OBVIOUS
  <2>2. \A i \in 1 .. k : i \in 1 .. n + 7 /\ i <= k
    OBVIOUS
  <2> QED BY <1>1, <2>1, <2>2, Places DEF Created
<1>6. ASSUME NEW k \in Nat PROVE Created(k + 1) = Created(k) \cup {CreateOrder[k + 1]}
  <2>1. 1 .. k + 1 = (1 .. k) \cup {k + 1}
    OBVIOUS
  <2> QED BY <2>1 DEF Created
<1> QED BY <1>1, <1>2, <1>3, <1>4, <1>5, <1>6

LEMMA RemainingNext ==
  /\ Remaining(1) = Objects /\ Remaining(Len(DestroyOrder) + 1) = {}
  /\ \A s \in 1 .. Len(DestroyOrder) :
       /\ Remaining(s + 1) = Remaining(s) \ {DestroyOrder[s]}
       /\ Remaining(s) \subseteq Objects
<1>1. PICK n \in Nat : n = Len(PeerOrder) /\ Len(DestroyOrder) = n + 7 /\ Len(CreateOrder) = n + 7
  BY QpObjectsType, CreateAt, DestroyAt
<1>2. Remaining(Len(DestroyOrder) + 1) = {}
  BY <1>1 DEF Remaining
<1>3. ASSUME NEW s \in 1 .. n + 7
      PROVE  Remaining(s + 1) = Remaining(s) \ {DestroyOrder[s]}
  <2>1. s .. n + 7 = ((s + 1) .. n + 7) \cup {s} /\ s \notin (s + 1) .. n + 7
    OBVIOUS
  <2>2. \A i \in (s + 1) .. n + 7 : i \in 1 .. n + 7
    OBVIOUS
  <2>3. \A i \in (s + 1) .. n + 7 : DestroyOrder[i] # DestroyOrder[s]
    BY <1>1, <2>1, <2>2, Places
  <2> QED BY <1>1, <2>1, <2>3 DEF Remaining
<1>4. \A s \in 1 .. n + 7 : Remaining(s) \subseteq Remaining(1)
  BY <1>1 DEF Remaining
<1>5. Remaining(1) = Objects
  <2>1. Objects = {CreateOrder[i] : i \in 1 .. n + 7}
    BY <1>1, CreateAt, SMTT(30) DEF Objects, ToSet
  <2>2. Remaining(1) = {DestroyOrder[i] : i \in 1 .. n + 7}
    BY <1>1 DEF Remaining
  <2>3. ASSUME NEW i \in 1 .. n + 7 PROVE \E j \in 1 .. n + 7 : CreateOrder[i] = DestroyOrder[j]
    <3>1. CASE i \in {1, 2, 3, 4, 5, 6, 7}
      <4>1. /\ n + 1 \in 1 .. n + 7 /\ n + 2 \in 1 .. n + 7 /\ n + 3 \in 1 .. n + 7
            /\ n + 4 \in 1 .. n + 7 /\ n + 5 \in 1 .. n + 7 /\ n + 6 \in 1 .. n + 7
            /\ n + 7 \in 1 .. n + 7
        OBVIOUS
      <4> QED BY <1>1, <3>1, <4>1, CreateAt, DestroyAt
    <3>2. CASE i \notin {1, 2, 3, 4, 5, 6, 7}
      <4>1. i - 7 \in 1 .. n /\ i = (i - 7) + 7 /\ i - 7 \in 1 .. n + 7
        BY <3>2
      <4> QED BY <1>1, <4>1, CreateAt, DestroyAt
    <3> QED BY <3>1, <3>2
  <2>4. ASSUME NEW i \in 1 .. n + 7 PROVE \E j \in 1 .. n + 7 : DestroyOrder[i] = CreateOrder[j]
    <3>1. CASE i \in 1 .. n
      <4>1. i + 7 \in 1 .. n + 7
        BY <3>1
      <4> QED BY <1>1, <3>1, <4>1, CreateAt, DestroyAt
    <3>2. CASE i \notin 1 .. n
      <4>1. i \in {n + 1, n + 2, n + 3, n + 4, n + 5, n + 6, n + 7}
        BY <3>2
      <4>2. /\ 1 \in 1 .. n + 7 /\ 2 \in 1 .. n + 7 /\ 3 \in 1 .. n + 7 /\ 4 \in 1 .. n + 7
            /\ 5 \in 1 .. n + 7 /\ 6 \in 1 .. n + 7 /\ 7 \in 1 .. n + 7
        OBVIOUS
      <4> QED BY <1>1, <4>1, <4>2, CreateAt, DestroyAt
    <3> QED BY <3>1, <3>2
  <2> QED BY <2>1, <2>2, <2>3, <2>4
<1> QED BY <1>1, <1>2, <1>3, <1>4, <1>5

\* An object is made when all it needs is there, and what a failing call undoes is needed
\* by nothing that stays.
LEMMA MadeAfterNeeded ==
  ASSUME NEW k \in 0 .. Len(CreateOrder) - 1
  PROVE  /\ Needs(CreateOrder[k + 1]) \subseteq Created(k)
         /\ CreateOrder[k + 1] \notin Created(k) /\ CreateOrder[k + 1] \in Objects
         /\ \A o \in Created(k) : Needs(o) \cap UndoneBy(CreateOrder[k + 1]) = {}
<1>1. PICK n \in Nat : n = Len(PeerOrder) /\ Len(CreateOrder) = n + 7
  BY QpObjectsType, CreateAt
<1>2. k + 1 \in 1 .. n + 7 /\ k \in 0 .. n + 7 /\ k \in Nat
  BY <1>1
<1>3. \A j \in 1 .. n + 7 : CreateOrder[j] \in Created(k) <=> j <= k
  BY <1>1, <1>2, CreatedNext
<1>4. CreateOrder[k + 1] \in Objects
  BY <1>1, <1>2, CreateAt
<1>5. \A j \in 8 .. n + 7 : CreateOrder[j] \in Qps
  <2> SUFFICES ASSUME NEW j \in 8 .. n + 7 PROVE CreateOrder[j] \in Qps
    OBVIOUS
  <2>1. j - 7 \in 1 .. n /\ (j - 7) + 7 = j
    OBVIOUS
  <2>2. CreateOrder[(j - 7) + 7] = QpObjects[j - 7]
    BY <1>1, <2>1, CreateAt
  <2>3. QpObjects[j - 7] \in Qps
    BY <1>1, <2>1, QpObjectsType
  <2> QED BY <2>1, <2>2, <2>3
<1>6. /\ 1 \in 1 .. n + 7 /\ 2 \in 1 .. n + 7 /\ 3 \in 1 .. n + 7 /\ 4 \in 1 .. n + 7
      /\ 5 \in 1 .. n + 7 /\ 6 \in 1 .. n + 7 /\ 7 \in 1 .. n + 7
  OBVIOUS
<1>7. /\ Handle("ctx") \in Created(k) <=> 1 <= k
      /\ Handle("pd") \in Created(k) <=> 2 <= k
      /\ Handle("buf") \in Created(k) <=> 3 <= k
      /\ Handle("send_cq") \in Created(k) <=> 6 <= k
      /\ Handle("recv_cq") \in Created(k) <=> 7 <= k
  BY <1>3, <1>6, CreateAt
<1>8. Needs(CreateOrder[k + 1]) \subseteq Created(k)
  <2>1. CASE k + 1 \in {1, 2, 3, 4, 5, 6, 7}
    BY <1>2, <1>7, <2>1, CreateAt, NeedsOf
  <2>2. CASE k + 1 \in 8 .. n + 7
    BY <1>2, <1>5, <1>7, <2>2, NeedsOf
  <2> QED BY <1>2, <2>1, <2>2
<1>9. ASSUME NEW o \in Created(k) PROVE Needs(o) \cap UndoneBy(CreateOrder[k + 1]) = {}
  <2>1. PICK j \in 1 .. k : o = CreateOrder[j]
    BY DEF Created
  <2>2. CASE k + 1 \notin {2, 5, 7}
    <3>1. CASE k + 1 \in {1, 3, 4, 6}
      BY <3>1, CreateAt, UndoneByWhat
    <3>2. CASE k + 1 \in 8 .. n + 7
      BY <1>5, <3>2, UndoneByWhat
    <3> QED BY <1>2, <2>2, <3>1, <3>2
  <2>3. CASE k + 1 = 2
    <3>1. j = 1
      BY <1>2, <2>3
    <3> QED BY <2>1, <3>1, CreateAt, NeedsOf
  <2>4. CASE k + 1 = 5
    <3>1. j \in {1, 2, 3, 4}
      BY <1>2, <2>4
    <3> QED BY <2>1, <2>4, <3>1, CreateAt, NeedsOf, UndoneByWhat, HandlesApart
  <2>5. CASE k + 1 = 7
    <3>1. j \in {1, 2, 3, 4, 5, 6}
      BY <1>2, <2>5
    <3> QED BY <2>1, <2>5, <3>1, CreateAt, NeedsOf, UndoneByWhat, HandlesApart
  <2> QED BY <2>2, <2>3, <2>4, <2>5
<1> QED BY <1>1, <1>2, <1>3, <1>4, <1>8, <1>9

\* An object is destroyed when nothing that is left needs it.
LEMMA GoneWhenFree ==
  ASSUME NEW s \in 1 .. Len(DestroyOrder), NEW o \in Remaining(s)
  PROVE  DestroyOrder[s] \notin Needs(o)
<1>1. PICK n \in Nat : n = Len(PeerOrder) /\ Len(DestroyOrder) = n + 7
  BY QpObjectsType, DestroyAt
<1>2. PICK i \in s .. n + 7 : o = DestroyOrder[i]
  BY <1>1 DEF Remaining
<1>3. s \in 1 .. n + 7 /\ i \in 1 .. n + 7
  BY <1>1
<1>4. \A j \in 1 .. n : DestroyOrder[j] \in Qps
  BY <1>1, DestroyAt, QpObjectsType
<1>5. \/ i \in 1 .. n
      \/ i \in {n + 1, n + 2, n + 3, n + 4, n + 5, n + 6, n + 7}
  BY <1>3
<1>6. Needs(o) \subseteq {Handle("ctx"), Handle("pd"), Handle("buf"), Handle("send_cq"),
                          Handle("recv_cq")}
  <2>1. CASE i \in 1 .. n
    BY <1>2, <1>4, <2>1, NeedsOf
  <2>2. CASE i \in {n + 1, n + 2, n + 3, n + 4, n + 5, n + 6, n + 7}
    BY <1>1, <1>2, <2>2, DestroyAt, NeedsOf
  <2> QED BY <1>5, <2>1, <2>2
<1>7. CASE s \in 1 .. n
  BY <1>4, <1>6, <1>7, HandlesApart
<1>8. CASE s = n + 1 \/ s = n + 2
  <2>1. i \in {n + 1, n + 2, n + 3, n + 4, n + 5, n + 6, n + 7}
    BY <1>3, <1>8
  <2>2. Needs(o) \subseteq {Handle("ctx"), Handle("pd"), Handle("buf")}
    BY <1>1, <1>2, <2>1, DestroyAt, NeedsOf
  <2> QED BY <1>1, <1>8, <2>2, DestroyAt, HandlesApart
<1>9. CASE s = n + 3
  BY <1>1, <1>6, <1>9, DestroyAt, HandlesApart
<1>10. CASE s = n + 4
  <2>1. i \in {n + 4, n + 5, n + 6, n + 7}
    BY <1>3, <1>10
  <2>2. Needs(o) \subseteq {Handle("ctx")}
    BY <1>1, <1>2, <2>1, DestroyAt, NeedsOf
  <2> QED BY <1>1, <1>10, <2>2, DestroyAt, HandlesApart
<1>11. CASE s = n + 5 \/ s = n + 6 \/ s = n + 7
  <2>1. i \in {n + 5, n + 6, n + 7}
    BY <1>3, <1>11
  <2> QED BY <1>1, <1>2, <2>1, DestroyAt, NeedsOf
<1> QED BY <1>3, <1>7, <1>8, <1>9, <1>10, <1>11

-----------------------------------------------------------------------------
(* Workers *)

LEMMA PartOfWorkers ==
  ASSUME NEW S, S \subseteq Workers
  PROVE  IsFiniteSet(S) /\ Cardinality(S) \in Nat /\ (S # {} => Cardinality(S) > 0)
<1>1. IsFiniteSet(S)
  BY LifecycleAssumption, FS_Subset
<1>2. Cardinality(S) \in Nat /\ (Cardinality(S) = 0 <=> S = {})
  BY <1>1, FS_CardinalityType, FS_EmptySet
<1> QED BY <1>1, <1>2

-----------------------------------------------------------------------------
(* The beginning *)

LEMMA InitEstablishes == Init => IInv
<1> SUFFICES ASSUME Init PROVE IInv
  OBVIOUS
<1> USE DEF Init
<1>1. MaxEvents \in Nat /\ Capacity \in Nat
  BY LifecycleAssumption
<1>2. Len(DestroyOrder) \in Nat
  BY QpObjectsType, DestroyAt
<1>3. Busy = {} /\ Cardinality({}) = 0
  BY FS_EmptySet DEF Busy, StartingServer
<1>4. TypeOK
  <2>1. step \in 1 .. Len(DestroyOrder) + 1 /\ pushed \in 0 .. MaxEvents
        /\ forks \in 0 .. MaxEvents /\ vllms \subseteq 1 .. forks
        /\ vllm_pid \in 1 .. forks \cup {NoPid}
        /\ {awaited, signalled} \subseteq 1 .. forks \cup {NoPid, 0}
    BY <1>1, <1>2
  <2>2. events \in Seq(Kinds) /\ Len(events) <= Capacity
    BY <1>1
  <2>3. /\ worker \in [Workers -> WorkerStages]
        /\ todo \in [Workers -> SUBSET Peers]
    BY DEF WorkerStages
  <2> QED BY <2>1, <2>2, <2>3 DEF TypeOK
<1>5. EngineStage /\ NeedsMet
  BY DEF EngineStage, NeedsMet, Early, Using, PollTime, Done, Over
<1>6. Known
  BY DEF Known
<1>7. ServersCounted
  <2>1. forks + Cardinality(Busy) + Len(events) <= pushed
    BY <1>3
  <2>2. \A w \in Workers : worker[w] \notin {"members", "connect"}
    OBVIOUS
  <2>3. ~Killed
    BY DEF Killed, BeforeShutdown
  <2> QED BY <2>1, <2>2, <2>3 DEF ServersCounted
<1>8. PollInTime /\ StrayLate
  BY DEF PollInTime, StrayLate
<1> QED BY <1>4, <1>5, <1>6, <1>7, <1>8 DEF IInv

-----------------------------------------------------------------------------
(* The engine *)

\* What no step but one of the main thread changes.
mainVars == <<config, main, failed, rdmaVars, io_running, registered, stopped,
              pool_running>>

LEMMA OthersLeaveMain ==
  /\ \A k \in Kinds : IoPush(k) => UNCHANGED mainVars
  /\ EpollThread => UNCHANGED mainVars
  /\ \A w \in Workers : Work(w) \/ WakeSpuriously(w) \/ Wedge(w) => UNCHANGED mainVars
  /\ PollThread \/ PollFatal => UNCHANGED mainVars
<1>1. \A k \in Kinds : IoPush(k) => UNCHANGED mainVars
  BY DEF IoPush, mainVars
<1>2. EpollThread => UNCHANGED mainVars
  BY DEF EpollThread, IoNotify, IoExit, mainVars, ioVars
<1>3. ASSUME NEW w \in Workers, Work(w) \/ WakeSpuriously(w) \/ Wedge(w)
      PROVE  UNCHANGED mainVars
  <2>1. CASE Loop(w) \/ Pop(w) \/ PopNothing(w) \/ WakeSpuriously(w) \/ OtherDone(w)
    BY <2>1 DEF Loop, Pop, PopNothing, WakeSpuriously, OtherDone, mainVars, ioVars
  <2>2. CASE MembersFilled(w) \/ (\E p \in Peers : ConnectQp(w, p)) \/ ConnectDone(w)
    BY <2>2 DEF MembersFilled, ConnectQp, ConnectDone, mainVars, ioVars
  <2>3. CASE ConfigFails(w) \/ Fork(w) \/ ForkFails(w) \/ Answer(w)
    BY <2>3 DEF ConfigFails, Fork, ForkFails, Answer, mainVars, ioVars
  <2>4. CASE Wedge(w)
    BY <2>4 DEF Wedge, mainVars, ioVars
  <2> QED BY <1>3, <2>1, <2>2, <2>3, <2>4 DEF Work
<1>4. PollThread \/ PollFatal => UNCHANGED mainVars
  BY DEF PollThread, PollCheck, PollCq, PollFatal, mainVars, ioVars
<1> QED BY <1>1, <1>2, <1>3, <1>4

\* A step is one of the main thread, the end of the process by an exception, or leaves
\* what the main thread keeps alone.
LEMMA MainOrNot ==
  ASSUME [Next]_vars
  PROVE  Main \/ Shutdown \/ (\E w \in Workers : Throw(w)) \/ UNCHANGED mainVars
<1>1. UNCHANGED vars => UNCHANGED mainVars
  BY DEF vars, mainVars, ioVars
<1> QED BY <1>1, OthersLeaveMain DEF Next

LEMMA KeepsEngine ==
  ASSUME IInv, [Next]_vars
  PROVE  EngineStage' /\ NeedsMet'
<1>1. TypeOK /\ EngineStage /\ NeedsMet /\ Known
  BY DEF IInv
<1>2. /\ Len(DestroyOrder) \in Nat /\ Len(CreateOrder) \in Nat
      /\ Len(DestroyOrder) >= 1 /\ Len(CreateOrder) >= 1
  BY QpObjectsType, DestroyAt, CreateAt
<1>3. /\ step \in 1 .. Len(DestroyOrder) + 1 /\ alive \subseteq Objects
      /\ use_gpu \in BOOLEAN /\ initialized \in BOOLEAN
  BY <1>1 DEF TypeOK
<1>4. CASE UNCHANGED <<use_gpu, main, failed, alive, initialized, step>>
  BY <1>1, <1>4 DEF EngineStage, NeedsMet
<1>5. CASE Create
  <2>1. /\ main = "init" /\ alive # Objects /\ alive' = alive \cup {NextObject}
        /\ UNCHANGED <<use_gpu, main, failed, initialized, step>>
    BY <1>5 DEF Create, config
  <2>2. PICK k \in 0 .. Len(CreateOrder) : alive = Created(k) /\ Cardinality(alive) = k
    BY <1>1, <2>1 DEF EngineStage
  <2>3. k \in 0 .. Len(CreateOrder) - 1 /\ k \in Nat /\ k + 1 \in 0 .. Len(CreateOrder)
    BY <1>2, <2>1, <2>2, CreatedNext
  <2>4. NextObject = CreateOrder[k + 1]
    BY <2>2 DEF NextObject
  <2>5. alive' = Created(k + 1)
    BY <2>1, <2>2, <2>3, <2>4, CreatedNext
  <2>6. NextObject \notin alive /\ Needs(NextObject) \subseteq alive
    BY <2>2, <2>3, <2>4, MadeAfterNeeded
  <2>7. IsFiniteSet(alive) /\ use_gpu /\ ~initialized /\ step = 1
    BY <1>1, <2>1 DEF EngineStage, Done, Over
  <2>8. IsFiniteSet(alive') /\ Cardinality(alive') = k + 1
    BY <2>1, <2>2, <2>6, <2>7, FS_AddElement
  <2>9. NeedsMet'
    BY <1>1, <2>1, <2>6 DEF NeedsMet
  <2>10. EngineStage'
    BY <2>1, <2>3, <2>5, <2>7, <2>8 DEF EngineStage, Early, Using, PollTime, Done, Over
  <2> QED BY <2>9, <2>10
<1>6. CASE CreateFails
  <2>1. /\ main = "init" /\ alive # Objects /\ alive' = alive \ UndoneBy(NextObject)
        /\ main' = "stop_io" /\ failed' = TRUE
        /\ UNCHANGED <<use_gpu, initialized, step>>
    BY <1>6 DEF CreateFails, config
  <2>2. PICK k \in 0 .. Len(CreateOrder) : alive = Created(k) /\ Cardinality(alive) = k
    BY <1>1, <2>1 DEF EngineStage
  <2>3. k \in 0 .. Len(CreateOrder) - 1
    BY <1>2, <2>1, <2>2, CreatedNext
  <2>4. \A o \in alive : Needs(o) \cap UndoneBy(NextObject) = {}
    BY <2>2, <2>3, MadeAfterNeeded DEF NextObject
  <2>5. NeedsMet'
    BY <1>1, <2>1, <2>4 DEF NeedsMet
  <2>6. use_gpu /\ ~initialized /\ step = 1
    BY <1>1, <2>1 DEF EngineStage, Done, Over
  <2>7. EngineStage'
    BY <2>1, <2>6 DEF EngineStage, Early, Using, PollTime, Done, Over
  <2> QED BY <2>5, <2>7
<1>7. CASE Initialized
  <2>1. /\ main = "init" /\ alive = Objects /\ initialized' = TRUE /\ main' = "connect"
        /\ UNCHANGED <<use_gpu, failed, alive, step>>
    BY <1>7 DEF Initialized, config
  <2>2. use_gpu /\ step = 1
    BY <1>1, <2>1 DEF EngineStage, Done, Over
  <2> QED BY <1>1, <2>1, <2>2 DEF EngineStage, NeedsMet, Early, Using, PollTime, Done, Over
<1>8. CASE Destroy
  <2>1. /\ main = "rdma" /\ initialized /\ step <= Len(DestroyOrder) /\ step' = step + 1
        /\ UNCHANGED <<use_gpu, main, failed, initialized>>
    BY <1>8 DEF Destroy, config
  <2>2. PICK s \in 1 .. Len(DestroyOrder) : s = step
    BY <1>2, <1>3, <2>1
  <2>3. alive = Remaining(s)
    BY <1>1, <2>1, <2>2 DEF EngineStage
  <2>4. \A q \in alive : DestroyOrder[s] \notin Needs(q)
    BY <2>3, GoneWhenFree
  <2>5. alive' = alive \ {DestroyOrder[s]}
    BY <1>8, <2>2, <2>4 DEF Destroy
  <2>6. alive' = Remaining(s + 1)
    BY <2>3, <2>5, RemainingNext
  <2>7. NeedsMet'
    BY <1>1, <2>4, <2>5 DEF NeedsMet
  <2>8. use_gpu
    BY <1>1, <2>1 DEF EngineStage
  <2>9. EngineStage'
    BY <2>1, <2>2, <2>6, <2>8 DEF EngineStage, Early, Using, PollTime, Done, Over
  <2> QED BY <2>7, <2>9
<1>9. CASE RdmaDown
  <2>1. /\ main = "rdma" /\ (initialized => step > Len(DestroyOrder)) /\ initialized' = FALSE
        /\ main' = "stop_io" /\ UNCHANGED <<use_gpu, failed, alive, step>>
    BY <1>9 DEF RdmaDown, config
  <2>2. alive = {}
    <3>1. CASE initialized
      <4>1. step = Len(DestroyOrder) + 1
        BY <1>2, <1>3, <2>1, <3>1
      <4> QED BY <1>1, <2>1, <3>1, <4>1, RemainingNext DEF EngineStage
    <3> QED BY <1>1, <2>1, <3>1 DEF EngineStage
  <2> QED BY <2>1, <2>2 DEF EngineStage, NeedsMet, Early, Using, PollTime, Done, Over
<1>10. CASE ConnectFails
  <2>1. /\ main = "connect" /\ main' = "rdma" /\ failed' = TRUE
        /\ UNCHANGED <<use_gpu, alive, initialized, step>>
    BY <1>10 DEF ConnectFails, config, rdmaVars
  <2>2. step = 1 /\ (use_gpu => initialized /\ alive = Remaining(1))
    BY <1>1, <2>1, RemainingNext DEF EngineStage, Using, Done, Over
  <2> QED BY <1>1, <1>3, <2>1, <2>2 DEF EngineStage, NeedsMet, Early, Using, PollTime, Done, Over
<1>11. CASE UNCHANGED <<use_gpu, alive, initialized, step>> /\ StopPoll
  <2>1. step = 1 /\ (use_gpu => initialized /\ alive = Remaining(1))
    BY <1>1, <1>11, RemainingNext DEF StopPoll, EngineStage, Using, PollTime, Done, Over
  <2> QED BY <1>1, <1>3, <1>11, <2>1
          DEF StopPoll, EngineStage, NeedsMet, Early, Using, PollTime, Done, Over
<1>12. CASE JoinPoll
  <2>1. /\ main = "join_poll" /\ main' = "rdma"
        /\ UNCHANGED <<use_gpu, failed, alive, initialized, step>>
    BY <1>12 DEF JoinPoll, config, rdmaVars
  <2>2. step = 1 /\ (use_gpu => initialized /\ alive = Remaining(1))
    BY <1>1, <2>1, RemainingNext DEF EngineStage, Using, PollTime, Done, Over
  <2> QED BY <1>1, <1>3, <2>1, <2>2 DEF EngineStage, NeedsMet, Early, Using, PollTime, Done, Over
<1>13. CASE Bind \/ BindFails \/ StartIo(TRUE) \/ StartIo(FALSE)
  BY <1>1, <1>13 DEF Bind, BindFails, StartIo, config, rdmaVars, EngineStage, NeedsMet, Early,
                     Using, PollTime, Done, Over
<1>14. CASE StartPool
  BY <1>1, <1>14 DEF StartPool, config, rdmaVars, EngineStage, NeedsMet, Known, Early,
                     Using, PollTime, Done, Over
<1>15. CASE Probe
  <2>1. /\ main = "probe" /\ main' = "init"
        /\ UNCHANGED <<use_gpu, failed, alive, initialized, step>>
    BY <1>15 DEF Probe, config, rdmaVars
  <2>2. 0 \in 0 .. Len(CreateOrder) /\ Created(0) = {}
    BY <1>2, CreatedNext
  <2>3. alive = {} /\ step = 1 /\ ~initialized
    BY <1>1, <2>1 DEF EngineStage, Early, Done, Over
  <2>4. IsFiniteSet(alive) /\ Cardinality(alive) = 0
    BY <2>3, FS_EmptySet
  <2> QED BY <1>1, <2>1, <2>2, <2>3, <2>4
          DEF EngineStage, NeedsMet, Early, Using, PollTime, Done, Over
<1>16. CASE ProbeFails
  BY <1>1, <1>16 DEF ProbeFails, config, rdmaVars, EngineStage, NeedsMet, Early, Using, PollTime,
                     Done, Over
<1>17. CASE \/ Connect \/ StartPoll \/ SetState \/ Shutdown \/ LookForServer \/ Kill
            \/ CallWaitpid \/ WaitpidReturns \/ MarkStopped
  BY <1>1, <1>17 DEF Connect, StartPoll, SetState, Shutdown, LookForServer, Kill, CallWaitpid,
                     WaitpidReturns, MarkStopped, config, rdmaVars, EngineStage, NeedsMet, Early, Using, PollTime, Done, Over
<1>18. CASE StopIo \/ JoinIo \/ StopPool \/ WakeAll \/ NotifyAll \/ JoinPool
  BY <1>1, <1>18 DEF StopIo, JoinIo, StopPool, WakeAll, NotifyAll, JoinPool, config,
                     rdmaVars, EngineStage, NeedsMet, Early, Using, PollTime, Done, Over
<1>19. UNCHANGED mainVars => UNCHANGED <<use_gpu, main, failed, alive, initialized, step>>
  BY DEF mainVars, config, rdmaVars
<1>20. StopPoll => UNCHANGED <<use_gpu, alive, initialized, step>>
  BY DEF StopPoll, config, rdmaVars
<1>21. Main \/ Shutdown \/ (\E w \in Workers : Throw(w)) \/ UNCHANGED mainVars
  BY MainOrNot
<1>22. CASE \E w \in Workers : Throw(w)
  <2>1. main' = "crashed" /\ UNCHANGED <<use_gpu, failed, alive, initialized, step>>
    BY <1>22 DEF Throw, config, rdmaVars
  <2> QED BY <1>1, <2>1 DEF EngineStage, NeedsMet, Early, Using, PollTime, Done, Over
<1> QED BY <1>4, <1>5, <1>6, <1>7, <1>8, <1>9, <1>10, <1>11, <1>12, <1>13, <1>14, <1>15,
           <1>16, <1>17, <1>18, <1>19, <1>20, <1>21, <1>22 DEF Main

-----------------------------------------------------------------------------
(* Who knows of the process *)

LEMMA KeepsKnown ==
  ASSUME IInv, [Next]_vars
  PROVE  Known'
<1>1. TypeOK /\ EngineStage /\ Known
  BY DEF IInv
<1> USE DEF Known, Done, Over, PollTime
<1>2. CASE UNCHANGED <<config, main, failed, registered, pushed>>
  BY <1>1, <1>2 DEF config
<1>3. CASE Bind \/ BindFails \/ StartIo(TRUE) \/ StartIo(FALSE) \/ StartPool
  <2>1. CASE Bind \/ BindFails
    BY <1>1, <2>1 DEF Bind, BindFails, config, ioVars
  <2>2. CASE StartIo(TRUE) \/ StartIo(FALSE)
    <3>1. /\ main = "bound" /\ main' = "io" /\ UNCHANGED <<role, use_gpu, failed, pushed>>
          /\ registered' = (role = "orchestrator")
      BY <2>2 DEF StartIo, config
    <3>2. ~(pushed > 0) /\ ~failed
      BY <1>1, <3>1
    <3>3. registered' => role = "orchestrator"
      BY <3>1
    <3> QED BY <1>1, <3>1, <3>2, <3>3
  <2>3. CASE StartPool
    BY <1>1, <2>3 DEF StartPool, config, ioVars
  <2> QED BY <1>3, <2>1, <2>2, <2>3
<1>4. CASE Probe \/ ProbeFails \/ Create \/ CreateFails \/ Initialized
  BY <1>1, <1>4 DEF Probe, ProbeFails, Create, CreateFails, Initialized, config, ioVars
<1>5. CASE Connect \/ ConnectFails \/ StartPoll \/ SetState
  BY <1>1, <1>5 DEF Connect, ConnectFails, StartPoll, SetState, config, ioVars
<1>6. CASE \/ Shutdown \/ LookForServer \/ Kill \/ CallWaitpid \/ WaitpidReturns \/ MarkStopped
           \/ StopPoll \/ JoinPoll
  BY <1>1, <1>6 DEF Shutdown, LookForServer, Kill, CallWaitpid, WaitpidReturns, MarkStopped,
                    StopPoll, JoinPoll, config, ioVars
<1>7. CASE Destroy \/ RdmaDown \/ StopIo \/ JoinIo
  BY <1>1, <1>7 DEF Destroy, RdmaDown, StopIo, JoinIo, config, ioVars
<1>8. CASE StopPool \/ WakeAll \/ NotifyAll \/ JoinPool
  BY <1>1, <1>8 DEF StopPool, WakeAll, NotifyAll, JoinPool, config, ioVars
<1>9. CASE \E k \in Kinds : IoPush(k)
  BY <1>1, <1>9 DEF IoPush, config
<1>10. ASSUME EpollThread \/ PollThread \/ PollFatal
       PROVE  UNCHANGED <<config, main, failed, registered, pushed>>
  BY <1>10 DEF EpollThread, IoNotify, IoExit, PollThread, PollCheck, PollCq, PollFatal, ioVars
<1>11. ASSUME NEW w \in Workers, Work(w) \/ WakeSpuriously(w) \/ Wedge(w)
       PROVE  UNCHANGED <<config, main, failed, registered, pushed>>
  <2>1. CASE Loop(w) \/ Pop(w) \/ PopNothing(w) \/ WakeSpuriously(w) \/ OtherDone(w)
    BY <2>1 DEF Loop, Pop, PopNothing, WakeSpuriously, OtherDone, ioVars
  <2>2. CASE MembersFilled(w) \/ (\E p \in Peers : ConnectQp(w, p)) \/ ConnectDone(w)
    BY <2>2 DEF MembersFilled, ConnectQp, ConnectDone, ioVars
  <2>3. CASE ConfigFails(w) \/ Fork(w) \/ ForkFails(w) \/ Answer(w) \/ Wedge(w)
    BY <2>3 DEF ConfigFails, Fork, ForkFails, Answer, Wedge, ioVars
  <2> QED BY <1>11, <2>1, <2>2, <2>3 DEF Work
<1>12. UNCHANGED vars => UNCHANGED <<config, main, failed, registered, pushed>>
  BY DEF vars, ioVars
<1>13. CASE \E w \in Workers : Throw(w)
  BY <1>1, <1>13 DEF Throw, config
<1> QED BY <1>2, <1>3, <1>4, <1>5, <1>6, <1>7, <1>8, <1>9, <1>10, <1>11, <1>12, <1>13
        DEF Next, Main

-----------------------------------------------------------------------------
(* The poll thread and the queue pairs *)

LEMMA KeepsPoll ==
  ASSUME IInv, [Next]_vars
  PROVE  PollInTime'
<1>1. TypeOK /\ PollInTime
  BY DEF IInv
<1> USE DEF PollInTime, PollTime
<1>2. CASE UNCHANGED <<role, main, poll, poll_running>>
  BY <1>1, <1>2
<1>3. CASE Bind \/ BindFails \/ StartIo(TRUE) \/ StartIo(FALSE) \/ StartPool
  BY <1>1, <1>3 DEF Bind, BindFails, StartIo, StartPool, config, pollVars
<1>4. CASE Probe \/ ProbeFails \/ Create \/ CreateFails \/ Initialized
  BY <1>1, <1>4 DEF Probe, ProbeFails, Create, CreateFails, Initialized, config, pollVars
<1>5. CASE Connect \/ ConnectFails \/ StartPoll \/ SetState
  BY <1>1, <1>5 DEF Connect, ConnectFails, StartPoll, SetState, config, pollVars
<1>6. CASE \/ Shutdown \/ LookForServer \/ Kill \/ CallWaitpid \/ WaitpidReturns \/ MarkStopped
           \/ StopPoll \/ JoinPoll
  BY <1>1, <1>6 DEF Shutdown, LookForServer, Kill, CallWaitpid, WaitpidReturns, MarkStopped,
                    StopPoll, JoinPoll, config, pollVars
<1>7. CASE Destroy \/ RdmaDown \/ StopIo \/ JoinIo
  BY <1>1, <1>7 DEF Destroy, RdmaDown, StopIo, JoinIo, config, pollVars
<1>8. CASE StopPool \/ WakeAll \/ NotifyAll \/ JoinPool
  BY <1>1, <1>8 DEF StopPool, WakeAll, NotifyAll, JoinPool, config, pollVars
<1>9. CASE PollThread \/ PollFatal
  BY <1>1, <1>9 DEF PollThread, PollCheck, PollCq, PollFatal, config, TypeOK
<1>10. ASSUME EpollThread \/ \E k \in Kinds : IoPush(k)
       PROVE  UNCHANGED <<role, main, poll, poll_running>>
  BY <1>10 DEF EpollThread, IoNotify, IoExit, IoPush, config, pollVars
<1>11. ASSUME NEW w \in Workers, Work(w) \/ WakeSpuriously(w) \/ Wedge(w)
       PROVE  UNCHANGED <<role, main, poll, poll_running>>
  <2>1. CASE Loop(w) \/ Pop(w) \/ PopNothing(w) \/ WakeSpuriously(w) \/ OtherDone(w)
    BY <2>1 DEF Loop, Pop, PopNothing, WakeSpuriously, OtherDone, config, pollVars
  <2>2. CASE MembersFilled(w) \/ (\E p \in Peers : ConnectQp(w, p)) \/ ConnectDone(w)
    BY <2>2 DEF MembersFilled, ConnectQp, ConnectDone, config, pollVars
  <2>3. CASE ConfigFails(w) \/ Fork(w) \/ ForkFails(w) \/ Answer(w) \/ Wedge(w)
    BY <2>3 DEF ConfigFails, Fork, ForkFails, Answer, Wedge, config, pollVars
  <2> QED BY <1>11, <2>1, <2>2, <2>3 DEF Work
<1>12. UNCHANGED vars => UNCHANGED <<role, main, poll, poll_running>>
  BY DEF vars, config, pollVars
<1>13. CASE \E w \in Workers : Throw(w)
  BY <1>13 DEF Throw
<1> QED BY <1>2, <1>3, <1>4, <1>5, <1>6, <1>7, <1>8, <1>9, <1>10, <1>11, <1>12, <1>13
        DEF Next, Main

\* Once the engine is being taken down, the main thread does not go back.
LEMMA NoWayBack ==
  ASSUME [Next]_vars, main \in Over
  PROVE  main' \in Over
<1> USE DEF Done, Over
<1>1. CASE UNCHANGED mainVars
  BY <1>1 DEF mainVars
<1>2. CASE Bind \/ BindFails \/ StartIo(TRUE) \/ StartIo(FALSE) \/ StartPool \/ Probe
           \/ ProbeFails \/ Create \/ CreateFails \/ Initialized \/ Connect
  BY <1>2 DEF Bind, BindFails, StartIo, StartPool, Probe, ProbeFails, Create, CreateFails,
              Initialized, Connect
<1>3. CASE ConnectFails \/ StartPoll \/ SetState \/ Shutdown \/ LookForServer \/ Kill
           \/ CallWaitpid \/ WaitpidReturns \/ MarkStopped \/ StopPoll \/ JoinPoll
  BY <1>3 DEF ConnectFails, StartPoll, SetState, Shutdown, LookForServer, Kill, CallWaitpid,
              WaitpidReturns, MarkStopped, StopPoll, JoinPoll
<1>4. CASE Destroy \/ RdmaDown \/ StopIo \/ JoinIo \/ StopPool \/ WakeAll \/ NotifyAll
           \/ JoinPool
  BY <1>4 DEF Destroy, RdmaDown, StopIo, JoinIo, StopPool, WakeAll, NotifyAll, JoinPool
<1>5. CASE \E w \in Workers : Throw(w)
  BY <1>5 DEF Throw
<1> QED BY <1>1, <1>2, <1>3, <1>4, <1>5, MainOrNot DEF Main

LEMMA StrayOnlyFromConnect ==
  ASSUME [Next]_vars
  PROVE  \/ UNCHANGED stray
         \/ \E w \in Workers, p \in Peers : ConnectQp(w, p)
<1>1. CASE Bind \/ BindFails \/ StartIo(TRUE) \/ StartIo(FALSE) \/ StartPool \/ Probe
           \/ ProbeFails \/ Create \/ CreateFails \/ Initialized \/ Connect
  BY <1>1 DEF Bind, BindFails, StartIo, StartPool, Probe, ProbeFails, Create, CreateFails,
              Initialized, Connect
<1>2. CASE ConnectFails \/ StartPoll \/ SetState \/ Shutdown \/ LookForServer \/ Kill
           \/ CallWaitpid \/ WaitpidReturns \/ MarkStopped \/ StopPoll \/ JoinPoll
  BY <1>2 DEF ConnectFails, StartPoll, SetState, Shutdown, LookForServer, Kill, CallWaitpid,
              WaitpidReturns, MarkStopped, StopPoll, JoinPoll
<1>3. CASE Destroy \/ RdmaDown \/ StopIo \/ JoinIo \/ StopPool \/ WakeAll \/ NotifyAll
           \/ JoinPool
  BY <1>3 DEF Destroy, RdmaDown, StopIo, JoinIo, StopPool, WakeAll, NotifyAll, JoinPool
<1>4. CASE EpollThread \/ PollThread \/ PollFatal \/ \E k \in Kinds : IoPush(k)
  BY <1>4 DEF EpollThread, IoNotify, IoExit, PollThread, PollCheck, PollCq, PollFatal, IoPush
<1>5. ASSUME NEW w \in Workers, Work(w) \/ WakeSpuriously(w) \/ Throw(w) \/ Wedge(w)
      PROVE  UNCHANGED stray \/ \E p \in Peers : ConnectQp(w, p)
  BY <1>5 DEF Work, Loop, Pop, PopNothing, WakeSpuriously, OtherDone, MembersFilled,
              ConnectDone, ConfigFails, Fork, ForkFails, Answer, Throw, Wedge
<1>6. UNCHANGED vars => UNCHANGED stray
  BY DEF vars
<1> QED BY <1>1, <1>2, <1>3, <1>4, <1>5, <1>6 DEF Next, Main

LEMMA BusyWorker ==
  ASSUME TypeOK, NEW w \in Busy
  PROVE  IsFiniteSet(Busy) /\ Cardinality(Busy) \in Nat /\ Cardinality(Busy) > 0
<1>1. Busy \subseteq Workers /\ Busy # {}
  BY DEF Busy
<1> QED BY <1>1, PartOfWorkers

LEMMA KeepsStray ==
  ASSUME IInv, [Next]_vars
  PROVE  StrayLate'
<1>1. TypeOK /\ EngineStage /\ Known /\ ServersCounted /\ StrayLate
  BY DEF IInv
<1>2. ASSUME NEW w \in Workers, NEW p \in Peers, ConnectQp(w, p), stray', ~stray
      PROVE  main' \in Over
  <2>1. worker[w] = "connect" /\ Qp(p) \notin alive /\ main' = main
    BY <1>2 DEF ConnectQp
  <2>2. w \in Busy
    BY <2>1 DEF Busy, StartingServer
  <2>3. Cardinality(Busy) \in Nat /\ Cardinality(Busy) > 0
    BY <1>1, <2>2, BusyWorker
  <2>4. pushed > 0
    <3>1. forks \in Nat /\ Len(events) \in Nat /\ pushed \in Nat
      BY <1>1, LifecycleAssumption DEF TypeOK
    <3> QED BY <1>1, <2>3, <3>1 DEF ServersCounted
  <2>5. use_gpu
    BY <1>1, <2>1 DEF ServersCounted
  <2>6. main \in PollTime \cup {"start_poll"} \cup Over
    BY <1>1, <2>4, <2>5 DEF Known
  <2>7. main \notin Using
    <3>1. Qp(p) \in Objects
      <4>1. PICK i \in 1 .. Len(PeerOrder) : Qp(p) = QpObjects[i]
        BY QpObjectsType DEF Qps
      <4>2. /\ CreateOrder[i + 7] = Qp(p) /\ i + 7 \in 1 .. Len(CreateOrder)
        BY <4>1, CreateAt, QpObjectsType
      <4>3. CreateOrder[i + 7] \in Objects
        BY <4>2, CreateAt
      <4> QED BY <4>2, <4>3
    <3> QED BY <1>1, <2>1, <2>5, <3>1 DEF EngineStage
  <2> QED BY <2>1, <2>6, <2>7 DEF Using
<1>3. stray => main' \in Over
  BY <1>1, NoWayBack DEF StrayLate
<1> QED BY <1>2, <1>3, StrayOnlyFromConnect DEF StrayLate

-----------------------------------------------------------------------------
(* vLLM servers *)

\* What a worker's move does to the number of workers on their way to start vLLM.
LEMMA BusyMoves ==
  ASSUME TypeOK, NEW w \in Workers, NEW x, worker' = [worker EXCEPT ![w] = x]
  PROVE  /\ Cardinality(Busy) \in Nat /\ Cardinality(Busy') \in Nat
         /\ Cardinality(Busy') <= Cardinality(Busy) + 1
         /\ x \notin StartingServer => Cardinality(Busy') <= Cardinality(Busy)
         /\ worker[w] \in StartingServer => Cardinality(Busy') <= Cardinality(Busy)
         /\ worker[w] \in StartingServer /\ x \notin StartingServer =>
              Cardinality(Busy') = Cardinality(Busy) - 1
<1>1. PICK B : B = Busy
  OBVIOUS
<1>2. B \subseteq Workers /\ (w \in B <=> worker[w] \in StartingServer)
  BY <1>1 DEF Busy
<1>3. /\ x \in StartingServer => Busy' = B \cup {w}
      /\ x \notin StartingServer => Busy' = B \ {w}
  BY <1>1 DEF Busy, TypeOK
<1>4. /\ IsFiniteSet(B) /\ Cardinality(B) \in Nat
      /\ w \in B => Cardinality(B) > 0
  BY <1>2, PartOfWorkers
<1>5. Cardinality(B \cup {w}) = IF w \in B THEN Cardinality(B) ELSE Cardinality(B) + 1
  BY <1>4, FS_AddElement
<1>6. Cardinality(B \ {w}) = IF w \in B THEN Cardinality(B) - 1 ELSE Cardinality(B)
  BY <1>4, FS_RemoveElement
<1>7. PICK b \in Nat : b = Cardinality(B) /\ b = Cardinality(Busy)
  BY <1>1, <1>4
<1>8. CASE x \in StartingServer
  <2>1. Cardinality(Busy') = IF w \in B THEN b ELSE b + 1
    BY <1>3, <1>5, <1>7, <1>8
  <2> QED BY <1>2, <1>7, <1>8, <2>1
<1>9. CASE x \notin StartingServer
  <2>1. Cardinality(Busy') = IF w \in B THEN b - 1 ELSE b
    BY <1>3, <1>6, <1>7, <1>9
  <2>2. w \in B => b > 0
    BY <1>4, <1>7
  <2> QED BY <1>2, <1>7, <1>9, <2>1, <2>2
<1> QED BY <1>8, <1>9

LEMMA BusyStays ==
  ASSUME worker' = worker
  PROVE  Busy' = Busy
BY DEF Busy

LEMMA BusyCount ==
  /\ IsFiniteSet(Busy) /\ Cardinality(Busy) \in Nat
  /\ \A w \in Workers : worker[w] \in StartingServer => Cardinality(Busy) > 0
<1>1. Busy \subseteq Workers
  BY DEF Busy
<1>2. IsFiniteSet(Busy) /\ Cardinality(Busy) \in Nat /\ (Busy # {} => Cardinality(Busy) > 0)
  BY <1>1, PartOfWorkers
<1>3. \A w \in Workers : worker[w] \in StartingServer => Busy # {}
  BY DEF Busy
<1> QED BY <1>2, <1>3

\* Only one of the first steps of start, a failed one, passes the kill, and Kill does, or
\* the main thread that finds no server to kill.
LEMMA PassingTheKill ==
  ASSUME IInv, Main \/ Shutdown
  PROVE  \/ Killed' <=> Killed
         \/ Kill \/ LookForServer
         \/ ~Killed /\ Killed' /\ pushed = 0
<1>1. TypeOK /\ EngineStage /\ Known /\ pushed \in Nat
  BY LifecycleAssumption DEF IInv, TypeOK
<1> USE DEF Killed, BeforeShutdown
<1>2. CASE Bind \/ StartIo(TRUE) \/ StartIo(FALSE) \/ StartPool \/ Probe
           \/ Create \/ Initialized \/ Connect \/ StartPoll \/ SetState \/ Shutdown
  BY <1>2 DEF Bind, StartIo, StartPool, Probe, Create, Initialized, Connect, StartPoll, SetState,
              Shutdown
<1>3. CASE BindFails \/ ProbeFails \/ CreateFails \/ ConnectFails
  <2>1. main \in {"new", "probe", "init", "connect"}
    BY <1>3 DEF BindFails, ProbeFails, CreateFails, ConnectFails
  <2>2. ~registered
    BY <1>1, <2>1 DEF Known, PollTime, Done, Over
  <2>3. pushed = 0
    BY <1>1, <2>2 DEF Known
  <2> QED BY <1>3, <2>1, <2>3 DEF BindFails, ProbeFails, CreateFails, ConnectFails
<1>4. CASE \/ CallWaitpid \/ WaitpidReturns \/ MarkStopped \/ StopPoll \/ JoinPoll
           \/ Destroy \/ RdmaDown \/ StopIo
  BY <1>4 DEF CallWaitpid, WaitpidReturns, MarkStopped, StopPoll, JoinPoll, Destroy, RdmaDown, StopIo
<1>5. CASE JoinIo \/ StopPool \/ WakeAll \/ NotifyAll \/ JoinPool
  BY <1>5 DEF JoinIo, StopPool, WakeAll, NotifyAll, JoinPool
<1> QED BY <1>2, <1>3, <1>4, <1>5 DEF Main

\* The main thread starts no vLLM server, takes no event and sends no worker to start one.
LEMMA MainStartsNone ==
  ASSUME TypeOK, Main \/ Shutdown
  PROVE  /\ UNCHANGED <<use_gpu, pushed, events, vllm_pid, forks, late>>
         /\ (~Kill => UNCHANGED vllms)
         /\ Busy' \subseteq Busy
         /\ \A w \in Workers : worker'[w] \in StartingServer => worker'[w] = worker[w]
<1>1. CASE StartPool
  BY <1>1 DEF StartPool, config, ioVars, vllmVars, Busy, StartingServer
<1>2. CASE NotifyAll
  BY <1>2 DEF NotifyAll, config, ioVars, vllmVars, Busy, TypeOK, StartingServer
<1>3. CASE Kill
  BY <1>3 DEF Kill, config, ioVars, Busy
<1>4. CASE Bind \/ BindFails \/ StartIo(TRUE) \/ StartIo(FALSE) \/ Probe \/ ProbeFails
  BY <1>4 DEF Bind, BindFails, StartIo, Probe, ProbeFails, config, ioVars, vllmVars, Busy
<1>5. CASE Create \/ CreateFails \/ Initialized \/ Connect \/ ConnectFails \/ StartPoll
  BY <1>5 DEF Create, CreateFails, Initialized, Connect, ConnectFails, StartPoll, config,
              ioVars, vllmVars, Busy
<1>6. CASE SetState \/ Shutdown \/ MarkStopped \/ StopPoll \/ JoinPoll \/ Destroy \/ RdmaDown
  BY <1>6 DEF SetState, Shutdown, MarkStopped, StopPoll, JoinPoll, Destroy, RdmaDown, config,
              ioVars, vllmVars, Busy
<1>8. CASE LookForServer \/ CallWaitpid \/ WaitpidReturns
  BY <1>8 DEF LookForServer, CallWaitpid, WaitpidReturns, config, ioVars, vllmVars, Busy
<1>7. CASE StopIo \/ JoinIo \/ StopPool \/ WakeAll \/ JoinPool
  BY <1>7 DEF StopIo, JoinIo, StopPool, WakeAll, JoinPool, config, ioVars, vllmVars, Busy
<1> QED BY <1>1, <1>2, <1>3, <1>4, <1>5, <1>6, <1>7, <1>8 DEF Main

LEMMA MainKeepsServers ==
  ASSUME IInv, Main \/ Shutdown
  PROVE  ServersCounted'
<1>1. TypeOK /\ ServersCounted
  BY DEF IInv
<1>2. /\ pushed \in Nat /\ forks \in Nat /\ Len(events) \in Nat
      /\ vllms \subseteq 1 .. forks /\ vllm_pid \in 1 .. forks \cup {NoPid}
  BY <1>1, LifecycleAssumption DEF TypeOK
<1>3. /\ UNCHANGED <<use_gpu, pushed, events, vllm_pid, forks, late>>
      /\ (~Kill => UNCHANGED vllms) /\ Busy' \subseteq Busy
      /\ \A w \in Workers : worker'[w] \in StartingServer => worker'[w] = worker[w]
  BY <1>1, MainStartsNone
<1>4. PICK b, c \in Nat : b = Cardinality(Busy) /\ c = Cardinality(Busy') /\ c <= b
  <2>1. IsFiniteSet(Busy) /\ Cardinality(Busy) \in Nat
    BY BusyCount
  <2>2. IsFiniteSet(Busy') /\ Cardinality(Busy') <= Cardinality(Busy)
    BY <1>3, <2>1, FS_Subset
  <2>3. Cardinality(Busy') \in Nat
    BY <2>2, FS_CardinalityType
  <2> QED BY <2>1, <2>2, <2>3
<1>5. forks' + Cardinality(Busy') + Len(events') <= pushed'
  BY <1>1, <1>2, <1>3, <1>4 DEF ServersCounted
<1>6. \A w \in Workers : worker'[w] \in {"members", "connect"} => use_gpu'
  BY <1>1, <1>3 DEF ServersCounted, StartingServer
<1>7. CASE Kill
  <2>1. /\ ~Killed /\ Killed' /\ main' = "reap"
        /\ vllms' = IF vllm_pid = NoPid THEN {} ELSE vllms \ {vllm_pid}
    BY <1>7 DEF Kill, Killed, BeforeShutdown
  <2>2. vllms' # {} => forks > 1 \/ late
    <3> SUFFICES ASSUME vllms' # {}, ~late, forks <= 1 PROVE FALSE
      BY <1>2
    <3>1. PICK x \in vllms : vllm_pid # NoPid /\ x # vllm_pid
      BY <2>1
    <3> QED BY <1>2, <3>1
  <2> QED BY <1>3, <1>5, <1>6, <2>1, <2>2 DEF ServersCounted
<1>8. CASE LookForServer
  <2>1. /\ ~Killed /\ main' = IF vllm_pid > 0 THEN "signal" ELSE "mark"
        /\ Killed' <=> main' = "mark"
    BY <1>8 DEF LookForServer, Killed, BeforeShutdown
  <2>2. CASE vllm_pid > 0
    BY <1>1, <1>3, <1>5, <1>6, <2>1, <2>2, <1>8 DEF ServersCounted, LookForServer, vllmVars
  <2>3. CASE ~(vllm_pid > 0)
    <3>1. vllm_pid = NoPid
      BY <1>2, <2>3
    <3>2. late \/ vllms = {}
      BY <1>1, <1>2, <2>1, <3>1 DEF ServersCounted
    <3>3. vllms' = vllms /\ late' = late /\ Killed'
      BY <1>3, <1>8, <2>1, <2>3 DEF LookForServer, vllmVars
    <3> QED BY <1>5, <1>6, <3>2, <3>3 DEF ServersCounted
  <2> QED BY <2>2, <2>3
<1>9. main # "crashed"
  BY DEF Main, Shutdown, Bind, BindFails, StartIo, StartPool, Probe, ProbeFails, Create,
         CreateFails, Initialized, Connect, ConnectFails, StartPoll, SetState, LookForServer,
         Kill, CallWaitpid, WaitpidReturns, MarkStopped, StopPoll, JoinPoll, Destroy, RdmaDown,
         StopIo, JoinIo, StopPool, WakeAll, NotifyAll, JoinPool
<1>10. CASE ~Kill /\ (Killed' <=> Killed)
  BY <1>1, <1>3, <1>5, <1>6, <1>9, <1>10 DEF ServersCounted
<1>11. CASE ~Kill /\ ~Killed /\ Killed' /\ pushed = 0
  <2>1. forks = 0
    BY <1>1, <1>2, <1>4, <1>11 DEF ServersCounted
  <2>2. vllms \subseteq 1 .. 0 /\ vllms' = vllms
    BY <1>2, <1>3, <1>11, <2>1
  <2>3. vllms' = {}
    <3>1. \A x \in 1 .. 0 : FALSE
      OBVIOUS
    <3> QED BY <2>2, <3>1
  <2> QED BY <1>5, <1>6, <1>11, <2>3 DEF ServersCounted
<1> QED BY <1>7, <1>8, <1>10, <1>11, PassingTheKill

\* A worker that starts no server.
LEMMA IdleWorkKeepsServers ==
  ASSUME IInv, NEW w \in Workers, NEW x,
         x \notin {"members", "connect"} \/ worker[w] = "members" \/ use_gpu,
         worker' = [worker EXCEPT ![w] = x],
         UNCHANGED <<use_gpu, main, pushed, vllmVars>>,
         \/ x \notin StartingServer /\ events' = events
         \/ worker[w] \in StartingServer /\ events' = events
         \/ events # <<>> /\ events' = Tail(events)
  PROVE  ServersCounted'
<1>1. TypeOK /\ ServersCounted
  BY DEF IInv
<1>2. /\ pushed \in Nat /\ forks \in Nat /\ events \in Seq(Kinds) /\ Len(events) \in Nat
      /\ worker \in [Workers -> WorkerStages]
  BY <1>1, LifecycleAssumption DEF TypeOK
<1>3. UNCHANGED <<vllm_pid, vllms, forks, late>> /\ (Killed' <=> Killed)
  BY DEF vllmVars, Killed
<1>4. PICK b, c \in Nat :
        /\ b = Cardinality(Busy) /\ c = Cardinality(Busy') /\ c <= b + 1
        /\ x \notin StartingServer \/ worker[w] \in StartingServer => c <= b
  BY <1>1, BusyMoves
<1>5. forks' + Cardinality(Busy') + Len(events') <= pushed'
  <2>1. forks + b + Len(events) <= pushed
    BY <1>1, <1>4 DEF ServersCounted
  <2>2. CASE events' = events /\ c <= b
    BY <1>2, <1>3, <1>4, <2>1, <2>2
  <2>3. CASE events # <<>> /\ events' = Tail(events)
    <3>1. Len(events') = Len(events) - 1 /\ Len(events) > 0
      BY <1>2, <2>3
    <3> QED BY <1>2, <1>3, <1>4, <2>1, <3>1, SMTT(30)
  <2> QED BY <1>4, <2>2, <2>3
<1>6. \A v \in Workers : worker'[v] \in {"members", "connect"} => use_gpu'
  BY <1>1, <1>2 DEF ServersCounted
<1> QED BY <1>1, <1>3, <1>5, <1>6 DEF ServersCounted

LEMMA WorkKeepsServers ==
  ASSUME IInv, NEW w \in Workers, Work(w) \/ WakeSpuriously(w) \/ Wedge(w)
  PROVE  ServersCounted'
<1>1. TypeOK /\ ServersCounted
  BY DEF IInv
<1>2. /\ pushed \in Nat /\ forks \in Nat /\ events \in Seq(Kinds)
      /\ Len(events) \in Nat /\ vllms \subseteq 1 .. forks
      /\ vllm_pid \in 1 .. forks \cup {NoPid}
      /\ worker \in [Workers -> WorkerStages]
  BY <1>1, LifecycleAssumption DEF TypeOK
<1>3. CASE Loop(w)
  <2>1. PICK x \in {"pop", "exited"} : worker' = [worker EXCEPT ![w] = x]
    BY <1>3 DEF Loop
  <2>2. UNCHANGED <<use_gpu, main, pushed, vllmVars, events>>
    BY <1>3 DEF Loop, config, ioVars
  <2> QED BY <2>1, <2>2, IdleWorkKeepsServers DEF StartingServer
<1>4. CASE Pop(w)
  <2>1. PICK x : x = StartOf(Head(events))
    OBVIOUS
  <2>2. /\ worker' = [worker EXCEPT ![w] = x] /\ events # <<>> /\ events' = Tail(events)
        /\ UNCHANGED <<use_gpu, main, pushed, vllmVars>>
    BY <1>4, <2>1 DEF Pop, config, ioVars
  <2>3. x \in {"members", "connect"} => use_gpu
    <3>1. Head(events) \in Kinds
      BY <1>2, <2>2
    <3> QED BY <2>1, <3>1 DEF StartOf, Kinds
  <2> QED BY <2>2, <2>3, IdleWorkKeepsServers
<1>5. CASE PopNothing(w)
  <2>1. PICK x \in {"loop", "asleep"} : worker' = [worker EXCEPT ![w] = x]
    BY <1>5 DEF PopNothing
  <2>2. UNCHANGED <<use_gpu, main, pushed, vllmVars, events>>
    BY <1>5 DEF PopNothing, config, ioVars
  <2> QED BY <2>1, <2>2, IdleWorkKeepsServers DEF StartingServer
<1>6. CASE WakeSpuriously(w)
  <2>1. worker' = [worker EXCEPT ![w] = "pop"]
    BY <1>6 DEF WakeSpuriously
  <2>2. UNCHANGED <<use_gpu, main, pushed, vllmVars, events>>
    BY <1>6 DEF WakeSpuriously, config, ioVars
  <2> QED BY <2>1, <2>2, IdleWorkKeepsServers DEF StartingServer
<1>7. CASE \E p \in Peers : ConnectQp(w, p)
  <2>1. UNCHANGED <<use_gpu, main, pushed, worker, events, vllm_pid, vllms, forks, late>>
    BY <1>7 DEF ConnectQp, config, ioVars, vllmVars
  <2>2. Busy' = Busy /\ (Killed' <=> Killed)
    BY <2>1, BusyStays DEF Killed
  <2> QED BY <1>1, <2>1, <2>2 DEF ServersCounted
<1>8. CASE ConnectDone(w)
  <2>1. worker[w] = "connect" /\ worker' = [worker EXCEPT ![w] = "fork"]
    BY <1>8 DEF ConnectDone
  <2>2. UNCHANGED <<use_gpu, main, pushed, vllmVars, events>>
    BY <1>8 DEF ConnectDone, config, ioVars
  <2> QED BY <2>1, <2>2, IdleWorkKeepsServers DEF StartingServer
<1>9. CASE ConfigFails(w)
  <2>1. worker' = [worker EXCEPT ![w] = "answer"]
    BY <1>9 DEF ConfigFails
  <2>2. UNCHANGED <<use_gpu, main, pushed, vllmVars, events>>
    BY <1>9 DEF ConfigFails, config, ioVars
  <2> QED BY <2>1, <2>2, IdleWorkKeepsServers DEF StartingServer
<1>10. CASE Answer(w)
  <2>1. worker' = [worker EXCEPT ![w] = "loop"]
    BY <1>10 DEF Answer
  <2>2. UNCHANGED <<use_gpu, main, pushed, vllmVars, events>>
    BY <1>10 DEF Answer, config, ioVars
  <2> QED BY <2>1, <2>2, IdleWorkKeepsServers DEF StartingServer
<1>11. ASSUME Fork(w) \/ ForkFails(w)
       PROVE  /\ worker[w] = "fork" /\ worker' = [worker EXCEPT ![w] = "answer"]
              /\ UNCHANGED <<use_gpu, main, pushed, events>> /\ (Killed' <=> Killed)
              /\ \E b \in Nat : b = Cardinality(Busy) /\ Cardinality(Busy') = b - 1 /\ b > 0
              /\ \A v \in Workers : worker'[v] \in {"members", "connect"} => use_gpu'
  <2>1. /\ worker[w] = "fork" /\ worker' = [worker EXCEPT ![w] = "answer"]
        /\ UNCHANGED <<use_gpu, main, pushed, events>>
    BY <1>11 DEF Fork, ForkFails, config, ioVars
  <2>2. Killed' <=> Killed
    BY <2>1 DEF Killed
  <2>3. Cardinality(Busy) \in Nat /\ Cardinality(Busy') = Cardinality(Busy) - 1
    <3>1. worker[w] \in StartingServer /\ "answer" \notin StartingServer
      BY <2>1 DEF StartingServer
    <3> QED BY <1>1, <2>1, <3>1, BusyMoves, Zenon
  <2>4. Cardinality(Busy) > 0
    BY <2>1, BusyCount DEF StartingServer
  <2>5. \A v \in Workers : worker'[v] \in {"members", "connect"} => use_gpu'
    BY <1>1, <1>2, <2>1 DEF ServersCounted
  <2> QED BY <2>1, <2>2, <2>3, <2>4, <2>5
<1>12. CASE Fork(w)
  <2>1. forks' = forks + 1 /\ vllm_pid' = forks + 1 /\ late' = (late \/ Killed)
    BY <1>12 DEF Fork
  <2>2. PICK b \in Nat : b = Cardinality(Busy) /\ Cardinality(Busy') = b - 1 /\ b > 0
    BY <1>11, <1>12
  <2>3. forks' + Cardinality(Busy') + Len(events') <= pushed'
    BY <1>1, <1>2, <1>11, <1>12, <2>1, <2>2 DEF ServersCounted
  <2>4. vllm_pid' # NoPid
    BY <1>2, <2>1 DEF NoPid
  <2>5. Killed' => late'
    BY <1>11, <1>12, <2>1
  <2> QED BY <1>11, <1>12, <2>3, <2>4, <2>5 DEF ServersCounted
<1>13. CASE ForkFails(w)
  <2>1. /\ vllms' = vllms /\ vllm_pid' = NoPid /\ forks' = forks
        /\ late' = (late \/ vllm_pid # NoPid)
    BY <1>13 DEF ForkFails
  <2>2. PICK b \in Nat : b = Cardinality(Busy) /\ Cardinality(Busy') = b - 1 /\ b > 0
    BY <1>11, <1>13
  <2>3. forks' + Cardinality(Busy') + Len(events') <= pushed'
    BY <1>1, <1>2, <1>11, <1>13, <2>1, <2>2, SMTT(30) DEF ServersCounted
  <2> QED BY <1>1, <1>2, <1>11, <1>13, <2>1, <2>3 DEF ServersCounted
<1>14. CASE OtherDone(w)
  <2>1. worker' = [worker EXCEPT ![w] = "loop"]
    BY <1>14 DEF OtherDone
  <2>2. UNCHANGED <<use_gpu, main, pushed, vllmVars, events>>
    BY <1>14 DEF OtherDone, config, ioVars
  <2> QED BY <2>1, <2>2, IdleWorkKeepsServers DEF StartingServer
<1>15. CASE Wedge(w)
  <2>1. worker' = [worker EXCEPT ![w] = "wedged"]
    BY <1>15 DEF Wedge
  <2>2. UNCHANGED <<use_gpu, main, pushed, vllmVars, events>>
    BY <1>15 DEF Wedge, config, ioVars
  <2> QED BY <2>1, <2>2, IdleWorkKeepsServers DEF StartingServer
<1>16. CASE MembersFilled(w)
  <2>1. worker[w] = "members" /\ worker' = [worker EXCEPT ![w] = "connect"]
    BY <1>16 DEF MembersFilled
  <2>2. UNCHANGED <<use_gpu, main, pushed, vllmVars, events>>
    BY <1>16 DEF MembersFilled, config, ioVars
  <2> QED BY <2>1, <2>2, IdleWorkKeepsServers DEF StartingServer
<1> QED BY <1>3, <1>4, <1>5, <1>6, <1>7, <1>8, <1>9, <1>10, <1>12, <1>13, <1>14, <1>15, <1>16
        DEF Work

LEMMA KeepsServers ==
  ASSUME IInv, [Next]_vars
  PROVE  ServersCounted'
<1>1. TypeOK /\ ServersCounted
  BY DEF IInv
<1>2. /\ pushed \in Nat /\ forks \in Nat /\ events \in Seq(Kinds) /\ Len(events) \in Nat
      /\ worker \in [Workers -> WorkerStages]
  BY <1>1, LifecycleAssumption DEF TypeOK
<1>3. CASE UNCHANGED <<use_gpu, main, pushed, worker, events, vllm_pid, vllms, forks, late>>
  <2>1. Busy' = Busy /\ (Killed' <=> Killed)
    BY <1>3, BusyStays DEF Killed
  <2> QED BY <1>1, <1>3, <2>1 DEF ServersCounted
<1>4. ASSUME NEW k \in Kinds, IoPush(k)
      PROVE  ServersCounted'
  <2>1. /\ UNCHANGED <<use_gpu, main, worker, vllm_pid, vllms, forks, late>>
        /\ pushed' = pushed + 1
        /\ events' = Append(events, k) \/ events' = events
    BY <1>4 DEF IoPush, config, vllmVars
  <2>2. Busy' = Busy /\ (Killed' <=> Killed)
    BY <2>1, BusyStays DEF Killed
  <2>3. Len(events') <= Len(events) + 1 /\ Len(events') \in Nat
    BY <1>2, <2>1
  <2>4. Cardinality(Busy) \in Nat
    BY BusyCount
  <2>5. forks' + Cardinality(Busy') + Len(events') <= pushed'
    BY <1>1, <1>2, <2>1, <2>2, <2>3, <2>4 DEF ServersCounted
  <2> QED BY <1>1, <2>1, <2>2, <2>5 DEF ServersCounted
<1>5. CASE IoNotify
  <2>1. UNCHANGED <<use_gpu, main, pushed, events, vllmVars>>
    BY <1>5 DEF IoNotify, config
  <2>2. CASE worker' = worker
    BY <1>3, <2>1, <2>2 DEF vllmVars
  <2>3. CASE \E w \in Workers : worker' = [worker EXCEPT ![w] = "pop"]
    BY <2>1, <2>3, IdleWorkKeepsServers DEF StartingServer
  <2>4. worker' = worker \/ \E w \in Workers : worker' = [worker EXCEPT ![w] = "pop"]
    BY <1>5 DEF IoNotify
  <2> QED BY <2>2, <2>3, <2>4
<1>6. ASSUME IoExit \/ PollThread \/ PollFatal
      PROVE  UNCHANGED <<use_gpu, main, pushed, worker, events, vllm_pid, vllms, forks, late>>
  BY <1>6 DEF IoExit, PollThread, PollCheck, PollCq, PollFatal, config, ioVars, vllmVars
<1>7. ASSUME UNCHANGED vars
      PROVE  UNCHANGED <<use_gpu, main, pushed, worker, events, vllm_pid, vllms, forks, late>>
  BY <1>7 DEF vars, config, ioVars, vllmVars
<1>8. ASSUME NEW w \in Workers, Throw(w)
      PROVE  ServersCounted'
  <2>1. /\ main' = "crashed" /\ worker' = [v \in Workers |-> "exited"]
        /\ UNCHANGED <<pushed, events, vllm_pid, vllms, forks, late>>
    BY <1>8 DEF Throw, vllmVars
  <2>2. Busy' = {} /\ Cardinality(Busy') = 0
    BY <2>1, FS_EmptySet DEF Busy, StartingServer
  <2>3. PICK b \in Nat : b = Cardinality(Busy)
    BY BusyCount
  <2>4. forks' + Cardinality(Busy') + Len(events') <= pushed'
    BY <1>1, <1>2, <2>1, <2>2, <2>3 DEF ServersCounted
  <2>5. Killed'
    BY <2>1 DEF Killed, BeforeShutdown
  <2> QED BY <2>1, <2>4, <2>5 DEF ServersCounted
<1> QED BY <1>3, <1>4, <1>5, <1>6, <1>7, <1>8, MainKeepsServers, WorkKeepsServers
        DEF Next, EpollThread

-----------------------------------------------------------------------------
(* Types *)

LEMMA MainKeepsType ==
  ASSUME IInv, Main \/ Shutdown
  PROVE  TypeOK'
<1>1. TypeOK /\ EngineStage /\ ServersCounted
  BY DEF IInv
<1>2. Len(DestroyOrder) \in Nat /\ Len(CreateOrder) \in Nat /\ MaxEvents \in Nat
  BY QpObjectsType, DestroyAt, CreateAt, LifecycleAssumption
<1>3. CASE Bind \/ BindFails \/ StartIo(TRUE) \/ StartIo(FALSE) \/ Probe \/ ProbeFails
  <2>1. CASE Bind
    BY <1>1, <2>1 DEF Bind, TypeOK, config, rdmaVars, ioVars, pollVars, vllmVars
  <2>2. CASE BindFails
    BY <1>1, <2>2 DEF BindFails, TypeOK, config, rdmaVars, ioVars, pollVars, vllmVars
  <2>3. CASE Probe
    BY <1>1, <2>3 DEF Probe, TypeOK, config, rdmaVars, ioVars, pollVars, vllmVars
  <2>4. CASE ProbeFails
    BY <1>1, <2>4 DEF ProbeFails, TypeOK, config, rdmaVars, ioVars, pollVars, vllmVars
  <2>5. ASSUME NEW ok \in BOOLEAN, StartIo(ok) PROVE TypeOK'
    <3>1. io' \in {"off", "on"} /\ io_running' \in BOOLEAN /\ registered' \in BOOLEAN
      BY <2>5 DEF StartIo
    <3> QED BY <1>1, <2>5, <3>1 DEF StartIo, TypeOK, config, rdmaVars, pollVars, vllmVars
  <2> QED BY <1>3, <2>1, <2>2, <2>3, <2>4, <2>5
<1>4. CASE StartPool
  <2>1. worker' \in [Workers -> WorkerStages]
    BY <1>4 DEF StartPool, WorkerStages
  <2> QED BY <1>1, <1>4, <2>1 DEF StartPool, TypeOK, config, rdmaVars, ioVars, pollVars, vllmVars
<1>5. CASE Create \/ CreateFails
  <2>1. main = "init" /\ alive # Objects
    BY <1>5 DEF Create, CreateFails
  <2>2. PICK k \in 0 .. Len(CreateOrder) : alive = Created(k) /\ Cardinality(alive) = k
    BY <1>1, <2>1 DEF EngineStage
  <2>3. k \in 0 .. Len(CreateOrder) - 1
    BY <1>2, <2>1, <2>2, CreatedNext
  <2>4. NextObject \in Objects
    BY <2>2, <2>3, MadeAfterNeeded DEF NextObject
  <2>5. alive' \subseteq Objects /\ peer_qps' \subseteq Peers
    BY <1>1, <1>5, <2>4 DEF Create, CreateFails, TypeOK
  <2>6. CASE Create
    BY <1>1, <2>5, <2>6 DEF Create, TypeOK, config, ioVars, pollVars, vllmVars
  <2>7. CASE CreateFails
    BY <1>1, <2>5, <2>7 DEF CreateFails, TypeOK, config, ioVars, pollVars, vllmVars
  <2> QED BY <1>5, <2>6, <2>7
<1>6. CASE Initialized \/ Connect \/ ConnectFails \/ StartPoll \/ SetState \/ Shutdown
  <2>1. CASE Initialized
    BY <1>1, <2>1 DEF Initialized, TypeOK, config, rdmaVars, ioVars, pollVars, vllmVars
  <2>2. CASE Connect
    BY <1>1, <2>2 DEF Connect, TypeOK, config, rdmaVars, ioVars, pollVars, vllmVars
  <2>3. CASE ConnectFails
    BY <1>1, <2>3 DEF ConnectFails, TypeOK, config, rdmaVars, ioVars, pollVars, vllmVars
  <2>4. CASE StartPoll
    <3>1. poll_running' \in BOOLEAN /\ poll' \in {"off", "check", "poll", "exited"}
      BY <1>1, <2>4 DEF StartPoll, TypeOK
    <3> QED BY <1>1, <2>4, <3>1 DEF StartPoll, TypeOK, config, rdmaVars, ioVars, pollVars, vllmVars
  <2>5. CASE SetState
    BY <1>1, <2>5 DEF SetState, TypeOK, config, rdmaVars, ioVars, pollVars, vllmVars
  <2>6. CASE Shutdown
    BY <1>1, <2>6 DEF Shutdown, TypeOK, config, rdmaVars, ioVars, pollVars, vllmVars
  <2> QED BY <1>6, <2>1, <2>2, <2>3, <2>4, <2>5, <2>6
<1>7. CASE LookForServer \/ Kill \/ CallWaitpid \/ WaitpidReturns
  <2>1. /\ forks \in 0 .. MaxEvents /\ vllms \subseteq 1 .. forks
        /\ vllm_pid \in 1 .. forks \cup {NoPid}
        /\ {awaited, signalled} \subseteq 1 .. forks \cup {NoPid, 0}
    BY <1>1 DEF TypeOK
  <2>2. CASE LookForServer
    <3>1. main' \in {"signal", "mark"}
      BY <2>2 DEF LookForServer
    <3> QED BY <1>1, <2>2, <3>1
            DEF LookForServer, TypeOK, config, rdmaVars, ioVars, pollVars, vllmVars
  <2>3. CASE Kill
    <3>1. /\ UNCHANGED <<forks, vllm_pid, awaited>> /\ vllms' \subseteq vllms
          /\ signalled' = vllm_pid
      BY <2>3 DEF Kill
    <3>2. /\ forks' \in 0 .. MaxEvents /\ vllms' \subseteq 1 .. forks'
          /\ vllm_pid' \in 1 .. forks' \cup {NoPid}
          /\ {awaited', signalled'} \subseteq 1 .. forks' \cup {NoPid, 0}
      BY <2>1, <3>1
    <3> QED BY <1>1, <2>3, <3>2 DEF Kill, TypeOK, config, rdmaVars, ioVars, pollVars
  <2>4. CASE CallWaitpid
    <3>1. UNCHANGED <<forks, vllm_pid, vllms, signalled>> /\ awaited' = vllm_pid
      BY <2>4 DEF CallWaitpid
    <3>2. {awaited', signalled'} \subseteq 1 .. forks' \cup {NoPid, 0}
      BY <2>1, <3>1
    <3> QED BY <1>1, <2>4, <3>1, <3>2
            DEF CallWaitpid, TypeOK, config, rdmaVars, ioVars, pollVars
  <2>5. CASE WaitpidReturns
    BY <1>1, <2>5 DEF WaitpidReturns, TypeOK, config, rdmaVars, ioVars, pollVars, vllmVars
  <2> QED BY <1>7, <2>2, <2>3, <2>4, <2>5
<1>8. CASE MarkStopped \/ StopPoll \/ JoinPoll
  <2>1. CASE MarkStopped
    BY <1>1, <2>1 DEF MarkStopped, TypeOK, config, rdmaVars, ioVars, pollVars, vllmVars
  <2>2. CASE StopPoll
    <3>1. poll_running' \in BOOLEAN /\ main' \in {"join_poll", "rdma"}
      BY <1>1, <2>2 DEF StopPoll, TypeOK
    <3> QED BY <1>1, <2>2, <3>1 DEF StopPoll, TypeOK, config, rdmaVars, ioVars, pollVars, vllmVars
  <2>3. CASE JoinPoll
    BY <1>1, <2>3 DEF JoinPoll, TypeOK, config, rdmaVars, ioVars, pollVars, vllmVars
  <2> QED BY <1>8, <2>1, <2>2, <2>3
<1>9. CASE Destroy
  <2>1. step' = step + 1 /\ step <= Len(DestroyOrder)
    BY <1>9 DEF Destroy
  <2>2. step' \in 1 .. Len(DestroyOrder) + 1
    BY <1>1, <1>2, <2>1 DEF TypeOK
  <2>3. alive' \subseteq Objects
    BY <1>1, <1>9 DEF Destroy, TypeOK
  <2>4. peer_qps' \subseteq Peers
    BY <1>1, <1>9 DEF Destroy, TypeOK
  <2> QED BY <1>1, <1>9, <2>2, <2>3, <2>4 DEF Destroy, TypeOK, config, ioVars, pollVars, vllmVars
<1>10. CASE RdmaDown \/ StopIo \/ JoinIo \/ StopPool \/ WakeAll \/ JoinPool
  <2>1. CASE RdmaDown
    <3>1. initialized' \in BOOLEAN /\ main' = "stop_io"
      BY <1>1, <2>1 DEF RdmaDown, TypeOK
    <3> QED BY <1>1, <2>1, <3>1 DEF RdmaDown, TypeOK, config, rdmaVars, ioVars, pollVars, vllmVars
  <2>2. CASE StopIo
    <3>1. io_running' \in BOOLEAN /\ main' \in {"join_io", "stop_pool"}
      BY <1>1, <2>2 DEF StopIo, TypeOK
    <3> QED BY <1>1, <2>2, <3>1 DEF StopIo, TypeOK, config, rdmaVars, ioVars, pollVars, vllmVars
  <2>3. CASE JoinIo
    BY <1>1, <2>3 DEF JoinIo, TypeOK, config, rdmaVars, ioVars, pollVars, vllmVars
  <2>4. CASE StopPool
    <3>1. pool_running' \in BOOLEAN /\ main' = "wake"
      BY <1>1, <2>4 DEF StopPool, TypeOK
    <3> QED BY <1>1, <2>4, <3>1 DEF StopPool, TypeOK, config, rdmaVars, ioVars, pollVars, vllmVars
  <2>5. CASE WakeAll
    BY <1>1, <2>5 DEF WakeAll, TypeOK, config, rdmaVars, ioVars, pollVars, vllmVars
  <2>6. CASE JoinPool
    BY <1>1, <2>6 DEF JoinPool, TypeOK, config, rdmaVars, ioVars, pollVars, vllmVars
  <2> QED BY <1>10, <2>1, <2>2, <2>3, <2>4, <2>5, <2>6
<1>11. CASE NotifyAll
  <2>1. worker' \in [Workers -> WorkerStages]
    BY <1>1, <1>11 DEF NotifyAll, TypeOK, WorkerStages
  <2> QED BY <1>1, <1>11, <2>1 DEF NotifyAll, TypeOK, config, rdmaVars, ioVars, pollVars,
                                   vllmVars
<1> QED BY <1>3, <1>4, <1>5, <1>6, <1>7, <1>8, <1>9, <1>10, <1>11 DEF Main

LEMMA WorkKeepsType ==
  ASSUME IInv, NEW w \in Workers, Work(w) \/ WakeSpuriously(w) \/ Wedge(w)
  PROVE  TypeOK'
<1>1. TypeOK /\ ServersCounted
  BY DEF IInv
<1>2. PICK P : P = WorkerStages
  OBVIOUS
<1>3. /\ worker \in [Workers -> P] /\ todo \in [Workers -> SUBSET Peers] /\ peer_qps \subseteq Peers
      /\ events \in Seq(Kinds) /\ Len(events) <= Capacity
  BY <1>1, <1>2 DEF TypeOK
<1>4. CASE \/ Loop(w) \/ PopNothing(w) \/ WakeSpuriously(w) \/ ConfigFails(w) \/ Answer(w)
           \/ OtherDone(w) \/ Wedge(w)
  <2>1. worker' \in [Workers -> P]
    BY <1>2, <1>3, <1>4
       DEF Loop, PopNothing, WakeSpuriously, ConfigFails, Answer, OtherDone, Wedge, WorkerStages
  <2>2. /\ UNCHANGED <<config, main, failed, rdmaVars, ioVars, events, stopped, pool_running,
                       todo, pollVars, vllmVars, stray>>
        /\ state' = state \/ state' = "running"
    BY <1>4 DEF Loop, PopNothing, WakeSpuriously, ConfigFails, Answer, OtherDone, Wedge
  <2> QED BY <1>1, <1>2, <2>1, <2>2
          DEF TypeOK, config, rdmaVars, ioVars, pollVars, vllmVars
<1>5. CASE Pop(w)
  <2>1. StartOf(Head(events)) \in P
    BY <1>2 DEF StartOf, WorkerStages
  <2>2. worker' \in [Workers -> P]
    BY <1>3, <1>5, <2>1 DEF Pop
  <2>4. events' \in Seq(Kinds) /\ Len(events') <= Capacity
    <3>1. events # <<>> /\ events' = Tail(events)
      BY <1>5 DEF Pop
    <3>2. Tail(events) \in Seq(Kinds) /\ Len(Tail(events)) = Len(events) - 1 /\ Len(events) \in Nat
      BY <1>3, <3>1
    <3> QED BY <1>3, <3>1, <3>2, LifecycleAssumption
  <2> QED BY <1>1, <1>2, <1>5, <2>2, <2>4
          DEF Pop, TypeOK, config, rdmaVars, ioVars, pollVars, vllmVars
<1>6. CASE MembersFilled(w) \/ (\E p \in Peers : ConnectQp(w, p)) \/ ConnectDone(w)
  <2>1. worker' \in [Workers -> P]
    BY <1>2, <1>3, <1>6 DEF MembersFilled, ConnectQp, ConnectDone, WorkerStages
  <2>2. todo' \in [Workers -> SUBSET Peers]
    BY <1>3, <1>6 DEF MembersFilled, ConnectQp, ConnectDone
  <2>3. stray' \in BOOLEAN
    BY <1>1, <1>6 DEF MembersFilled, ConnectQp, ConnectDone, TypeOK
  <2>4. UNCHANGED <<config, main, failed, rdmaVars, ioVars, events, stopped, pool_running,
                    pollVars, state, vllmVars>>
    BY <1>6 DEF MembersFilled, ConnectQp, ConnectDone
  <2> QED BY <1>1, <1>2, <2>1, <2>2, <2>3, <2>4
          DEF TypeOK, config, rdmaVars, ioVars, pollVars, vllmVars
<1>7. CASE Fork(w)
  <2>1. /\ worker[w] = "fork" /\ forks' = forks + 1
        /\ vllms' = vllms \cup {forks + 1} /\ vllm_pid' = forks + 1
        /\ UNCHANGED <<awaited, signalled>>
    BY <1>7 DEF Fork
  <2>2. Cardinality(Busy) \in Nat /\ Cardinality(Busy) > 0
    BY <2>1, BusyCount DEF StartingServer
  <2>3. /\ forks \in Nat /\ pushed \in 0 .. MaxEvents /\ Len(events) \in Nat
        /\ MaxEvents \in Nat /\ vllms \subseteq 1 .. forks
        /\ {awaited, signalled} \subseteq 1 .. forks \cup {NoPid, 0}
    BY <1>1, <1>3, LifecycleAssumption DEF TypeOK
  <2>4. forks + 1 <= MaxEvents
    BY <1>1, <2>2, <2>3 DEF ServersCounted
  <2>5. /\ forks' \in 0 .. MaxEvents /\ vllms' \subseteq 1 .. forks'
        /\ vllm_pid' \in 1 .. forks' \cup {NoPid}
        /\ {awaited', signalled'} \subseteq 1 .. forks' \cup {NoPid, 0}
    BY <2>1, <2>3, <2>4
  <2>6. worker' \in [Workers -> P]
    BY <1>2, <1>3, <1>7 DEF Fork, WorkerStages
  <2>7. late' \in BOOLEAN
    BY <1>1, <1>7 DEF Fork, TypeOK, Killed
  <2> QED BY <1>1, <1>2, <1>7, <2>5, <2>6, <2>7
          DEF Fork, TypeOK, config, rdmaVars, ioVars, pollVars
<1>8. CASE ForkFails(w)
  <2>1. worker' \in [Workers -> P]
    BY <1>2, <1>3, <1>8 DEF ForkFails, WorkerStages
  <2>2. late' \in BOOLEAN /\ vllm_pid' \in 1 .. forks \cup {NoPid}
    BY <1>1, <1>8 DEF ForkFails, TypeOK
  <2> QED BY <1>1, <1>2, <1>8, <2>1, <2>2
          DEF ForkFails, TypeOK, config, rdmaVars, ioVars, pollVars
<1> QED BY <1>4, <1>5, <1>6, <1>7, <1>8 DEF Work

LEMMA KeepsType ==
  ASSUME IInv, [Next]_vars
  PROVE  TypeOK'
<1>1. TypeOK
  BY DEF IInv
<1>2. UNCHANGED vars => TypeOK'
  BY <1>1 DEF vars, TypeOK, config, rdmaVars, ioVars, pollVars, vllmVars
<1>3. ASSUME NEW k \in Kinds, IoPush(k) PROVE TypeOK'
  <2>1. pushed' \in 0 .. MaxEvents
    BY <1>1, <1>3, LifecycleAssumption DEF IoPush, TypeOK
  <2>2. events' \in Seq(Kinds) /\ Len(events') <= Capacity
    <3>1. events \in Seq(Kinds) /\ Len(events) <= Capacity /\ Capacity \in Nat
      BY <1>1, LifecycleAssumption DEF TypeOK
    <3>2. CASE Len(events) < Capacity
      <4>1. events' = Append(events, k)
        BY <1>3, <3>2 DEF IoPush
      <4>2. Append(events, k) \in Seq(Kinds) /\ Len(Append(events, k)) = Len(events) + 1
        BY <3>1
      <4> QED BY <3>1, <3>2, <4>1, <4>2
    <3>3. CASE ~(Len(events) < Capacity)
      BY <1>3, <3>1, <3>3 DEF IoPush
    <3> QED BY <3>2, <3>3
  <2>3. io' \in {"off", "on", "notify", "exited"}
    BY <1>1, <1>3 DEF IoPush, TypeOK
  <2> QED BY <1>1, <1>3, <2>1, <2>2, <2>3
          DEF IoPush, TypeOK, config, rdmaVars, pollVars, vllmVars
<1>4. CASE IoNotify
  <2>1. worker' = worker \/ \E w \in Workers : worker' = [worker EXCEPT ![w] = "pop"]
    BY <1>4 DEF IoNotify
  <2>2. worker' \in [Workers -> WorkerStages]
    BY <1>1, <2>1 DEF TypeOK, WorkerStages
  <2> QED BY <1>1, <1>4, <2>2 DEF IoNotify, TypeOK, config, rdmaVars, pollVars, vllmVars
<1>5. CASE IoExit \/ PollCheck \/ PollCq \/ PollFatal
  <2>1. CASE IoExit
    BY <1>1, <2>1 DEF IoExit, TypeOK, config, rdmaVars, ioVars, pollVars, vllmVars
  <2>2. CASE PollCheck
    BY <1>1, <2>2 DEF PollCheck, TypeOK, config, rdmaVars, ioVars, pollVars, vllmVars
  <2>3. CASE PollCq
    BY <1>1, <2>3 DEF PollCq, TypeOK, config, rdmaVars, ioVars, pollVars, vllmVars
  <2>4. CASE PollFatal
    <3>1. poll_running' \in BOOLEAN /\ poll' = "exited"
      BY <1>1, <2>4 DEF PollFatal, TypeOK
    <3> QED BY <1>1, <2>4, <3>1 DEF PollFatal, TypeOK, config, rdmaVars, ioVars, pollVars, vllmVars
  <2> QED BY <1>5, <2>1, <2>2, <2>3, <2>4
<1>6. ASSUME NEW w \in Workers, Throw(w) PROVE TypeOK'
  <2>1. worker' \in [Workers -> WorkerStages]
    BY <1>6 DEF Throw, WorkerStages
  <2> QED BY <1>1, <1>6, <2>1 DEF Throw, TypeOK, config, rdmaVars, vllmVars
<1> QED BY <1>2, <1>3, <1>4, <1>5, <1>6, MainKeepsType, WorkKeepsType
        DEF Next, EpollThread, PollThread

-----------------------------------------------------------------------------
(* Wake-ups and joins *)

\* A worker that will look at the queue again.
Waking == {"loop", "pop", "other", "members", "connect", "fork", "answer"}

\* No event waits while all workers sleep and nobody is about to wake one, unless a
\* handler never comes back.  (EventQueue::push, wait_and_pop)
NoLostWakeup ==
  (events # <<>> /\ \E w \in Workers : worker[w] = "asleep") =>
     io = "notify" \/ ~pool_running \/ Stalled \/ \E w \in Workers : worker[w] \in Waking

\* A thread that is being joined was started, has been told to end and does not sleep
\* through it.  (Node::shutdown, EpollWorkerBase::stop, WorkerPool::stop)
JoinsReturn ==
  /\ main = "join_poll" => poll # "off" /\ ~poll_running
  /\ main = "join_io"   => io # "off" /\ ~io_running
  /\ main = "join_pool" => /\ stopped /\ ~pool_running
                           /\ \A w \in Workers : worker[w] \notin {"off", "asleep"}

\* A flag is set with its thread, and the workers exist from worker_pool_.start on.
ThreadsStarted ==
  /\ poll_running => poll # "off"
  /\ io_running => io # "off"
  /\ main \in {"new", "bound", "io"} => \A w \in Workers : worker[w] = "off"
  /\ main \notin {"new", "bound", "io", "end"} => \A w \in Workers : worker[w] # "off"
  /\ main = "end" => \A w \in Workers : worker[w] \in {"off", "exited"}
  /\ main \in {"wake", "notify"} => ~pool_running
  /\ main = "notify" => stopped

WInv == NoLostWakeup /\ JoinsReturn /\ ThreadsStarted

\* A step of the main thread that moves no worker and starts and ends no wait.
LEMMA MainMovesOn ==
  ASSUME WInv, UNCHANGED <<worker, events, io, stopped, pool_running>>,
         poll_running' => poll' # "off", io_running' => io_running,
         \/ /\ main \notin {"new", "bound", "io", "notify", "end", "crashed"}
            /\ main' \notin {"new", "bound", "io", "wake", "notify", "end",
                            "join_poll", "join_io", "join_pool"}
         \/ /\ main \in {"new", "bound", "io"} /\ main' \in {"new", "bound", "io", "end"}
  PROVE  WInv'
BY DEF WInv, NoLostWakeup, JoinsReturn, ThreadsStarted, Waking, Stalled, TrackerFree

LEMMA MainKeepsWakes ==
  ASSUME WInv, Main \/ Shutdown
  PROVE  WInv'
<1> USE DEF config, rdmaVars, ioVars, pollVars, vllmVars
<1>1. poll_running => poll # "off"
  BY DEF WInv, ThreadsStarted
<1>2. CASE Bind \/ BindFails
  BY <1>1, <1>2, MainMovesOn DEF Bind, BindFails
<1>3. CASE Probe \/ ProbeFails \/ Create \/ CreateFails \/ Initialized
  BY <1>1, <1>3, MainMovesOn DEF Probe, ProbeFails, Create, CreateFails, Initialized
<1>4. CASE Connect \/ ConnectFails \/ SetState \/ Shutdown
  BY <1>1, <1>4, MainMovesOn DEF Connect, ConnectFails, SetState, Shutdown
<1>5. CASE StartPoll
  BY <1>1, <1>5, MainMovesOn DEF StartPoll
<1>6. CASE MarkStopped \/ JoinPoll \/ Destroy \/ RdmaDown \/ JoinIo
  BY <1>1, <1>6, MainMovesOn DEF MarkStopped, JoinPoll, Destroy, RdmaDown, JoinIo
<1>14. CASE LookForServer \/ Kill \/ CallWaitpid \/ WaitpidReturns
  BY <1>1, <1>14, MainMovesOn DEF LookForServer, Kill, CallWaitpid, WaitpidReturns
<1>7. ASSUME NEW ok \in BOOLEAN, StartIo(ok) PROVE WInv'
  BY <1>7 DEF StartIo, WInv, NoLostWakeup, JoinsReturn, ThreadsStarted,
              Stalled, TrackerFree
<1>8. CASE StartPool
  BY <1>8 DEF StartPool, WInv, NoLostWakeup, JoinsReturn, ThreadsStarted,
              Stalled, TrackerFree
<1>9. CASE StopPoll
  BY <1>9 DEF StopPoll, WInv, NoLostWakeup, JoinsReturn, ThreadsStarted,
              Stalled, TrackerFree
<1>10. CASE StopIo
  BY <1>10 DEF StopIo, WInv, NoLostWakeup, JoinsReturn, ThreadsStarted,
              Stalled, TrackerFree
<1>11. CASE StopPool \/ WakeAll
  BY <1>11 DEF StopPool, WakeAll, WInv, NoLostWakeup, JoinsReturn, ThreadsStarted,
              Stalled, TrackerFree
<1>12. CASE NotifyAll
  BY <1>12 DEF NotifyAll, WInv, NoLostWakeup, JoinsReturn, ThreadsStarted,
              Stalled, TrackerFree
<1>13. CASE JoinPool
  BY <1>13 DEF JoinPool, WInv, NoLostWakeup, JoinsReturn, ThreadsStarted,
              Stalled, TrackerFree
<1> QED BY <1>2, <1>3, <1>4, <1>5, <1>6, <1>7, <1>8, <1>9, <1>10, <1>11, <1>12, <1>13, <1>14
        DEF Main

\* A step of a worker, or of the one that notifies it: it was started, it falls asleep on
\* an empty queue only, and it ends when the pool has been told to.
LEMMA WorkerMoves ==
  ASSUME WInv, NEW w \in Workers, NEW l, worker[w] \notin {"off", "exited"},
         \A v \in Workers : worker'[v] = IF v = w THEN l ELSE worker[v],
         \/ l \in Waking
         \/ l = "wedged"
         \/ l = "asleep" /\ events = <<>> /\ ~stopped
         \/ l = "exited" /\ ~pool_running,
         events' # <<>> => events # <<>>,
         UNCHANGED <<main, stopped, pool_running, poll, poll_running, io_running>>,
         io' = io \/ (io' = "on" /\ l \in Waking)
  PROVE  WInv'
<1>1. NoLostWakeup'
  BY DEF WInv, NoLostWakeup, Waking, Stalled, TrackerFree
<1>2. JoinsReturn'
  BY DEF WInv, JoinsReturn, Waking
<1>3. ThreadsStarted'
  BY DEF WInv, ThreadsStarted, Waking
<1> QED BY <1>1, <1>2, <1>3 DEF WInv

LEMMA WorkKeepsWakes ==
  ASSUME TypeOK, WInv, NEW w \in Workers, Work(w) \/ WakeSpuriously(w) \/ Wedge(w)
  PROVE  WInv'
<1> USE DEF config, rdmaVars, ioVars, pollVars, vllmVars
<1>1. PICK P : worker \in [Workers -> P]
  BY DEF TypeOK
<1>2. CASE Pop(w)
  <2>1. StartOf(Head(events)) \in Waking
    BY DEF StartOf, Waking
  <2> QED BY <1>1, <1>2, <2>1, WorkerMoves DEF Pop
<1>3. CASE Loop(w)
  BY <1>1, <1>3, WorkerMoves DEF Loop, Waking
<1>4. CASE PopNothing(w)
  BY <1>1, <1>4, WorkerMoves DEF PopNothing, Waking
<1>5. CASE WakeSpuriously(w) \/ OtherDone(w) \/ MembersFilled(w) \/ ConnectDone(w)
  BY <1>1, <1>5, WorkerMoves DEF WakeSpuriously, OtherDone, MembersFilled, ConnectDone, Waking
<1>8. CASE ConfigFails(w) \/ Wedge(w)
  BY <1>1, <1>8, WorkerMoves DEF ConfigFails, Wedge, Waking
<1>6. CASE Fork(w) \/ ForkFails(w) \/ Answer(w)
  BY <1>1, <1>6, WorkerMoves DEF Fork, ForkFails, Answer, Waking
<1>7. CASE \E p \in Peers : ConnectQp(w, p)
  BY <1>7 DEF ConnectQp, WInv, NoLostWakeup, JoinsReturn, ThreadsStarted,
              Stalled, TrackerFree
<1> QED BY <1>2, <1>3, <1>4, <1>5, <1>6, <1>7, <1>8 DEF Work

LEMMA KeepsWakes ==
  ASSUME TypeOK, WInv, [Next]_vars
  PROVE  WInv'
<1> USE DEF config, rdmaVars, ioVars, pollVars, vllmVars
<1>1. CASE UNCHANGED vars
  BY <1>1 DEF vars, WInv, NoLostWakeup, JoinsReturn, ThreadsStarted,
              Stalled, TrackerFree
<1>2. ASSUME NEW k \in Kinds, IoPush(k) PROVE WInv'
  <2>1. /\ UNCHANGED <<main, worker, stopped, pool_running, poll, poll_running, io_running>>
        /\ io = "on" /\ (io' = "notify" \/ UNCHANGED <<events, io>>)
    BY <1>2 DEF IoPush
  <2> QED BY <2>1 DEF WInv, NoLostWakeup, JoinsReturn, ThreadsStarted,
              Stalled, TrackerFree
<1>3. CASE IoNotify
  <2>1. /\ io = "notify" /\ io' = "on"
        /\ UNCHANGED <<main, events, stopped, pool_running, poll, poll_running, io_running>>
    BY <1>3 DEF IoNotify
  <2>2. CASE \E w \in Workers : worker[w] = "asleep"
    <3>1. PICK w \in Workers : worker[w] = "asleep" /\ worker' = [worker EXCEPT ![w] = "pop"]
      BY <1>3, <2>2 DEF IoNotify
    <3>2. \A v \in Workers : worker'[v] = IF v = w THEN "pop" ELSE worker[v]
      BY <3>1 DEF TypeOK
    <3> QED BY <2>1, <3>1, <3>2, WorkerMoves DEF Waking
  <2>3. CASE ~\E w \in Workers : worker[w] = "asleep"
    <3>1. worker' = worker
      BY <1>3, <2>3 DEF IoNotify
    <3> QED BY <2>1, <2>3, <3>1 DEF WInv, NoLostWakeup, JoinsReturn, ThreadsStarted,
              Stalled, TrackerFree
  <2> QED BY <2>2, <2>3
<1>4. CASE IoExit \/ PollCheck \/ PollCq \/ PollFatal
  BY <1>4 DEF IoExit, PollCheck, PollCq, PollFatal, WInv, NoLostWakeup, JoinsReturn,
              ThreadsStarted, Stalled, TrackerFree
<1>5. ASSUME NEW w \in Workers, Throw(w) PROVE WInv'
  <2>1. /\ main' = "crashed" /\ io' = "exited" /\ poll' = "exited"
        /\ \A v \in Workers : worker'[v] = "exited"
    BY <1>5 DEF Throw
  <2> QED BY <2>1 DEF WInv, NoLostWakeup, JoinsReturn, ThreadsStarted
<1> QED BY <1>1, <1>2, <1>3, <1>4, <1>5, MainKeepsWakes, WorkKeepsWakes
        DEF Next, EpollThread, PollThread

-----------------------------------------------------------------------------
(* The theorems *)

LEMMA StepKeepsIInv == IInv /\ [Next]_vars => IInv'
BY KeepsType, KeepsEngine, KeepsKnown, KeepsServers, KeepsPoll, KeepsStray DEF IInv

\* The invariant holds in every reachable state.  (Node::start, shutdown, their threads)
THEOREM Invariance == Spec => []IInv
BY InitEstablishes, StepKeepsIInv, PTL DEF Spec

\* Every variable keeps its type; the queue stays within its capacity, and no more vLLM
\* servers are started than messages arrive.  (EventQueue::push, start_vllm_server)
THEOREM LifecycleTyping == Spec => []TypeOK
<1>1. IInv => TypeOK
  BY DEF IInv
<1> QED BY <1>1, Invariance, PTL

\* No RDMA object is taken from under another one, whatever the number of peers and
\* wherever initialize fails, and a process that came up leaves none behind.
\* (initialize, shutdown, destroy_rdma_context)
THEOREM TeardownKeepsOrder == Spec => []TeardownInOrder
<1>1. IInv => TeardownInOrder
  BY DEF IInv, NeedsMet, EngineStage, Done, TeardownInOrder
<1> QED BY <1>1, Invariance, PTL

\* The poll thread finds its completion queue, and a worker meets a destroyed queue pair
\* only while the process goes down.  (Node::shutdown, connect_all_qps)
THEOREM EngineAliveWhenUsed == Spec => []EngineUsedAlive
<1>1. Handle("recv_cq") \in Objects
  <2>1. 7 \in 1 .. Len(CreateOrder) /\ CreateOrder[7] = Handle("recv_cq")
    BY QpObjectsType, CreateAt
  <2>2. CreateOrder[7] \in Objects
    BY <2>1, CreateAt
  <2> QED BY <2>1, <2>2
<1>2. IInv => EngineUsedAlive
  BY <1>1 DEF IInv, EngineStage, PollInTime, StrayLate, Using, PollTime, Done, Over,
              BeforeShutdown, EngineUsedAlive
<1> QED BY <1>2, Invariance, PTL

\* A vLLM server is left behind only by two starts, by a late one or by a lost id.
\* (start_vllm_server, Node::shutdown)
THEOREM NoVllmOrphaned == Spec => []NoOrphanVllm
<1>1. IInv => NoOrphanVllm
  BY DEF IInv, ServersCounted, Killed, BeforeShutdown, NoOrphanVllm
<1> QED BY <1>1, Invariance, PTL

LEMMA WakesInvariance == Spec => []WInv
<1>1. Init => WInv
  BY DEF Init, WInv, NoLostWakeup, JoinsReturn, ThreadsStarted,
              Stalled, TrackerFree
<1>2. IInv => TypeOK
  BY DEF IInv
<1>3. TypeOK /\ WInv /\ [Next]_vars => WInv'
  BY KeepsWakes
<1> QED BY <1>1, <1>2, <1>3, Invariance, PTL DEF Spec

\* No wake-up is lost: with an event in the queue and a worker asleep, a notify_one is
\* due or another worker is on its way to the queue.  The fairness of QueueDrains has
\* to add only that threads run.  (EventQueue::push, wait_and_pop)
THEOREM WakeupsArrive == Spec => []NoLostWakeup
<1>1. WInv => NoLostWakeup
  BY DEF WInv
<1> QED BY <1>1, WakesInvariance, PTL

\* No join waits for a thread that was never started, was not told to end, or sleeps on
\* the queue after wake_all.  (Node::shutdown, EpollWorkerBase::stop, WorkerPool::stop)
THEOREM JoinsAreAnswered == Spec => []JoinsReturn
<1>1. WInv => JoinsReturn
  BY DEF WInv
<1> QED BY <1>1, WakesInvariance, PTL
=============================================================================
