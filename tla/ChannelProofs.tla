----------------------------- MODULE ChannelProofs -----------------------------
(***************************************************************************)
(* Proofs about RdmaChannel, for any set of prefill nodes, any depths of   *)
(* the queues, any batch sizes, any number of writes of each node and any  *)
(* bounds on refusals, faults and broadcasts.                              *)
(***************************************************************************)
EXTENDS RdmaChannel, SequenceTheorems, FiniteSetTheorems, TLAPS

(***************************************************************************)
(* The inductive invariant.  A sender's completions are of its writes in   *)
(* the order in which it made them, and those of signalled writes that     *)
(* landed wait until they are polled.  Every BatchSize-th call of          *)
(* rdma_write signals, so what was signalled tells how many calls there    *)
(* were; a queue that fills up outside a wait stays full.  On the decode   *)
(* node only the first queue pair ever has receive requests.               *)
(***************************************************************************)

\* A step does not make more writes than it has begun with.
StepBounded(p) ==
  /\ counter[p] + left[p] <= MaxWrites[p]
  /\ pc[p] = "saving" => left[p] > 0

\* What has been completed, and what is to be polled.
CompletionsInOrder(p) ==
  LET cq == send_cq[p] IN
  /\ \A i, j \in 1 .. Len(cq) : i < j => cq[i].id < cq[j].id
  /\ \A i \in 1 .. Len(cq) :
       /\ reclaimed[p] < cq[i].id /\ cq[i].id <= posted[p]
       /\ cq[i].ok => cq[i].id \in signalled[p] /\ cq[i].id <= landed[p]
       /\ qp[p] = "rts" => cq[i].id <= landed[p]
  /\ \A n \in signalled[p] :
       reclaimed[p] < n /\ n <= landed[p] => \E i \in 1 .. Len(cq) : cq[i].id = n
  /\ qp[p] = "rts" => reclaimed[p] <= landed[p]
  /\ qp[p] = "init" => posted[p] = 0

\* Signalled writes up to the m-th, and those that were waited for.
UpTo(p, m)  == {n \in signalled[p] : n <= m}
Covered(p)  == {n \in signalled[p] : n <= reclaimed[p] /\ n <= landed[p]}

SignalsCounted(p) ==
  /\ Cardinality(signalled[p]) * BatchSize <= counter[p]
  /\ \A m \in 0 .. posted[p] :
       Cardinality(UpTo(p, m)) * BatchSize <= m + (counter[p] - posted[p])
  /\ waits[p] <= Cardinality(Covered(p))

\* The queue is full and nothing waits: it stays so.
Stuck(p) == posted[p] - reclaimed[p] = SendDepth /\ pc[p] # "waiting"

\* The writes that were signalled lie BatchSize apart as long as all calls are posted.
Aligned(p) ==
  rejects[p] = 0 =>
    \E off \in Nat :
      /\ \A n \in 1 .. posted[p] : n \in signalled[p] <=> (n + off) % BatchSize = 0
      /\ Stuck(p) \/ off = counter[p] - posted[p]

SenderInv(p) ==
  StepBounded(p) /\ CompletionsInOrder(p) /\ SignalsCounted(p) /\ Aligned(p)

\* The decode node.
ReceiverInv ==
  /\ \A p \in Peers : p # First => recv_wrs[p] = 0 /\ landed[p] = 0
  /\ recv_wrs[First] + Len(recv_cq) <= RecvDepth
  /\ recv_qp[First] = "init" => recv_wrs[First] = 0 /\ recv_cq = <<>>
  /\ ~primed /\ faults = 0 => recv_wrs[First] = 0 /\ recv_cq = <<>>
  /\ faults = 0 => /\ \A p \in Peers : recv_qp[p] # "error"
                   /\ \A i \in 1 .. Len(recv_cq) : recv_cq[i].ok
  /\ ~fatal => failures < MaxFailures

\* As long as nothing breaks, what ReceivesConserved says, and more exactly: the queue
\* pair that has the receive requests is the one that the completions come from.
ReceivesCounted ==
  faults = 0 =>
    /\ primed => recv_wrs[First] + Len(recv_cq) = RecvDepth
    /\ handled + Len(recv_cq) = landed[First]
    /\ \A p \in Peers \ {First} : landed[p] = 0

IInv == TypeOK /\ ReceivesCounted /\ ReceiverInv /\ \A p \in Peers : SenderInv(p)

-----------------------------------------------------------------------------
(* Multiples *)

LEMMA NextMultiple ==
  ASSUME NEW a \in Nat, NEW b \in Nat, NEW d \in Nat, a < b
  PROVE  a * d + d <= b * d
<1> DEFINE c == b - (a + 1)
<1>1. c \in Nat /\ b = a + 1 + c
  OBVIOUS
<1>2. c * d \in Nat
  BY <1>1
<1>3. (a + 1 + c) * d = a * d + d + c * d
  BY <1>1
<1> HIDE DEF c
<1> QED BY <1>1, <1>2, <1>3

LEMMA SmallerFactor ==
  ASSUME NEW a \in Nat, NEW b \in Nat, NEW d \in Nat, a * d < b * d
  PROVE  a < b
<1>1. a * d \in Nat /\ b * d \in Nat
  OBVIOUS
<1>2. CASE b = a
  BY <1>1, <1>2
<1>3. CASE b < a
  BY <1>1, <1>3, NextMultiple
<1> QED BY <1>2, <1>3

LEMMA SmallerProduct ==
  ASSUME NEW a \in Nat, NEW b \in Nat, NEW d \in Nat, a <= b
  PROVE  a * d <= b * d /\ a * d \in Nat /\ b * d \in Nat
<1>1. a * d \in Nat /\ b * d \in Nat
  OBVIOUS
<1>2. CASE a = b
  BY <1>1, <1>2
<1>3. CASE a < b
  BY <1>1, <1>3, NextMultiple
<1> QED BY <1>1, <1>2, <1>3

\* What fits k times into c fits once more when a multiple is reached.
LEMMA MultipleReached ==
  ASSUME NEW k \in Nat, NEW c \in Nat, NEW d \in Nat \ {0}, k * d <= c, (c + 1) % d = 0
  PROVE  (k + 1) * d <= c + 1
<1>1. PICK q \in Nat : c + 1 = d * q
  <2>1. c + 1 = d * ((c + 1) \div d) + ((c + 1) % d) /\ (c + 1) \div d \in Nat
    OBVIOUS
  <2>2. PICK q \in Nat : q = (c + 1) \div d
    BY <2>1
  <2>3. d * q \in Nat
    BY <2>2
  <2> QED BY <2>1, <2>2, <2>3
<1>2. d * q = q * d /\ k * d \in Nat /\ q * d \in Nat
  BY <1>1
<1>3. k < q
  BY <1>1, <1>2, SmallerFactor
<1>4. k * d + d <= q * d
  BY <1>3, NextMultiple
<1>5. (k + 1) * d = k * d + d
  OBVIOUS
<1> QED BY <1>1, <1>2, <1>4, <1>5

\* Among d numbers in a row there is a multiple.
LEMMA MultipleWithin ==
  ASSUME NEW r \in Nat, NEW off \in Nat, NEW d \in Nat \ {0}
  PROVE  \E n \in r + 1 .. r + d : (n + off) % d = 0
<1>1. PICK q \in Nat, m \in 0 .. d - 1 : r + off = d * q + m
  <2>1. /\ r + off = d * ((r + off) \div d) + ((r + off) % d)
        /\ (r + off) \div d \in Nat /\ (r + off) % d \in 0 .. d - 1
    OBVIOUS
  <2> QED BY <2>1
<1>2. d * q \in Nat
  BY <1>1
<1>3. PICK n \in r + 1 .. r + d : n = r + d - m
  BY <1>1
<1>4. n + off = d * q + d
  BY <1>1, <1>2, <1>3
<1>5. d * q + d = d * (q + 1)
  BY <1>1
<1>6. (d * (q + 1)) % d = 0
  <2>1. PICK e \in Nat : e = q + 1
    BY <1>1
  <2>2. (d * e) % d = 0
    OBVIOUS
  <2> QED BY <2>1, <2>2
<1> QED BY <1>3, <1>4, <1>5, <1>6

-----------------------------------------------------------------------------
(* One sender *)

\* An entry of a send completion queue.
Entry == [id : Nat, ok : BOOLEAN]

LEMMA Typed ==
  ASSUME TypeOK, NEW p \in Peers
  PROVE  /\ counter[p] \in Nat /\ posted[p] \in Nat /\ reclaimed[p] \in Nat
         /\ landed[p] \in Nat /\ waits[p] \in Nat /\ rejects[p] \in Nat /\ left[p] \in Nat
         /\ posted[p] <= counter[p] /\ reclaimed[p] <= posted[p] /\ landed[p] <= posted[p]
         /\ posted[p] - reclaimed[p] <= SendDepth
         /\ signalled[p] \subseteq 1 .. posted[p]
         /\ send_cq[p] \in Seq(Entry) /\ Len(send_cq[p]) \in Nat
         /\ \A i \in 1 .. Len(send_cq[p]) :
              send_cq[p][i].id \in Nat /\ send_cq[p][i].ok \in BOOLEAN
         /\ qp[p] \in {"init", "rts", "error"} /\ pc[p] \in {"idle", "saving", "waiting"}
         /\ BatchSize \in Nat \ {0} /\ SendDepth \in Nat /\ SendDepth >= BatchSize
         /\ MaxWrites[p] \in Nat
<1>1. PICK s \in Seq(Entry) : s = send_cq[p]
  <2>1. send_cq \in [Peers -> Seq(Entry)]
    BY Zenon DEF TypeOK, Entry
  <2>2. send_cq[p] \in Seq(Entry)
    BY <2>1
  <2> QED BY <2>2
<1>2. Len(s) \in Nat /\ \A i \in 1 .. Len(s) : s[i] \in Entry
  OBVIOUS
<1>3. \A i \in 1 .. Len(s) : s[i].id \in Nat /\ s[i].ok \in BOOLEAN
  BY <1>2 DEF Entry
<1>4. /\ BatchSize \in Nat \ {0} /\ SendDepth \in Nat /\ SendDepth >= BatchSize
      /\ MaxWrites[p] \in Nat /\ MaxRejects \in Nat /\ WritesPerStep \in Nat
  BY ChannelAssumption
<1>5. /\ counter[p] \in Nat /\ posted[p] \in Nat /\ reclaimed[p] \in Nat
      /\ landed[p] \in Nat /\ waits[p] \in Nat
      /\ qp[p] \in {"init", "rts", "error"} /\ pc[p] \in {"idle", "saving", "waiting"}
  BY DEF TypeOK
<1>6. rejects[p] \in Nat /\ left[p] \in Nat
  <2>1. rejects[p] \in 0 .. MaxRejects /\ left[p] \in 0 .. WritesPerStep
    BY DEF TypeOK
  <2> QED BY <1>4, <2>1
<1>7. /\ posted[p] <= counter[p] /\ reclaimed[p] <= posted[p] /\ landed[p] <= posted[p]
      /\ posted[p] - reclaimed[p] <= SendDepth
      /\ signalled[p] \subseteq 1 .. posted[p]
  BY DEF TypeOK
<1> QED BY <1>1, <1>2, <1>3, <1>4, <1>5, <1>6, <1>7

\* Everything of the sender p.
At(p) == <<qp[p], pc[p], left[p], counter[p], posted[p], reclaimed[p], signalled[p],
           send_cq[p], landed[p], waits[p], rejects[p]>>

LEMMA SameSender ==
  ASSUME NEW p \in Peers, SenderInv(p), At(p)' = At(p)
  PROVE  SenderInv(p)'
<1>1. UNCHANGED <<qp[p], pc[p], left[p], counter[p], posted[p], reclaimed[p], signalled[p],
                  send_cq[p], landed[p], waits[p], rejects[p]>>
  BY DEF At
<1>2. StepBounded(p)'
  BY <1>1 DEF SenderInv, StepBounded
<1>3. CompletionsInOrder(p)'
  BY <1>1 DEF SenderInv, CompletionsInOrder
<1>4. SignalsCounted(p)'
  <2>1. Covered(p)' = Covered(p) /\ \A m : UpTo(p, m)' = UpTo(p, m)
    BY <1>1 DEF Covered, UpTo
  <2> QED BY <1>1, <2>1 DEF SenderInv, SignalsCounted
<1>5. Aligned(p)'
  BY <1>1 DEF SenderInv, Aligned, Stuck
<1> QED BY <1>2, <1>3, <1>4, <1>5 DEF SenderInv

\* An action of one sender is no business of another.
LEMMA OneSender ==
  ASSUME TypeOK, NEW p \in Peers, NEW q \in Peers, q # p,
         \/ ConnectSender(p) \/ Sender(p) \/ Land(p) \/ RetriesExceeded(p)
  PROVE  At(q)' = At(q)
<1> USE DEF TypeOK, At
<1>1. CASE ConnectSender(p) \/ StartStep(p)
  BY <1>1 DEF ConnectSender, StartStep
<1>2. CASE Write(p)
  BY <1>2 DEF Write, Advance
<1>3. CASE WriteFails(p) \/ WriteRejected(p)
  BY <1>3 DEF WriteFails, WriteRejected, GiveUp
<1>4. CASE Wait(p)
  BY <1>4 DEF Wait
<1>5. CASE Land(p)
  BY <1>5 DEF Land
<1>6. CASE RetriesExceeded(p)
  BY <1>6 DEF RetriesExceeded
<1> QED BY <1>1, <1>2, <1>3, <1>4, <1>5, <1>6 DEF Sender

\* What is signalled is finite.
LEMMA Signals ==
  ASSUME TypeOK, NEW p \in Peers, NEW S, S \subseteq signalled[p]
  PROVE  IsFiniteSet(S) /\ Cardinality(S) \in Nat
<1>1. posted[p] \in Nat /\ signalled[p] \subseteq 1 .. posted[p]
  BY Typed
<1>2. IsFiniteSet(1 .. posted[p])
  <2>1. PICK a \in Int, b \in Int : a = 1 /\ b = posted[p]
    BY <1>1
  <2> QED BY <2>1, FS_Interval, Zenon
<1>3. IsFiniteSet(S)
  BY <1>1, <1>2, FS_Subset
<1> QED BY <1>3, FS_CardinalityType

\* Nothing was signalled, and more was called, landed or reclaimed.
LEMMA CountedStays ==
  ASSUME TypeOK, NEW p \in Peers, SignalsCounted(p),
         signalled'[p] = signalled[p], posted'[p] = posted[p], waits'[p] = waits[p],
         counter'[p] \in Nat, counter'[p] >= counter[p],
         reclaimed'[p] \in Nat, reclaimed'[p] >= reclaimed[p],
         landed'[p] \in Nat, landed'[p] >= landed[p]
  PROVE  SignalsCounted(p)'
<1>1. PICK b : b = BatchSize
  OBVIOUS
<1>2. b \in Nat /\ counter[p] \in Nat /\ posted[p] \in Nat /\ reclaimed[p] \in Nat
      /\ landed[p] \in Nat /\ waits[p] \in Nat /\ signalled[p] \subseteq 1 .. posted[p]
  BY <1>1, Typed
<1>3. Cardinality(signalled[p]) * b \in Nat
  BY <1>2, Signals
<1>4. Cardinality(signalled'[p]) * b <= counter'[p]
  BY <1>1, <1>2, <1>3 DEF SignalsCounted
<1>5. ASSUME NEW m \in 0 .. posted'[p]
      PROVE  Cardinality(UpTo(p, m)') * b <= m + (counter'[p] - posted'[p])
  <2>1. UpTo(p, m)' = UpTo(p, m) /\ UpTo(p, m) \subseteq signalled[p]
    BY DEF UpTo
  <2>2. PICK k \in Nat : k = Cardinality(UpTo(p, m))
    BY <2>1, Signals
  <2>3. k * b <= m + (counter[p] - posted[p]) /\ k * b \in Nat
    BY <1>1, <1>2, <2>2 DEF SignalsCounted
  <2> QED BY <1>2, <2>1, <2>2, <2>3
<1>6. waits'[p] <= Cardinality(Covered(p)')
  <2>1. Covered(p) \subseteq Covered(p)'
    BY <1>2 DEF Covered
  <2>2. Covered(p)' \subseteq signalled[p] /\ Covered(p) \subseteq signalled[p]
    BY DEF Covered
  <2>3. Cardinality(Covered(p)) <= Cardinality(Covered(p)')
    BY <2>1, <2>2, Signals, FS_Subset
  <2>4. Cardinality(Covered(p)) \in Nat /\ Cardinality(Covered(p)') \in Nat
    BY <2>2, Signals
  <2> QED BY <1>2, <2>3, <2>4 DEF SignalsCounted
<1> QED BY <1>1, <1>4, <1>5, <1>6 DEF SignalsCounted

-----------------------------------------------------------------------------
(* What the steps of a sender keep *)

\* What a step that posts and polls nothing leaves.
LEMMA NothingPosted ==
  ASSUME TypeOK, NEW p \in Peers, CompletionsInOrder(p),
         UNCHANGED <<signalled[p], send_cq[p], posted[p], reclaimed[p], landed[p]>>,
         \/ qp'[p] = qp[p]
         \/ qp[p] = "init" /\ qp'[p] = "rts"
  PROVE  CompletionsInOrder(p)'
<1>1. CASE qp'[p] = qp[p]
  BY <1>1 DEF CompletionsInOrder
<1>2. CASE qp[p] = "init" /\ qp'[p] = "rts"
  <2>1. posted[p] = 0
    BY <1>2 DEF CompletionsInOrder
  <2>2. \A i \in 1 .. Len(send_cq[p]) : FALSE
    <3> SUFFICES ASSUME NEW i \in 1 .. Len(send_cq[p]) PROVE FALSE
      OBVIOUS
    <3>1. /\ reclaimed[p] < send_cq[p][i].id /\ send_cq[p][i].id <= posted[p]
          /\ send_cq[p][i].id \in Nat /\ reclaimed[p] \in Nat
      BY Typed DEF CompletionsInOrder
    <3> QED BY <2>1, <3>1
  <2>3. signalled[p] = {} /\ reclaimed[p] = 0 /\ landed[p] = 0
    BY <2>1, Typed
  <2> QED BY <1>2, <2>1, <2>2, <2>3 DEF CompletionsInOrder
<1> QED BY <1>1, <1>2

LEMMA ConnectKeeps ==
  ASSUME TypeOK, NEW p \in Peers, SenderInv(p), ConnectSender(p)
  PROVE  SenderInv(p)'
<1>1. /\ qp[p] = "init" /\ qp'[p] = "rts"
      /\ UNCHANGED <<pc, left, counter, posted, reclaimed, signalled, send_cq, landed, waits,
                     rejects>>
  BY DEF ConnectSender, TypeOK
<1>2. StepBounded(p)'
  BY <1>1 DEF SenderInv, StepBounded
<1>3. CompletionsInOrder(p)'
  BY <1>1, NothingPosted DEF SenderInv
<1>4. SignalsCounted(p)'
  <2>1. /\ counter'[p] \in Nat /\ counter'[p] >= counter[p] /\ SignalsCounted(p)
        /\ reclaimed'[p] \in Nat /\ reclaimed'[p] >= reclaimed[p]
        /\ landed'[p] \in Nat /\ landed'[p] >= landed[p]
        /\ signalled'[p] = signalled[p] /\ posted'[p] = posted[p] /\ waits'[p] = waits[p]
    BY <1>1, Typed DEF SenderInv
  <2> QED BY <2>1, CountedStays, Zenon
<1>5. Aligned(p)'
  BY <1>1 DEF SenderInv, Aligned, Stuck
<1> QED BY <1>2, <1>3, <1>4, <1>5 DEF SenderInv

LEMMA StartStepKeeps ==
  ASSUME TypeOK, NEW p \in Peers, SenderInv(p), StartStep(p)
  PROVE  SenderInv(p)'
<1>1. /\ pc[p] = "idle" /\ counter[p] + WritesPerStep <= MaxWrites[p]
      /\ pc'[p] = "saving" /\ left'[p] = WritesPerStep
      /\ UNCHANGED <<qp, counter, posted, reclaimed, signalled, send_cq, landed, waits, rejects>>
  BY DEF StartStep, TypeOK
<1>2. StepBounded(p)'
  BY <1>1, ChannelAssumption DEF StepBounded
<1>3. CompletionsInOrder(p)'
  BY <1>1, NothingPosted DEF SenderInv
<1>4. SignalsCounted(p)'
  <2>1. /\ counter'[p] \in Nat /\ counter'[p] >= counter[p] /\ SignalsCounted(p)
        /\ reclaimed'[p] \in Nat /\ reclaimed'[p] >= reclaimed[p]
        /\ landed'[p] \in Nat /\ landed'[p] >= landed[p]
        /\ signalled'[p] = signalled[p] /\ posted'[p] = posted[p] /\ waits'[p] = waits[p]
    BY <1>1, Typed DEF SenderInv
  <2> QED BY <2>1, CountedStays, Zenon
<1>5. Aligned(p)'
  BY <1>1 DEF SenderInv, Aligned, Stuck
<1> QED BY <1>2, <1>3, <1>4, <1>5 DEF SenderInv

LEMMA WriteFailsKeeps ==
  ASSUME TypeOK, NEW p \in Peers, SenderInv(p), WriteFails(p)
  PROVE  SenderInv(p)'
<1>1. /\ pc[p] = "saving" /\ counter'[p] = counter[p] + 1
      /\ qp[p] = "init" \/ posted[p] - reclaimed[p] = SendDepth
      /\ left'[p] = 0 /\ pc'[p] = "idle"
      /\ UNCHANGED <<qp, posted, reclaimed, signalled, send_cq, landed, waits, rejects>>
  BY DEF WriteFails, GiveUp, TypeOK
<1>2. StepBounded(p)'
  BY <1>1, Typed DEF SenderInv, StepBounded
<1>3. CompletionsInOrder(p)'
  BY <1>1, NothingPosted DEF SenderInv
<1>4. SignalsCounted(p)'
  <2>1. /\ counter'[p] \in Nat /\ counter'[p] >= counter[p] /\ SignalsCounted(p)
        /\ reclaimed'[p] \in Nat /\ reclaimed'[p] >= reclaimed[p]
        /\ landed'[p] \in Nat /\ landed'[p] >= landed[p]
        /\ signalled'[p] = signalled[p] /\ posted'[p] = posted[p] /\ waits'[p] = waits[p]
    BY <1>1, Typed DEF SenderInv
  <2> QED BY <2>1, CountedStays, Zenon
<1>5. Aligned(p)'
  <2>1. CASE posted[p] - reclaimed[p] = SendDepth
    BY <1>1, <2>1 DEF SenderInv, Aligned, Stuck
  <2>2. CASE qp[p] = "init"
    <3>1. posted[p] = 0 /\ posted'[p] = 0
      BY <1>1, <2>2 DEF SenderInv, CompletionsInOrder
    <3>2. counter'[p] - posted'[p] \in Nat
      BY <1>1, <3>1, Typed
    <3> QED BY <3>1, <3>2 DEF Aligned
  <2> QED BY <1>1, <2>1, <2>2
<1> QED BY <1>2, <1>3, <1>4, <1>5 DEF SenderInv

LEMMA WriteRejectedKeeps ==
  ASSUME TypeOK, NEW p \in Peers, SenderInv(p), WriteRejected(p)
  PROVE  SenderInv(p)'
<1>1. /\ pc[p] = "saving" /\ counter'[p] = counter[p] + 1
      /\ rejects'[p] = rejects[p] + 1 /\ left'[p] = 0 /\ pc'[p] = "idle"
      /\ UNCHANGED <<qp, posted, reclaimed, signalled, send_cq, landed, waits>>
  BY DEF WriteRejected, GiveUp, TypeOK
<1>2. StepBounded(p)'
  BY <1>1, Typed DEF SenderInv, StepBounded
<1>3. CompletionsInOrder(p)'
  BY <1>1, NothingPosted DEF SenderInv
<1>4. SignalsCounted(p)'
  <2>1. /\ counter'[p] \in Nat /\ counter'[p] >= counter[p] /\ SignalsCounted(p)
        /\ reclaimed'[p] \in Nat /\ reclaimed'[p] >= reclaimed[p]
        /\ landed'[p] \in Nat /\ landed'[p] >= landed[p]
        /\ signalled'[p] = signalled[p] /\ posted'[p] = posted[p] /\ waits'[p] = waits[p]
    BY <1>1, Typed DEF SenderInv
  <2> QED BY <2>1, CountedStays, Zenon
<1>5. Aligned(p)'
  BY <1>1, Typed DEF Aligned
<1> QED BY <1>2, <1>3, <1>4, <1>5 DEF SenderInv

LEMMA LandKeeps ==
  ASSUME TypeOK, NEW p \in Peers, SenderInv(p), Land(p)
  PROVE  SenderInv(p)'
<1>1. PICK n, s, e : n = landed[p] + 1 /\ s = send_cq[p] /\ e = [id |-> n, ok |-> TRUE]
  OBVIOUS
<1>2. /\ qp[p] = "rts" /\ n <= posted[p] /\ landed'[p] = n
      /\ send_cq'[p] = IF n \in signalled[p] THEN Append(s, e) ELSE s
      /\ UNCHANGED <<qp, pc, left, counter, posted, reclaimed, signalled, waits, rejects>>
  BY <1>1 DEF Land, TypeOK
<1>3. /\ n \in Nat /\ landed[p] < n /\ landed[p] \in Nat /\ posted[p] \in Nat
      /\ reclaimed[p] \in Nat /\ s \in Seq(Entry) /\ Len(s) \in Nat /\ e \in Entry
      /\ e.id = n /\ e.ok = TRUE
      /\ \A i \in 1 .. Len(s) : s[i].id \in Nat
      /\ signalled[p] \subseteq 1 .. posted[p]
  <2>1. n \in Nat /\ landed[p] < n /\ landed[p] \in Nat
    BY <1>1, Typed
  <2>2. /\ posted[p] \in Nat /\ reclaimed[p] \in Nat /\ signalled[p] \subseteq 1 .. posted[p]
        /\ send_cq[p] \in Seq(Entry) /\ Len(send_cq[p]) \in Nat
        /\ \A i \in 1 .. Len(send_cq[p]) : send_cq[p][i].id \in Nat
    BY Typed
  <2>3. e \in Entry /\ e.id = n /\ e.ok = TRUE
    BY <1>1, <2>1 DEF Entry
  <2> QED BY <1>1, <2>1, <2>2, <2>3
<1>4. StepBounded(p)'
  BY <1>2 DEF SenderInv, StepBounded
<1>5. CompletionsInOrder(p)'
  <2>1. /\ \A i, j \in 1 .. Len(s) : i < j => s[i].id < s[j].id
        /\ \A i \in 1 .. Len(s) :
             /\ reclaimed[p] < s[i].id /\ s[i].id <= landed[p]
             /\ s[i].ok => s[i].id \in signalled[p]
        /\ \A m \in signalled[p] :
             reclaimed[p] < m /\ m <= landed[p] => \E i \in 1 .. Len(s) : s[i].id = m
        /\ reclaimed[p] <= landed[p]
    BY <1>1, <1>2, <1>3 DEF SenderInv, CompletionsInOrder
  <2>2. \A m \in signalled[p] : m <= n => m <= landed[p] \/ m = n
    BY <1>1, <1>3
  <2>3. CASE n \notin signalled[p]
    <3>1. send_cq'[p] = s
      BY <1>2, <2>3
    <3>2. \A i \in 1 .. Len(s) : s[i].id <= n /\ s[i].id <= posted[p]
      BY <1>2, <1>3, <2>1
    <3>3. \A m \in signalled[p] :
            reclaimed[p] < m /\ m <= n => \E i \in 1 .. Len(s) : s[i].id = m
      BY <2>1, <2>2, <2>3
    <3>4. reclaimed[p] <= n
      BY <1>3, <2>1
    <3> QED BY <1>2, <2>1, <3>1, <3>2, <3>3, <3>4 DEF CompletionsInOrder
  <2>4. CASE n \in signalled[p]
    <3>1. PICK t : t = Append(s, e)
      OBVIOUS
    <3>2. /\ t \in Seq(Entry) /\ Len(t) = Len(s) + 1 /\ t[Len(s) + 1] = e
          /\ \A i \in 1 .. Len(s) : t[i] = s[i]
      BY <1>3, <3>1
    <3>3. \A i \in 1 .. Len(t) : i \in 1 .. Len(s) \/ i = Len(s) + 1
      BY <1>3, <3>2
    <3>4. \A i \in 1 .. Len(t) : t[i].id \in Nat /\ (i <= Len(s) => t[i].id < n)
                                 /\ (i = Len(s) + 1 => t[i].id = n)
      BY <1>3, <2>1, <3>2, <3>3, SMTT(30)
    <3>5. \A i, j \in 1 .. Len(t) : i < j => t[i].id < t[j].id
      <4> SUFFICES ASSUME NEW i \in 1 .. Len(t), NEW j \in 1 .. Len(t), i < j
                   PROVE  t[i].id < t[j].id
        OBVIOUS
      <4>1. i \in 1 .. Len(s)
        BY <1>3, <3>2
      <4>2. CASE j \in 1 .. Len(s)
        BY <2>1, <3>2, <4>1, <4>2
      <4>3. CASE j = Len(s) + 1
        BY <3>4, <4>1, <4>3
      <4> QED BY <3>3, <4>2, <4>3
    <3>6. \A i \in 1 .. Len(t) :
            /\ reclaimed[p] < t[i].id /\ t[i].id <= n /\ t[i].id <= posted[p]
            /\ t[i].ok => t[i].id \in signalled[p]
      <4> SUFFICES ASSUME NEW i \in 1 .. Len(t)
                   PROVE  /\ reclaimed[p] < t[i].id /\ t[i].id <= n /\ t[i].id <= posted[p]
                          /\ t[i].ok => t[i].id \in signalled[p]
        OBVIOUS
      <4>0. n <= posted[p] /\ reclaimed[p] < n
        BY <1>2, <1>3, <2>1
      <4>1. CASE i \in 1 .. Len(s)
        <5>1. /\ t[i] = s[i] /\ reclaimed[p] < s[i].id /\ s[i].id <= landed[p]
              /\ s[i].ok => s[i].id \in signalled[p]
          BY <2>1, <3>2, <4>1, Zenon
        <5>2. s[i].id \in Nat /\ landed[p] \in Nat /\ landed[p] < n
              /\ n \in Nat /\ posted[p] \in Nat
          BY <1>3, <4>1
        <5> QED BY <4>0, <5>1, <5>2
      <4>2. CASE i = Len(s) + 1
        BY <1>3, <2>4, <3>2, <4>0, <4>2
      <4> QED BY <3>3, <4>1, <4>2
    <3>7. \A m \in signalled[p] :
            reclaimed[p] < m /\ m <= n => \E i \in 1 .. Len(t) : t[i].id = m
      <4> SUFFICES ASSUME NEW m \in signalled[p], reclaimed[p] < m, m <= n
                   PROVE  \E i \in 1 .. Len(t) : t[i].id = m
        OBVIOUS
      <4>1. CASE m = n
        <5>1. Len(s) + 1 \in 1 .. Len(t)
          BY <1>3, <3>2
        <5> QED BY <1>3, <3>2, <4>1, <5>1
      <4>2. CASE m <= landed[p]
        <5>1. PICK i \in 1 .. Len(s) : s[i].id = m
          BY <2>1, <4>2
        <5>2. i \in 1 .. Len(t) /\ t[i] = s[i]
          BY <1>3, <3>2
        <5> QED BY <5>1, <5>2
      <4> QED BY <2>2, <4>1, <4>2
    <3>8. send_cq'[p] = t /\ reclaimed[p] <= n
      BY <1>2, <1>3, <2>1, <2>4, <3>1
    <3> QED BY <1>2, <3>5, <3>6, <3>7, <3>8 DEF CompletionsInOrder
  <2> QED BY <2>3, <2>4
<1>6. SignalsCounted(p)'
  <2>1. /\ counter'[p] \in Nat /\ counter'[p] >= counter[p] /\ SignalsCounted(p)
        /\ reclaimed'[p] \in Nat /\ reclaimed'[p] >= reclaimed[p]
        /\ landed'[p] \in Nat /\ landed'[p] >= landed[p]
        /\ signalled'[p] = signalled[p] /\ posted'[p] = posted[p] /\ waits'[p] = waits[p]
    BY <1>2, <1>3, Typed DEF SenderInv
  <2> QED BY <2>1, CountedStays, Zenon
<1>7. Aligned(p)'
  BY <1>2 DEF SenderInv, Aligned, Stuck
<1> QED BY <1>4, <1>5, <1>6, <1>7 DEF SenderInv

\* One more entry at the end of a completion queue.
LEMMA EntryAdded ==
  ASSUME NEW s \in Seq(Entry), NEW e \in Entry, NEW m \in Nat,
         \A i, j \in 1 .. Len(s) : i < j => s[i].id < s[j].id,
         \A i \in 1 .. Len(s) : s[i].id <= m,
         e.id > m
  PROVE  /\ Len(s) \in Nat /\ Len(Append(s, e)) = Len(s) + 1
         /\ \A i \in 1 .. Len(s) : Append(s, e)[i] = s[i] /\ i \in 1 .. Len(Append(s, e))
         /\ Append(s, e)[Len(s) + 1] = e /\ Len(s) + 1 \in 1 .. Len(Append(s, e))
         /\ \A i \in 1 .. Len(Append(s, e)) : i \in 1 .. Len(s) \/ i = Len(s) + 1
         /\ \A i, j \in 1 .. Len(Append(s, e)) :
              i < j => Append(s, e)[i].id < Append(s, e)[j].id
<1>1. PICK t : t = Append(s, e)
  OBVIOUS
<1>2. /\ Len(s) \in Nat /\ Len(t) = Len(s) + 1 /\ t[Len(s) + 1] = e
      /\ \A i \in 1 .. Len(s) : t[i] = s[i] /\ s[i] \in Entry
  BY <1>1
<1>3. e.id \in Nat /\ \A i \in 1 .. Len(s) : s[i].id \in Nat
  BY <1>2 DEF Entry
<1>4. \A i \in 1 .. Len(t) : i \in 1 .. Len(s) \/ i = Len(s) + 1
  BY <1>2
<1>5. ASSUME NEW i \in 1 .. Len(t), NEW j \in 1 .. Len(t), i < j
      PROVE  t[i].id < t[j].id
  <2>1. i \in 1 .. Len(s)
    BY <1>2, <1>5
  <2>2. CASE j \in 1 .. Len(s)
    BY <1>2, <1>5, <2>1, <2>2
  <2>3. CASE j = Len(s) + 1
    BY <1>2, <1>3, <2>1, <2>3
  <2> QED BY <1>4, <2>2, <2>3
<1>6. Len(s) + 1 \in 1 .. Len(t) /\ \A i \in 1 .. Len(s) : i \in 1 .. Len(t)
  BY <1>2
<1> QED BY <1>1, <1>2, <1>4, <1>5, <1>6

\* What rdma_write does to one sender.
LEMMA Written ==
  ASSUME TypeOK, NEW p \in Peers, SenderInv(p), Write(p)
  PROVE  /\ pc[p] = "saving" /\ counter'[p] = counter[p] + 1 /\ posted'[p] = posted[p] + 1
         /\ qp[p] \in {"rts", "error"} /\ posted[p] - reclaimed[p] < SendDepth
         /\ signalled'[p] = IF SignalNow(p) THEN signalled[p] \cup {posted[p] + 1}
                            ELSE signalled[p]
         /\ send_cq'[p] = IF qp[p] = "error"
                          THEN Append(send_cq[p], [id |-> posted[p] + 1, ok |-> FALSE])
                          ELSE send_cq[p]
         /\ left'[p] = left[p] - 1
         /\ pc'[p] = IF left[p] = 1 THEN "waiting" ELSE "saving"
         /\ UNCHANGED <<qp, reclaimed, landed, waits, rejects>>
<1>1. qp[p] \in {"rts", "error"}
  BY Typed DEF Write
<1>2. /\ counter'[p] = counter[p] + 1 /\ posted'[p] = posted[p] + 1
      /\ left'[p] = left[p] - 1 /\ pc'[p] = IF left[p] = 1 THEN "waiting" ELSE "saving"
  BY DEF Write, Advance, TypeOK
<1>3. signalled'[p] = IF SignalNow(p) THEN signalled[p] \cup {posted[p] + 1}
                      ELSE signalled[p]
  BY DEF Write, TypeOK
<1>4. send_cq'[p] = IF qp[p] = "error"
                    THEN Append(send_cq[p], [id |-> posted[p] + 1, ok |-> FALSE])
                    ELSE send_cq[p]
  BY DEF Write, TypeOK
<1> QED BY <1>1, <1>2, <1>3, <1>4 DEF Write

LEMMA WriteKeepsOrder ==
  ASSUME TypeOK, NEW p \in Peers, SenderInv(p), Write(p)
  PROVE  CompletionsInOrder(p)'
<1>1. PICK n, s, e : n = posted[p] + 1 /\ s = send_cq[p] /\ e = [id |-> n, ok |-> FALSE]
  OBVIOUS
<1>2. /\ posted'[p] = n /\ qp[p] \in {"rts", "error"}
      /\ signalled'[p] \subseteq signalled[p] \cup {n} /\ signalled[p] \subseteq signalled'[p]
      /\ send_cq'[p] = IF qp[p] = "error" THEN Append(s, e) ELSE s
      /\ UNCHANGED <<qp[p], reclaimed[p], landed[p]>>
  BY <1>1, Written
<1>3. /\ n \in Nat /\ landed[p] < n /\ landed[p] \in Nat /\ posted[p] \in Nat
      /\ reclaimed[p] \in Nat /\ reclaimed[p] < n /\ s \in Seq(Entry)
      /\ signalled[p] \subseteq 1 .. posted[p]
      /\ \A i \in 1 .. Len(s) : s[i].id \in Nat
  <2>1. n \in Nat /\ landed[p] < n /\ landed[p] \in Nat /\ posted[p] \in Nat
        /\ reclaimed[p] \in Nat /\ reclaimed[p] < n
    BY <1>1, Typed
  <2>2. s \in Seq(Entry) /\ signalled[p] \subseteq 1 .. posted[p]
        /\ \A i \in 1 .. Len(s) : s[i].id \in Nat
    BY <1>1, Typed
  <2> QED BY <2>1, <2>2
<1>4. /\ \A i, j \in 1 .. Len(s) : i < j => s[i].id < s[j].id
      /\ \A i \in 1 .. Len(s) :
           /\ reclaimed[p] < s[i].id /\ s[i].id <= posted[p]
           /\ s[i].ok => s[i].id \in signalled[p] /\ s[i].id <= landed[p]
           /\ qp[p] = "rts" => s[i].id <= landed[p]
      /\ \A m \in signalled[p] :
           reclaimed[p] < m /\ m <= landed[p] => \E i \in 1 .. Len(s) : s[i].id = m
      /\ qp[p] = "rts" => reclaimed[p] <= landed[p]
  BY <1>1 DEF SenderInv, CompletionsInOrder
<1>5. \A m \in signalled'[p] : m <= landed[p] => m \in signalled[p]
  BY <1>2, <1>3
<1>6. \A i \in 1 .. Len(s) : s[i].id <= n
  BY <1>1, <1>3, <1>4
<1>7. CASE qp[p] = "rts"
  <2>1. send_cq'[p] = s /\ qp'[p] = "rts"
    BY <1>2, <1>7
  <2> QED BY <1>2, <1>4, <1>5, <1>6, <1>7, <2>1 DEF CompletionsInOrder
<1>8. CASE qp[p] = "error"
  <2>1. PICK t : t = Append(s, e)
    OBVIOUS
  <2>2. e \in Entry /\ e.id = n /\ e.ok = FALSE /\ n > posted[p]
    BY <1>1, <1>3 DEF Entry
  <2>3. /\ Len(s) \in Nat /\ Len(t) = Len(s) + 1
        /\ \A i \in 1 .. Len(s) : t[i] = s[i] /\ i \in 1 .. Len(t)
        /\ t[Len(s) + 1] = e
        /\ \A i \in 1 .. Len(t) : i \in 1 .. Len(s) \/ i = Len(s) + 1
        /\ \A i, j \in 1 .. Len(t) : i < j => t[i].id < t[j].id
    <3>1. \A i \in 1 .. Len(s) : s[i].id <= posted[p]
      BY <1>4
    <3>2. /\ s \in Seq(Entry) /\ e \in Entry /\ posted[p] \in Nat /\ e.id > posted[p]
          /\ \A i, j \in 1 .. Len(s) : i < j => s[i].id < s[j].id
      BY <1>3, <1>4, <2>2
    <3> QED BY <2>1, <3>1, <3>2, EntryAdded, Zenon
  <2>4. \A i \in 1 .. Len(t) :
          /\ reclaimed[p] < t[i].id /\ t[i].id <= n
          /\ t[i].ok => t[i].id \in signalled'[p] /\ t[i].id <= landed[p]
    <3> SUFFICES ASSUME NEW i \in 1 .. Len(t)
                 PROVE  /\ reclaimed[p] < t[i].id /\ t[i].id <= n
                        /\ t[i].ok => t[i].id \in signalled'[p] /\ t[i].id <= landed[p]
      OBVIOUS
    <3>1. CASE i \in 1 .. Len(s)
      BY <1>2, <1>4, <1>6, <2>3, <3>1
    <3>2. CASE i = Len(s) + 1
      BY <1>3, <2>2, <2>3, <3>2
    <3> QED BY <2>3, <3>1, <3>2
  <2>5. \A m \in signalled'[p] :
          reclaimed[p] < m /\ m <= landed[p] => \E i \in 1 .. Len(t) : t[i].id = m
    BY <1>4, <1>5, <2>3
  <2>6. send_cq'[p] = t /\ qp'[p] = "error"
    BY <1>2, <1>8, <2>1
  <2> QED BY <1>2, <2>3, <2>4, <2>5, <2>6 DEF CompletionsInOrder
<1> QED BY <1>2, <1>7, <1>8

LEMMA WriteKeepsCount ==
  ASSUME TypeOK, NEW p \in Peers, SenderInv(p), Write(p)
  PROVE  SignalsCounted(p)'
<1>1. PICK b, n, S : b = BatchSize /\ n = posted[p] + 1 /\ S = signalled[p]
  OBVIOUS
<1>2. /\ posted'[p] = n /\ counter'[p] = counter[p] + 1
      /\ signalled'[p] = IF (counter[p] + 1) % b = 0 THEN S \cup {n} ELSE S
      /\ UNCHANGED <<reclaimed[p], landed[p], waits[p]>>
  BY <1>1, Written DEF SignalNow
<1>3. /\ b \in Nat \ {0} /\ n \in Nat \ {0} /\ posted[p] \in Nat /\ counter[p] \in Nat
      /\ posted[p] <= counter[p] /\ landed[p] < n /\ landed[p] \in Nat
      /\ reclaimed[p] \in Nat /\ S \subseteq 1 .. posted[p]
  <2>1. /\ b \in Nat \ {0} /\ n \in Nat \ {0} /\ posted[p] \in Nat /\ counter[p] \in Nat
        /\ posted[p] <= counter[p] /\ landed[p] < n /\ landed[p] \in Nat
        /\ reclaimed[p] \in Nat
    BY <1>1, Typed
  <2>2. S \subseteq 1 .. posted[p]
    BY <1>1, Typed
  <2> QED BY <2>1, <2>2
<1>4. PICK k \in Nat : k = Cardinality(S)
  BY <1>1, Signals
<1>5. k * b <= counter[p] /\ k * b \in Nat
  BY <1>1, <1>3, <1>4 DEF SenderInv, SignalsCounted
<1>6. PICK j \in Nat : /\ j = Cardinality(signalled'[p])
                       /\ j * b <= counter[p] + 1 /\ j * b \in Nat
  <2>1. CASE (counter[p] + 1) % b = 0
    <3>1. n \notin S /\ IsFiniteSet(S)
      BY <1>1, <1>3, Signals
    <3>2. Cardinality(S \cup {n}) = k + 1
      BY <1>4, <3>1, FS_AddElement
    <3>3. (k + 1) * b <= counter[p] + 1
      BY <1>3, <1>5, <2>1, MultipleReached
    <3>4. PICK j \in Nat : j = k + 1
      OBVIOUS
    <3>5. j * b \in Nat
      BY <1>3
    <3> QED BY <1>2, <2>1, <3>2, <3>3, <3>4, <3>5
  <2>2. CASE ~((counter[p] + 1) % b = 0)
    <3>1. k = Cardinality(signalled'[p])
      BY <1>2, <1>4, <2>2
    <3>2. k * b <= counter[p] + 1
      BY <1>3, <1>5
    <3> QED BY <1>5, <3>1, <3>2
  <2> QED BY <2>1, <2>2
<1>7. ASSUME NEW m \in 0 .. posted'[p]
      PROVE  Cardinality(UpTo(p, m)') * b <= m + (counter'[p] - posted'[p])
  <2>1. CASE m <= posted[p]
    <3>1. UpTo(p, m)' = UpTo(p, m)
      BY <1>1, <1>2, <1>3, <2>1 DEF UpTo
    <3>2. m \in 0 .. posted[p]
      BY <1>2, <1>3, <2>1
    <3>3. Cardinality(UpTo(p, m)) * b <= m + (counter[p] - posted[p])
      BY <1>1, <3>2 DEF SenderInv, SignalsCounted
    <3>4. m + (counter'[p] - posted'[p]) = m + (counter[p] - posted[p])
      BY <1>1, <1>2, <1>3
    <3> QED BY <3>1, <3>3, <3>4
  <2>2. CASE m = n
    <3>1. UpTo(p, m)' = signalled'[p]
      BY <1>1, <1>2, <1>3, <2>2 DEF UpTo
    <3>2. m + (counter'[p] - posted'[p]) = counter[p] + 1
      BY <1>1, <1>2, <1>3, <2>2
    <3> QED BY <1>6, <3>1, <3>2
  <2>3. m <= posted[p] \/ m = n
    BY <1>1, <1>2, <1>3
  <2> QED BY <2>1, <2>2, <2>3
<1>8. Covered(p)' = Covered(p)
  BY <1>1, <1>2, <1>3 DEF Covered
<1> QED BY <1>1, <1>2, <1>6, <1>7, <1>8 DEF SenderInv, SignalsCounted

LEMMA WriteKeeps ==
  ASSUME TypeOK, NEW p \in Peers, SenderInv(p), Write(p)
  PROVE  SenderInv(p)'
<1>1. StepBounded(p)'
  <2>1. counter[p] \in Nat /\ left[p] \in Nat /\ MaxWrites[p] \in Nat
    BY Typed
  <2>2. /\ pc[p] = "saving" /\ counter'[p] = counter[p] + 1 /\ left'[p] = left[p] - 1
        /\ pc'[p] = IF left[p] = 1 THEN "waiting" ELSE "saving"
    BY Written
  <2>3. counter[p] + left[p] <= MaxWrites[p] /\ left[p] > 0
    BY <2>2 DEF SenderInv, StepBounded
  <2>4. counter'[p] + left'[p] <= MaxWrites[p] /\ (pc'[p] = "saving" => left'[p] > 0)
    BY <2>1, <2>2, <2>3
  <2> QED BY <2>4 DEF StepBounded
<1>2. Aligned(p)'
  <2> SUFFICES ASSUME rejects'[p] = 0
               PROVE  \E off \in Nat :
                        /\ \A n \in 1 .. posted'[p] :
                             n \in signalled'[p] <=> (n + off) % BatchSize = 0
                        /\ off = counter'[p] - posted'[p]
    BY DEF Aligned
  <2>1. /\ posted'[p] = posted[p] + 1 /\ counter'[p] = counter[p] + 1
        /\ signalled'[p] = IF SignalNow(p) THEN signalled[p] \cup {posted[p] + 1}
                           ELSE signalled[p]
        /\ rejects[p] = 0 /\ posted[p] - reclaimed[p] < SendDepth
    BY Written
  <2>2. posted[p] \in Nat /\ counter[p] \in Nat /\ reclaimed[p] \in Nat /\ SendDepth \in Nat
    BY Typed
  <2>3. signalled[p] \subseteq 1 .. posted[p]
    BY Typed
  <2>4. PICK off \in Nat :
          /\ \A n \in 1 .. posted[p] : n \in signalled[p] <=> (n + off) % BatchSize = 0
          /\ off = counter[p] - posted[p]
    <3>1. ~Stuck(p)
      BY <2>1, <2>2 DEF Stuck
    <3> QED BY <2>1, <3>1 DEF SenderInv, Aligned
  <2>5. ASSUME NEW n \in 1 .. posted'[p]
        PROVE  n \in signalled'[p] <=> (n + off) % BatchSize = 0
    <3>1. CASE n = posted[p] + 1
      <4>1. n \notin signalled[p]
        BY <2>2, <2>3, <3>1
      <4>2. n + off = counter[p] + 1
        BY <2>2, <2>4, <3>1
      <4>3. SignalNow(p) <=> (n + off) % BatchSize = 0
        BY <4>2 DEF SignalNow
      <4> QED BY <2>1, <3>1, <4>1, <4>3
    <3>2. CASE n \in 1 .. posted[p]
      <4>1. n # posted[p] + 1
        BY <2>2, <3>2
      <4> QED BY <2>1, <2>4, <3>2, <4>1
    <3> QED BY <2>1, <2>2, <3>1, <3>2
  <2>6. off = counter'[p] - posted'[p]
    BY <2>1, <2>2, <2>4
  <2> QED BY <2>5, <2>6
<1> QED BY <1>1, <1>2, WriteKeepsOrder, WriteKeepsCount DEF SenderInv

LEMMA WaitKeepsOrder ==
  ASSUME TypeOK, NEW p \in Peers, SenderInv(p), Wait(p)
  PROVE  CompletionsInOrder(p)'
<1>1. PICK s, t : s = send_cq[p] /\ t = Tail(s)
  OBVIOUS
<1>2. /\ s # <<>> /\ reclaimed'[p] = Head(s).id /\ send_cq'[p] = t
      /\ UNCHANGED <<qp, posted, signalled, landed>>
  BY <1>1 DEF Wait, TypeOK
<1>3. s \in Seq(Entry)
  BY <1>1, Typed
<1>4. /\ Len(s) \in Nat \ {0} /\ Len(t) = Len(s) - 1 /\ Head(s) = s[1]
      /\ \A i \in 1 .. Len(t) : t[i] = s[i + 1] /\ i + 1 \in 1 .. Len(s)
      /\ 1 \in 1 .. Len(s)
  BY <1>1, <1>2, <1>3
<1>5. /\ \A i, j \in 1 .. Len(s) : i < j => s[i].id < s[j].id
      /\ \A i \in 1 .. Len(s) :
           /\ reclaimed[p] < s[i].id /\ s[i].id <= posted[p]
           /\ s[i].ok => s[i].id \in signalled[p] /\ s[i].id <= landed[p]
           /\ qp[p] = "rts" => s[i].id <= landed[p]
      /\ \A m \in signalled[p] :
           reclaimed[p] < m /\ m <= landed[p] => \E i \in 1 .. Len(s) : s[i].id = m
      /\ qp[p] = "init" => posted[p] = 0
  BY <1>1 DEF SenderInv, CompletionsInOrder
<1>6. /\ reclaimed[p] \in Nat /\ posted[p] \in Nat /\ signalled[p] \subseteq 1 .. posted[p]
      /\ \A i \in 1 .. Len(s) : s[i].id \in Nat
  BY <1>1, Typed
<1>7. PICK h \in Nat : h = s[1].id /\ h = reclaimed'[p] /\ reclaimed[p] < h
  BY <1>2, <1>4, <1>5, <1>6
<1>8. \A i, j \in 1 .. Len(t) : i < j => t[i].id < t[j].id
  <2> SUFFICES ASSUME NEW i \in 1 .. Len(t), NEW j \in 1 .. Len(t), i < j
               PROVE  t[i].id < t[j].id
    OBVIOUS
  <2>1. i + 1 < j + 1 /\ i + 1 \in 1 .. Len(s) /\ j + 1 \in 1 .. Len(s)
    BY <1>4
  <2> QED BY <1>4, <1>5, <2>1
<1>9. \A i \in 1 .. Len(t) :
        /\ h < t[i].id /\ t[i].id <= posted[p]
        /\ t[i].ok => t[i].id \in signalled[p] /\ t[i].id <= landed[p]
        /\ qp[p] = "rts" => t[i].id <= landed[p]
  <2> SUFFICES ASSUME NEW i \in 1 .. Len(t)
               PROVE  /\ h < t[i].id /\ t[i].id <= posted[p]
                      /\ t[i].ok => t[i].id \in signalled[p] /\ t[i].id <= landed[p]
                      /\ qp[p] = "rts" => t[i].id <= landed[p]
    OBVIOUS
  <2>1. PICK j \in 1 .. Len(s) : j = i + 1 /\ 1 < j /\ t[i] = s[j]
    BY <1>4
  <2>2. h < s[j].id
    BY <1>4, <1>5, <1>7, <2>1
  <2> QED BY <1>5, <2>1, <2>2
<1>10. ASSUME NEW m \in signalled[p], h < m, m <= landed[p]
       PROVE  \E i \in 1 .. Len(t) : t[i].id = m
  <2>1. m \in Nat /\ reclaimed[p] < m
    BY <1>6, <1>7, <1>10
  <2>2. PICK i \in 1 .. Len(s) : s[i].id = m
    BY <1>5, <1>10, <2>1
  <2>3. i # 1
    <3>1. h # m /\ s[1].id = h
      BY <1>7, <1>10, <2>1
    <3> QED BY <2>2, <3>1, Zenon
  <2>4. PICK j \in 1 .. Len(t) : j = i - 1
    BY <1>4, <2>3
  <2>5. t[j] = s[i]
    BY <1>4, <2>4
  <2> QED BY <2>2, <2>4, <2>5
<1>11. qp[p] = "rts" => h <= landed[p]
  BY <1>4, <1>5, <1>7
<1> QED
  <2>1. qp'[p] = qp[p] /\ posted'[p] = posted[p] /\ signalled'[p] = signalled[p]
        /\ landed'[p] = landed[p] /\ send_cq'[p] = t /\ reclaimed'[p] = h
    BY <1>2, <1>7
  <2> QED BY <1>5, <1>8, <1>9, <1>10, <1>11, <2>1 DEF CompletionsInOrder

LEMMA WaitKeepsCount ==
  ASSUME TypeOK, NEW p \in Peers, SenderInv(p), Wait(p)
  PROVE  SignalsCounted(p)'
<1>1. PICK s, e : s = send_cq[p] /\ e = Head(s)
  OBVIOUS
<1>2. /\ s # <<>> /\ reclaimed'[p] = e.id
      /\ waits'[p] = waits[p] + (IF e.ok THEN 1 ELSE 0)
      /\ UNCHANGED <<counter, posted, signalled, landed>>
  BY <1>1 DEF Wait, TypeOK
<1>3. /\ s \in Seq(Entry) /\ waits[p] \in Nat /\ reclaimed[p] \in Nat /\ landed[p] \in Nat
      /\ posted[p] \in Nat /\ signalled[p] \subseteq 1 .. posted[p]
  BY <1>1, Typed
<1>4. Len(s) \in Nat /\ 1 \in 1 .. Len(s) /\ e = s[1] /\ e \in Entry
  BY <1>1, <1>2, <1>3
<1>5. PICK h \in Nat : h = e.id /\ e.ok \in BOOLEAN
  BY <1>4 DEF Entry
<1>6. reclaimed[p] < h /\ (e.ok => h \in signalled[p] /\ h <= landed[p])
  BY <1>1, <1>4, <1>5 DEF SenderInv, CompletionsInOrder
<1>7. PICK C, D : C = Covered(p) /\ D = Covered(p)'
  OBVIOUS
<1>8. /\ C \subseteq D /\ D \subseteq signalled[p] /\ C \subseteq signalled[p]
      /\ h \notin C /\ (e.ok => h \in D)
  <2>1. reclaimed'[p] = h
    BY <1>2, <1>5
  <2> QED BY <1>2, <1>3, <1>6, <1>7, <2>1 DEF Covered
<1>9. PICK k \in Nat, j \in Nat : k = Cardinality(C) /\ j = Cardinality(D) /\ waits[p] <= k
  BY <1>7, <1>8, Signals DEF SenderInv, SignalsCounted
<1>10. IsFiniteSet(C) /\ IsFiniteSet(D)
  BY <1>8, Signals
<1>11. k <= j
  BY <1>8, <1>9, <1>10, FS_Subset
<1>12. e.ok => k + 1 <= j
  <2> SUFFICES ASSUME e.ok PROVE k + 1 <= j
    OBVIOUS
  <2>1. C \cup {h} \subseteq D /\ h \notin C
    BY <1>8
  <2>2. Cardinality(C \cup {h}) = k + 1
    BY <1>9, <1>10, <2>1, FS_AddElement
  <2>3. Cardinality(C \cup {h}) <= Cardinality(D)
    BY <1>10, <2>1, FS_Subset
  <2> QED BY <1>9, <2>2, <2>3
<1>13. waits'[p] <= j
  BY <1>2, <1>3, <1>5, <1>9, <1>11, <1>12
<1>14. \A m : UpTo(p, m)' = UpTo(p, m)
  BY <1>2 DEF UpTo
<1> QED BY <1>2, <1>7, <1>9, <1>13, <1>14 DEF SenderInv, SignalsCounted

LEMMA WaitKeeps ==
  ASSUME TypeOK, NEW p \in Peers, SenderInv(p), Wait(p)
  PROVE  SenderInv(p)'
<1>1. /\ pc[p] = "waiting" /\ pc'[p] = "idle"
      /\ UNCHANGED <<left, counter, posted, signalled, rejects>>
  BY DEF Wait, TypeOK
<1>2. StepBounded(p)'
  BY <1>1 DEF SenderInv, StepBounded
<1>3. Aligned(p)'
  <2>1. ~Stuck(p)
    BY <1>1 DEF Stuck
  <2> QED BY <1>1, <2>1 DEF SenderInv, Aligned
<1> QED BY <1>2, <1>3, WaitKeepsOrder, WaitKeepsCount DEF SenderInv

LEMMA RetriesExceededKeeps ==
  ASSUME TypeOK, NEW p \in Peers, SenderInv(p), RetriesExceeded(p)
  PROVE  SenderInv(p)'
<1>1. PICK s, k, r, t : /\ s = send_cq[p] /\ k = landed[p]
                        /\ r = [i \in 1 .. posted[p] - k |-> [id |-> k + i, ok |-> FALSE]]
                        /\ t = s \o r
  OBVIOUS
<1>2. /\ qp[p] = "rts" /\ qp'[p] = "error" /\ send_cq'[p] = t
      /\ UNCHANGED <<pc, left, counter, posted, reclaimed, signalled, landed, waits, rejects>>
  BY <1>1 DEF RetriesExceeded, TypeOK
<1>3. PICK l \in Nat : l = posted[p] - k
  BY <1>1, Typed
<1>4. /\ k \in Nat /\ posted[p] \in Nat /\ reclaimed[p] \in Nat /\ s \in Seq(Entry)
      /\ \A i \in 1 .. Len(s) : s[i].id \in Nat
  BY <1>1, Typed
<1>5. /\ r \in Seq(Entry) /\ Len(r) = l
      /\ \A i \in 1 .. l : r[i].id = k + i /\ r[i].ok = FALSE
  <2>1. r = [i \in 1 .. l |-> [id |-> k + i, ok |-> FALSE]]
    BY <1>1, <1>3
  <2>2. \A i \in 1 .. l : [id |-> k + i, ok |-> FALSE] \in Entry
    BY <1>4 DEF Entry
  <2> QED BY <2>1, <2>2
<1>6. PICK a \in Nat : a = Len(s)
  BY <1>4
<1>7. /\ Len(t) = a + l
      /\ \A i \in 1 .. a : t[i] = s[i]
      /\ \A i \in 1 .. l : t[a + i] = r[i]
  <2>1. /\ t \in Seq(Entry) /\ Len(t) = Len(s) + Len(r)
        /\ \A i \in 1 .. Len(s) + Len(r) : t[i] = IF i <= Len(s) THEN s[i] ELSE r[i - Len(s)]
    <3>1. s \in Seq(Entry) /\ r \in Seq(Entry) /\ t = s \o r
      BY <1>1, <1>4, <1>5
    <3> QED BY <3>1, ConcatProperties, Zenon
  <2>2. \A i \in 1 .. l : a + i \in 1 .. a + l /\ ~(a + i <= a) /\ (a + i) - a = i
    OBVIOUS
  <2>3. \A i \in 1 .. a : i \in 1 .. a + l /\ i <= a
    OBVIOUS
  <2> QED BY <1>5, <1>6, <2>1, <2>2, <2>3
<1>8. \A i \in 1 .. Len(t) : i \in 1 .. a \/ \E j \in 1 .. l : i = a + j
  <2> SUFFICES ASSUME NEW i \in 1 .. Len(t), i \notin 1 .. a
               PROVE  \E j \in 1 .. l : i = a + j
    OBVIOUS
  <2>1. i - a \in 1 .. l /\ i = a + (i - a)
    BY <1>7
  <2> QED BY <2>1
<1>9. /\ \A i, j \in 1 .. a : i < j => s[i].id < s[j].id
      /\ \A i \in 1 .. a :
           /\ reclaimed[p] < s[i].id /\ s[i].id <= k
           /\ s[i].ok => s[i].id \in signalled[p]
      /\ \A m \in signalled[p] :
           reclaimed[p] < m /\ m <= k => \E i \in 1 .. a : s[i].id = m
      /\ reclaimed[p] <= k
  BY <1>1, <1>2, <1>6 DEF SenderInv, CompletionsInOrder
<1>10. CompletionsInOrder(p)'
  <2>1. \A i \in 1 .. a : t[i] = s[i] /\ s[i].id \in Nat /\ i \in 1 .. Len(t)
    BY <1>4, <1>6, <1>7
  <2>2. \A j \in 1 .. l : t[a + j].id = k + j /\ t[a + j].ok = FALSE
    BY <1>5, <1>7
  <2>3. ASSUME NEW i \in 1 .. Len(t), NEW j \in 1 .. Len(t), i < j
        PROVE  t[i].id < t[j].id
    <3>1. CASE i \in 1 .. a /\ j \in 1 .. a
      BY <1>9, <2>1, <2>3, <3>1
    <3>2. CASE i \in 1 .. a /\ j \notin 1 .. a
      <4>1. PICK y \in 1 .. l : j = a + y
        BY <1>8, <3>2
      <4>2. t[j].id = k + y /\ t[i].id <= k /\ t[i].id \in Nat
        BY <1>9, <2>1, <2>2, <3>2, <4>1
      <4> QED BY <1>4, <4>2
    <3>3. CASE i \notin 1 .. a
      <4>1. PICK x \in 1 .. l : i = a + x
        BY <1>8, <3>3
      <4>2. j \notin 1 .. a
        BY <2>3, <4>1
      <4>3. PICK y \in 1 .. l : j = a + y
        BY <1>8, <4>2
      <4>4. t[i].id = k + x /\ t[j].id = k + y
        BY <2>2, <4>1, <4>3
      <4> QED BY <1>4, <2>3, <4>1, <4>3, <4>4
    <3> QED BY <3>1, <3>2, <3>3
  <2>4. ASSUME NEW i \in 1 .. Len(t)
        PROVE  /\ reclaimed[p] < t[i].id /\ t[i].id <= posted[p]
               /\ t[i].ok => t[i].id \in signalled[p] /\ t[i].id <= k
    <3>1. CASE i \in 1 .. a
      <4>1. t[i] = s[i] /\ s[i].id \in Nat /\ k <= posted[p]
        BY <1>3, <1>4, <2>1, <3>1
      <4>2. reclaimed[p] < s[i].id /\ s[i].id <= k /\ (s[i].ok => s[i].id \in signalled[p])
        BY <1>9, <3>1
      <4> QED BY <1>4, <4>1, <4>2
    <3>2. CASE i \notin 1 .. a
      <4>1. PICK y \in 1 .. l : i = a + y
        BY <1>8, <3>2
      <4>2. t[i].id = k + y /\ t[i].ok = FALSE
        BY <2>2, <4>1
      <4>3. reclaimed[p] <= k /\ y \in Nat /\ 1 <= y /\ k + y <= posted[p]
        BY <1>3, <1>4, <1>9
      <4> QED BY <1>4, <4>2, <4>3
    <3> QED BY <3>1, <3>2
  <2>5. \A m \in signalled[p] :
          reclaimed[p] < m /\ m <= k => \E i \in 1 .. Len(t) : t[i].id = m
    BY <1>9, <2>1
  <2>6. /\ qp'[p] = "error" /\ send_cq'[p] = t /\ landed'[p] = k
        /\ reclaimed'[p] = reclaimed[p] /\ posted'[p] = posted[p]
        /\ signalled'[p] = signalled[p]
    BY <1>1, <1>2
  <2> QED BY <2>3, <2>4, <2>5, <2>6 DEF CompletionsInOrder
<1>11. StepBounded(p)'
  BY <1>2 DEF SenderInv, StepBounded
<1>12. SignalsCounted(p)'
  <2>1. Covered(p)' = Covered(p) /\ \A m : UpTo(p, m)' = UpTo(p, m)
    BY <1>2 DEF Covered, UpTo
  <2> QED BY <1>2, <2>1 DEF SenderInv, SignalsCounted
<1>13. Aligned(p)'
  BY <1>2 DEF SenderInv, Aligned, Stuck
<1> QED BY <1>10, <1>11, <1>12, <1>13 DEF SenderInv

-----------------------------------------------------------------------------
(* The types of the sending side *)

\* The bounds of one sender.
Limits(p) ==
  /\ counter[p] <= MaxWrites[p] /\ posted[p] <= counter[p]
  /\ reclaimed[p] <= posted[p] /\ landed[p] <= posted[p]
  /\ posted[p] - reclaimed[p] <= SendDepth
  /\ signalled[p] \subseteq 1 .. posted[p]
  /\ send_cq[p] \in Seq(Completions(p))

SendTyped ==
  /\ qp \in [Peers -> {"init", "rts", "error"}]
  /\ pc \in [Peers -> {"idle", "saving", "waiting"}]
  /\ left \in [Peers -> 0 .. WritesPerStep]
  /\ counter \in [Peers -> Nat] /\ posted \in [Peers -> Nat]
  /\ reclaimed \in [Peers -> Nat] /\ landed \in [Peers -> Nat]
  /\ waits \in [Peers -> Nat] /\ rejects \in [Peers -> 0 .. MaxRejects]
  /\ signalled \in [Peers -> SUBSET Nat]
  /\ send_cq \in [Peers -> Seq(Entry)]
  /\ \A p \in Peers : Limits(p)

RecvTyped ==
  /\ recv_qp \in [Peers -> {"init", "rts", "error"}]
  /\ recv_wrs \in [Peers -> 0 .. RecvDepth]
  /\ primed \in BOOLEAN /\ fatal \in BOOLEAN
  /\ broadcasts \in 0 .. MaxBroadcasts /\ faults \in 0 .. MaxFaults
  /\ recv_cq \in Seq([of : Peers, ok : BOOLEAN])
  /\ failures \in 0 .. MaxFailures /\ handled \in Nat

LEMMA TypesOfBothSides ==
  /\ TypeOK => SendTyped /\ RecvTyped
  /\ SendTyped' /\ RecvTyped' => TypeOK'
  /\ SendTyped /\ RecvTyped => TypeOK
BY Zenon DEF TypeOK, SendTyped, RecvTyped, Limits, Entry

\* The bounds of the other senders do not change.
LEMMA OtherLimits ==
  ASSUME TypeOK, NEW p \in Peers, Limits(p)',
         \/ ConnectSender(p) \/ Sender(p) \/ Land(p) \/ RetriesExceeded(p)
  PROVE  \A q \in Peers : Limits(q)'
<1> SUFFICES ASSUME NEW q \in Peers, q # p PROVE Limits(q)'
  OBVIOUS
<1>1. Limits(q)
  BY TypesOfBothSides DEF SendTyped
<1>2. At(q)' = At(q)
  BY OneSender
<1>3. /\ counter'[q] = counter[q] /\ posted'[q] = posted[q] /\ reclaimed'[q] = reclaimed[q]
      /\ landed'[q] = landed[q] /\ signalled'[q] = signalled[q] /\ send_cq'[q] = send_cq[q]
  BY <1>2 DEF At
<1> QED BY <1>1, <1>3, Zenon DEF Limits, Completions

\* The steps that touch no completion queue.
LEMMA CallsTyped ==
  ASSUME TypeOK, NEW p \in Peers, SenderInv(p),
         ConnectSender(p) \/ StartStep(p) \/ WriteFails(p) \/ WriteRejected(p)
  PROVE  SendTyped'
<1>1. /\ SendTyped /\ Limits(p) /\ ChannelAssumption
  BY TypesOfBothSides, ChannelAssumption DEF SendTyped
<1>2. /\ UNCHANGED <<posted, reclaimed, landed, signalled, send_cq, waits>>
      /\ counter'[p] \in {counter[p], counter[p] + 1} /\ counter' \in [Peers -> Nat]
  <2>1. counter \in [Peers -> Nat]
    BY <1>1 DEF SendTyped
  <2> QED BY <2>1 DEF ConnectSender, StartStep, WriteFails, WriteRejected
<1>3. counter'[p] <= MaxWrites[p] /\ counter[p] <= counter'[p] /\ counter'[p] \in Nat
  <2>1. /\ counter[p] \in Nat /\ left[p] \in Nat /\ MaxWrites[p] \in Nat
        /\ counter[p] + left[p] <= MaxWrites[p]
        /\ pc[p] = "saving" => left[p] > 0
    BY Typed DEF SenderInv, StepBounded
  <2>2. counter'[p] = counter[p] \/ (counter'[p] = counter[p] + 1 /\ pc[p] = "saving")
    BY <1>2 DEF ConnectSender, StartStep, WriteFails, WriteRejected
  <2> QED BY <2>1, <2>2
<1>4. Limits(p)'
  <2>1. counter[p] \in Nat /\ posted[p] \in Nat /\ posted[p] <= counter[p]
    BY Typed
  <2>2. posted[p] <= counter'[p]
    BY <1>3, <2>1
  <2> QED BY <1>1, <1>2, <1>3, <2>2, Zenon DEF Limits, Completions
<1>5. \A q \in Peers : Limits(q)'
  BY <1>4, OtherLimits, Zenon DEF Sender
<1>6. qp' \in [Peers -> {"init", "rts", "error"}]
  BY <1>1 DEF SendTyped, ConnectSender, StartStep, WriteFails, WriteRejected
<1>7. pc' \in [Peers -> {"idle", "saving", "waiting"}]
  BY <1>1 DEF SendTyped, ConnectSender, StartStep, WriteFails, WriteRejected, GiveUp
<1>8. left' \in [Peers -> 0 .. WritesPerStep]
  <2>1. left \in [Peers -> 0 .. WritesPerStep] /\ WritesPerStep \in 0 .. WritesPerStep
        /\ 0 \in 0 .. WritesPerStep
    BY <1>1 DEF ChannelAssumption, SendTyped
  <2>2. \/ left' = left
        \/ \E w \in 0 .. WritesPerStep : left' = [left EXCEPT ![p] = w]
    BY <2>1 DEF ConnectSender, StartStep, WriteFails, WriteRejected, GiveUp
  <2> QED BY <2>1, <2>2
<1>9. rejects' \in [Peers -> 0 .. MaxRejects]
  <2>1. rejects \in [Peers -> 0 .. MaxRejects] /\ MaxRejects \in Nat
    BY <1>1 DEF ChannelAssumption, SendTyped
  <2>2. \/ rejects' = rejects
        \/ rejects[p] < MaxRejects /\ rejects' = [rejects EXCEPT ![p] = @ + 1]
    BY DEF ConnectSender, StartStep, WriteFails, WriteRejected
  <2>3. PICK r \in 0 .. MaxRejects : r = rejects[p]
    BY <2>1
  <2>4. CASE r < MaxRejects /\ rejects' = [rejects EXCEPT ![p] = r + 1]
    <3>1. r + 1 \in 0 .. MaxRejects
      BY <2>1, <2>4
    <3> QED BY <2>1, <2>4, <3>1
  <2> QED BY <2>1, <2>2, <2>3, <2>4
<1> QED BY <1>1, <1>2, <1>5, <1>6, <1>7, <1>8, <1>9, Zenon DEF SendTyped

LEMMA WriteTyped ==
  ASSUME TypeOK, NEW p \in Peers, SenderInv(p), Write(p)
  PROVE  SendTyped'
<1>1. SendTyped /\ Limits(p) /\ ChannelAssumption
  BY TypesOfBothSides, ChannelAssumption DEF SendTyped
<1>2. PICK s, n, e : s = send_cq[p] /\ n = posted[p] + 1 /\ e = [id |-> n, ok |-> FALSE]
  OBVIOUS
<1>3. /\ counter'[p] = counter[p] + 1 /\ posted'[p] = n
      /\ signalled'[p] \subseteq signalled[p] \cup {n}
      /\ send_cq'[p] = s \/ send_cq'[p] = Append(s, e)
      /\ UNCHANGED <<qp, reclaimed, landed, waits, rejects>>
      /\ pc[p] = "saving" /\ posted[p] - reclaimed[p] < SendDepth
  BY <1>2, Written
<1>4. /\ counter[p] \in Nat /\ left[p] \in Nat /\ MaxWrites[p] \in Nat
      /\ posted[p] \in Nat /\ posted[p] <= counter[p] /\ n \in Nat \ {0}
      /\ reclaimed[p] \in Nat /\ reclaimed[p] <= posted[p] /\ SendDepth \in Nat
      /\ landed[p] \in Nat /\ landed[p] <= posted[p] /\ signalled[p] \subseteq 1 .. posted[p]
  BY <1>2, Typed
<1>5. counter[p] + left[p] <= MaxWrites[p] /\ left[p] > 0
  BY <1>3 DEF SenderInv, StepBounded
<1>6. n \in 1 .. MaxWrites[p] /\ counter[p] + 1 <= MaxWrites[p]
  BY <1>2, <1>4, <1>5
<1>7. e \in Completions(p) /\ e \in Entry
  BY <1>2, <1>6 DEF Completions, Entry
<1>8. Limits(p)'
  <2>1. s \in Seq(Completions(p))
    BY <1>1, <1>2 DEF Limits
  <2>2. Append(s, e) \in Seq(Completions(p))
    BY <1>7, <2>1
  <2>3. send_cq'[p] \in Seq(Completions(p))
    BY <1>3, <2>1, <2>2
  <2>4. signalled'[p] \subseteq 1 .. posted'[p]
    <3>1. signalled[p] \cup {n} \subseteq 1 .. n
      BY <1>2, <1>4
    <3> QED BY <1>3, <3>1
  <2>5. /\ counter'[p] <= MaxWrites[p] /\ posted'[p] <= counter'[p]
        /\ reclaimed'[p] <= posted'[p] /\ landed'[p] <= posted'[p]
        /\ posted'[p] - reclaimed'[p] <= SendDepth
    <3>1. /\ counter[p] + 1 <= MaxWrites[p] /\ n <= counter[p] + 1
          /\ reclaimed[p] <= n /\ landed[p] <= n /\ n - reclaimed[p] <= SendDepth
      BY <1>2, <1>3, <1>4, <1>6, SMTT(30)
    <3> QED BY <1>3, <3>1
  <2> QED BY <2>3, <2>4, <2>5, Zenon DEF Limits, Completions
<1>9. \A q \in Peers : Limits(q)'
  BY <1>8, OtherLimits, Zenon DEF Sender
<1>10. pc' \in [Peers -> {"idle", "saving", "waiting"}]
  BY <1>1 DEF SendTyped, Write, Advance
<1>11. left' \in [Peers -> 0 .. WritesPerStep]
  <2>1. left \in [Peers -> 0 .. WritesPerStep] /\ WritesPerStep \in Nat
    BY <1>1 DEF SendTyped, ChannelAssumption
  <2>2. PICK w \in 0 .. WritesPerStep : w = left[p] /\ w > 0
    BY <1>5, <2>1
  <2>3. w - 1 \in 0 .. WritesPerStep /\ left' = [left EXCEPT ![p] = w - 1]
    BY <2>1, <2>2 DEF Write, Advance
  <2> QED BY <2>1, <2>3
<1>12. counter' \in [Peers -> Nat] /\ posted' \in [Peers -> Nat]
  <2>1. counter \in [Peers -> Nat] /\ posted \in [Peers -> Nat]
    BY <1>1 DEF SendTyped
  <2>2. /\ counter' = [counter EXCEPT ![p] = @ + 1]
        /\ posted' = [posted EXCEPT ![p] = @ + 1]
    BY DEF Write
  <2> QED BY <2>1, <2>2
<1>13. signalled' \in [Peers -> SUBSET Nat]
  <2>1. signalled \in [Peers -> SUBSET Nat] /\ n \in Nat
    BY <1>1, <1>4 DEF SendTyped
  <2> QED BY <1>2, <2>1 DEF Write
<1>14. send_cq' \in [Peers -> Seq(Entry)]
  <2>1. send_cq \in [Peers -> Seq(Entry)] /\ s \in Seq(Entry)
    BY <1>1, <1>2 DEF SendTyped
  <2>2. Append(s, e) \in Seq(Entry)
    BY <1>7, <2>1
  <2>3. PICK t \in Seq(Entry) : send_cq' = [send_cq EXCEPT ![p] = t]
    BY <1>2, <2>1, <2>2 DEF Write
  <2> QED BY <2>1, <2>3
<1> QED
  BY <1>1, <1>3, <1>9, <1>10, <1>11, <1>12, <1>13, <1>14, Zenon DEF SendTyped

LEMMA WaitTyped ==
  ASSUME TypeOK, NEW p \in Peers, SenderInv(p), Wait(p)
  PROVE  SendTyped'
<1>1. SendTyped /\ Limits(p)
  BY TypesOfBothSides DEF SendTyped
<1>2. PICK s, t, h : s = send_cq[p] /\ t = Tail(s) /\ h = Head(s).id
  OBVIOUS
<1>3. /\ s # <<>> /\ reclaimed' = [reclaimed EXCEPT ![p] = h]
      /\ waits' = [waits EXCEPT ![p] = @ + (IF Head(s).ok THEN 1 ELSE 0)]
      /\ send_cq' = [send_cq EXCEPT ![p] = t] /\ pc' = [pc EXCEPT ![p] = "idle"]
      /\ UNCHANGED <<qp, left, counter, posted, signalled, landed, rejects>>
  BY <1>2 DEF Wait
<1>4. s \in Seq(Entry) /\ s \in Seq(Completions(p))
  BY <1>1, <1>2 DEF SendTyped, Limits
<1>5. /\ Len(s) \in Nat /\ 1 \in 1 .. Len(s) /\ Head(s) = s[1]
      /\ t \in Seq(Entry) /\ t \in Seq(Completions(p)) /\ s[1] \in Entry
  BY <1>2, <1>3, <1>4
<1>6. /\ h \in Nat /\ reclaimed[p] < h /\ h <= posted[p]
  <2>1. h \in Nat
    BY <1>2, <1>5 DEF Entry
  <2> QED BY <1>2, <1>5, <2>1 DEF SenderInv, CompletionsInOrder
<1>7. /\ reclaimed' \in [Peers -> Nat] /\ reclaimed'[p] = h
      /\ send_cq' \in [Peers -> Seq(Entry)] /\ send_cq'[p] = t
      /\ pc' \in [Peers -> {"idle", "saving", "waiting"}]
  BY <1>1, <1>3, <1>5, <1>6 DEF SendTyped
<1>8. waits' \in [Peers -> Nat]
  <2>1. waits \in [Peers -> Nat]
    BY <1>1 DEF SendTyped
  <2> QED BY <1>3, <2>1
<1>9. Limits(p)'
  <2>1. /\ reclaimed[p] \in Nat /\ posted[p] \in Nat /\ SendDepth \in Nat
        /\ posted[p] - reclaimed[p] <= SendDepth
    BY Typed
  <2>2. h <= posted[p] /\ posted[p] - h <= SendDepth
    BY <1>6, <2>1
  <2>3. /\ counter[p] <= MaxWrites[p] /\ posted[p] <= counter[p] /\ landed[p] <= posted[p]
        /\ signalled[p] \subseteq 1 .. posted[p]
    BY <1>1 DEF Limits
  <2> QED BY <1>3, <1>5, <1>7, <2>2, <2>3, Zenon DEF Limits, Completions
<1>10. \A q \in Peers : Limits(q)'
  BY <1>9, OtherLimits, Zenon DEF Sender
<1> QED BY <1>1, <1>3, <1>7, <1>8, <1>10, Zenon DEF SendTyped

LEMMA LandTyped ==
  ASSUME TypeOK, NEW p \in Peers, SenderInv(p), Land(p)
  PROVE  SendTyped'
<1>1. SendTyped /\ Limits(p)
  BY TypesOfBothSides DEF SendTyped
<1>2. PICK s, n, e : s = send_cq[p] /\ n = landed[p] + 1 /\ e = [id |-> n, ok |-> TRUE]
  OBVIOUS
<1>3. /\ n <= posted[p] /\ landed' = [landed EXCEPT ![p] = n]
      /\ send_cq' = [send_cq EXCEPT ![p] = s] \/ send_cq' = [send_cq EXCEPT ![p] = Append(s, e)]
      /\ UNCHANGED <<qp, pc, left, counter, posted, reclaimed, signalled, waits, rejects>>
  BY <1>2 DEF Land
<1>4. /\ n \in Nat \ {0} /\ posted[p] \in Nat /\ counter[p] \in Nat /\ MaxWrites[p] \in Nat
  BY <1>2, Typed
<1>5. n \in 1 .. MaxWrites[p]
  BY <1>1, <1>3, <1>4 DEF Limits
<1>6. e \in Completions(p) /\ e \in Entry
  BY <1>2, <1>4, <1>5 DEF Completions, Entry
<1>7. s \in Seq(Entry) /\ s \in Seq(Completions(p))
  BY <1>1, <1>2 DEF SendTyped, Limits
<1>8. Append(s, e) \in Seq(Entry) /\ Append(s, e) \in Seq(Completions(p))
  BY <1>6, <1>7
<1>9. PICK t : /\ send_cq' = [send_cq EXCEPT ![p] = t]
               /\ t \in Seq(Entry) /\ t \in Seq(Completions(p))
  BY <1>3, <1>7, <1>8
<1>10. /\ landed' \in [Peers -> Nat] /\ landed'[p] = n
       /\ send_cq' \in [Peers -> Seq(Entry)] /\ send_cq'[p] = t
  BY <1>1, <1>3, <1>4, <1>9 DEF SendTyped
<1>11. Limits(p)'
  BY <1>1, <1>3, <1>9, <1>10, Zenon DEF Limits, Completions
<1>12. \A q \in Peers : Limits(q)'
  BY <1>11, OtherLimits, Zenon
<1> QED BY <1>1, <1>3, <1>10, <1>12, Zenon DEF SendTyped

LEMMA RetriesExceededTyped ==
  ASSUME TypeOK, NEW p \in Peers, SenderInv(p), RetriesExceeded(p)
  PROVE  SendTyped'
<1>1. SendTyped /\ Limits(p)
  BY TypesOfBothSides DEF SendTyped
<1>2. PICK s, k, r : /\ s = send_cq[p] /\ k = landed[p]
                     /\ r = [i \in 1 .. posted[p] - k |-> [id |-> k + i, ok |-> FALSE]]
  OBVIOUS
<1>3. /\ qp' = [qp EXCEPT ![p] = "error"] /\ send_cq' = [send_cq EXCEPT ![p] = s \o r]
      /\ UNCHANGED <<pc, left, counter, posted, reclaimed, signalled, landed, waits, rejects>>
  BY <1>2 DEF RetriesExceeded
<1>4. /\ k \in Nat /\ posted[p] \in Nat /\ counter[p] \in Nat /\ MaxWrites[p] \in Nat
      /\ k <= posted[p] /\ posted[p] <= counter[p] /\ counter[p] <= MaxWrites[p]
  <2>1. counter[p] <= MaxWrites[p]
    BY <1>1 DEF Limits
  <2> QED BY <1>2, <2>1, Typed
<1>5. PICK l \in Nat : l = posted[p] - k
  BY <1>4
<1>6. \A i \in 1 .. l : [id |-> k + i, ok |-> FALSE] \in Completions(p)
                        /\ [id |-> k + i, ok |-> FALSE] \in Entry
  <2>1. \A i \in 1 .. l : k + i \in 1 .. MaxWrites[p] /\ k + i \in Nat
    BY <1>4, <1>5
  <2> QED BY <2>1 DEF Completions, Entry
<1>7. r \in Seq(Entry) /\ r \in Seq(Completions(p))
  <2>1. r = [i \in 1 .. l |-> [id |-> k + i, ok |-> FALSE]]
    BY <1>2, <1>5
  <2> QED BY <1>6, <2>1
<1>8. s \in Seq(Entry) /\ s \in Seq(Completions(p))
  BY <1>1, <1>2 DEF SendTyped, Limits
<1>9. PICK t : t = s \o r /\ t \in Seq(Entry) /\ t \in Seq(Completions(p))
  <2>1. s \o r \in Seq(Entry)
    BY <1>7, <1>8, ConcatProperties, Zenon
  <2>2. s \o r \in Seq(Completions(p))
    BY <1>7, <1>8, ConcatProperties, Zenon
  <2> QED BY <2>1, <2>2, Zenon
<1>10. /\ send_cq' \in [Peers -> Seq(Entry)] /\ send_cq'[p] = t
       /\ qp' \in [Peers -> {"init", "rts", "error"}]
  BY <1>1, <1>3, <1>9 DEF SendTyped
<1>11. Limits(p)'
  BY <1>1, <1>3, <1>9, <1>10, Zenon DEF Limits, Completions
<1>12. \A q \in Peers : Limits(q)'
  BY <1>11, OtherLimits, Zenon
<1> QED BY <1>1, <1>3, <1>10, <1>12, Zenon DEF SendTyped

-----------------------------------------------------------------------------
(* The decode node *)

\* An entry of its completion queue.
Arrival == [of : Peers, ok : BOOLEAN]

\* The invariant of its side.
RecvInv == RecvTyped /\ ReceiverInv /\ ReceivesCounted

LEMMA FirstIsPeer == First \in Peers /\ RecvDepth \in Nat \ {0}
<1>1. PICK s \in Seq(Peers) : s = PeerOrder /\ s # <<>>
  BY ChannelAssumption
<1>2. s[1] \in Peers
  BY <1>1
<1> QED BY <1>1, <1>2, ChannelAssumption DEF First

LEMMA TypedReceiver ==
  ASSUME RecvTyped
  PROVE  /\ recv_wrs \in [Peers -> Nat] /\ \A p \in Peers : recv_wrs[p] \in Nat
         /\ recv_cq \in Seq(Arrival) /\ Len(recv_cq) \in Nat
         /\ \A i \in 1 .. Len(recv_cq) : recv_cq[i].ok \in BOOLEAN
         /\ faults \in Nat /\ failures \in Nat /\ handled \in Nat /\ broadcasts \in Nat
         /\ MaxFailures \in Nat \ {0} /\ MaxFaults \in Nat /\ MaxBroadcasts \in Nat
<1>1. /\ MaxFailures \in Nat \ {0} /\ MaxFaults \in Nat /\ MaxBroadcasts \in Nat
      /\ RecvDepth \in Nat
  BY ChannelAssumption
<1>2. recv_wrs \in [Peers -> 0 .. RecvDepth]
  BY DEF RecvTyped
<1>3. recv_wrs \in [Peers -> Nat] /\ \A p \in Peers : recv_wrs[p] \in Nat
  BY <1>1, <1>2
<1>4. /\ faults \in Nat /\ failures \in Nat /\ handled \in Nat /\ broadcasts \in Nat
  BY <1>1 DEF RecvTyped
<1>5. PICK s \in Seq(Arrival) : s = recv_cq
  BY DEF RecvTyped, Arrival
<1>6. Len(s) \in Nat /\ \A i \in 1 .. Len(s) : s[i] \in Arrival
  OBVIOUS
<1>7. \A i \in 1 .. Len(s) : s[i].ok \in BOOLEAN
  BY <1>6 DEF Arrival
<1> QED BY <1>1, <1>3, <1>4, <1>5, <1>6, <1>7

\* The bounds on receive requests follow from how many there are at all.
LEMMA RequestsTyped ==
  ASSUME recv_wrs' \in [Peers -> Nat], ReceiverInv', Len(recv_cq)' \in Nat
  PROVE  recv_wrs' \in [Peers -> 0 .. RecvDepth]
<1>1. RecvDepth \in Nat /\ First \in Peers
  BY FirstIsPeer
<1>2. ASSUME NEW p \in Peers PROVE recv_wrs'[p] \in 0 .. RecvDepth
  <2>1. CASE p = First
    <3>1. recv_wrs'[First] + Len(recv_cq)' <= RecvDepth /\ recv_wrs'[First] \in Nat
      BY <1>1 DEF ReceiverInv
    <3> QED BY <1>1, <2>1, <3>1
  <2>2. CASE p # First
    BY <1>1, <2>2 DEF ReceiverInv
  <2> QED BY <2>1, <2>2
<1> QED BY <1>2

\* What the senders do alone is no business of the decode node.
LEMMA SenderLeavesReceiver ==
  ASSUME RecvInv, UNCHANGED <<recvVars, landed>>
  PROVE  RecvInv'
<1>1. UNCHANGED <<recv_qp, recv_wrs, primed, broadcasts, recv_cq, failures, fatal,
                  handled, faults, landed>>
  BY DEF recvVars
<1>2. RecvTyped'
  BY <1>1, Zenon DEF RecvInv, RecvTyped
<1>3. ReceiverInv'
  BY <1>1 DEF RecvInv, ReceiverInv
<1>4. ReceivesCounted'
  BY <1>1 DEF RecvInv, ReceivesCounted
<1> QED BY <1>2, <1>3, <1>4 DEF RecvInv

LEMMA LandReceived ==
  ASSUME RecvInv, TypeOK, NEW p \in Peers, Land(p)
  PROVE  RecvInv'
<1>1. PICK w, s, e : w = recv_wrs[First] /\ s = recv_cq /\ e = [of |-> First, ok |-> TRUE]
  OBVIOUS
<1>2. p = First /\ w > 0
  <2>1. recv_wrs[p] > 0
    BY DEF Land
  <2> QED BY <1>1, <2>1 DEF RecvInv, ReceiverInv
<1>3. /\ landed' = [landed EXCEPT ![First] = landed[First] + 1] /\ landed \in [Peers -> Nat]
      /\ recv_wrs' = [recv_wrs EXCEPT ![First] = w - 1] /\ recv_cq' = Append(s, e)
      /\ recv_qp[First] = "rts"
      /\ UNCHANGED <<recv_qp, primed, broadcasts, failures, fatal, handled, faults>>
  BY <1>1, <1>2 DEF Land, TypeOK
<1>4. /\ recv_wrs \in [Peers -> Nat] /\ s \in Seq(Arrival) /\ Len(s) \in Nat /\ w \in Nat
      /\ First \in Peers /\ RecvDepth \in Nat /\ handled \in Nat
      /\ e \in Arrival /\ e.ok = TRUE
  BY <1>1, FirstIsPeer, TypedReceiver DEF RecvInv, Arrival
<1>5. PICK t \in Seq(Arrival) :
        /\ t = recv_cq' /\ Len(t) = Len(s) + 1
        /\ \A i \in 1 .. Len(t) : t[i] = e \/ (i \in 1 .. Len(s) /\ t[i] = s[i])
  <2>1. PICK t : t = Append(s, e)
    OBVIOUS
  <2>2. /\ t \in Seq(Arrival) /\ Len(t) = Len(s) + 1 /\ t[Len(s) + 1] = e
        /\ \A i \in 1 .. Len(s) : t[i] = s[i]
    BY <1>4, <2>1
  <2>3. \A i \in 1 .. Len(t) : i \in 1 .. Len(s) \/ i = Len(s) + 1
    BY <1>4, <2>2
  <2> QED BY <1>3, <2>1, <2>2, <2>3
<1>6. /\ recv_wrs' \in [Peers -> Nat] /\ recv_wrs'[First] = w - 1
      /\ landed'[First] = landed[First] + 1 /\ landed[First] \in Nat
      /\ \A q \in Peers : q # First => recv_wrs'[q] = recv_wrs[q] /\ landed'[q] = landed[q]
  BY <1>2, <1>3, <1>4
<1>7. ReceiverInv'
  <2>1. \A q \in Peers : q # First => recv_wrs'[q] = 0 /\ landed'[q] = 0
    BY <1>6 DEF RecvInv, ReceiverInv
  <2>2. recv_wrs'[First] + Len(t) <= RecvDepth
    <3>1. w + Len(s) <= RecvDepth
      BY <1>1 DEF RecvInv, ReceiverInv
    <3> QED BY <1>2, <1>4, <1>5, <1>6, <3>1
  <2>3. ~(~primed /\ faults = 0)
    BY <1>1, <1>2, <1>4 DEF RecvInv, ReceiverInv
  <2>4. faults = 0 => /\ \A q \in Peers : recv_qp[q] # "error"
                      /\ \A i \in 1 .. Len(t) : t[i].ok
    BY <1>1, <1>4, <1>5 DEF RecvInv, ReceiverInv
  <2>5. ~fatal => failures < MaxFailures
    BY DEF RecvInv, ReceiverInv
  <2> QED BY <1>3, <1>5, <2>1, <2>2, <2>3, <2>4, <2>5 DEF ReceiverInv
<1>8. ReceivesCounted'
  <2> SUFFICES ASSUME faults = 0
               PROVE  /\ primed => recv_wrs'[First] + Len(t) = RecvDepth
                      /\ handled + Len(t) = landed'[First]
                      /\ \A q \in Peers \ {First} : landed'[q] = 0
    BY <1>3, <1>5 DEF ReceivesCounted
  <2>1. /\ primed => w + Len(s) = RecvDepth
        /\ handled + Len(s) = landed[First]
        /\ \A q \in Peers \ {First} : landed[q] = 0
    BY <1>1 DEF RecvInv, ReceivesCounted
  <2>2. primed => recv_wrs'[First] + Len(t) = RecvDepth
    <3>1. PICK l \in Nat, m \in Nat : /\ l = Len(s) /\ m = Len(t) /\ m = l + 1
                                      /\ primed => w + l = RecvDepth
      BY <1>4, <1>5, <2>1
    <3>2. (w - 1) + (l + 1) = w + l
      BY <1>4
    <3>3. recv_wrs'[First] = w - 1 /\ Len(t) = l + 1 /\ w \in Nat
      BY <1>4, <1>6, <3>1
    <3>4. recv_wrs'[First] + Len(t) = w + l
      BY <3>3
    <3> QED BY <3>1, <3>4
  <2>3. handled + Len(t) = landed'[First]
    BY <1>4, <1>5, <1>6, <2>1
  <2>4. \A q \in Peers \ {First} : landed'[q] = 0
    BY <1>6, <2>1
  <2> QED BY <2>2, <2>3, <2>4
<1>9. RecvTyped'
  <2>1. recv_wrs' \in [Peers -> 0 .. RecvDepth]
    BY <1>4, <1>5, <1>6, <1>7, RequestsTyped
  <2>2. recv_cq' \in Seq([of : Peers, ok : BOOLEAN])
    BY <1>5 DEF Arrival
  <2> QED BY <1>3, <2>1, <2>2, Zenon DEF RecvInv, RecvTyped
<1> QED BY <1>7, <1>8, <1>9 DEF RecvInv

LEMMA BreakReceived ==
  ASSUME RecvInv, NEW p \in Peers, RecvQpBreaks(p)
  PROVE  RecvInv'
<1>1. PICK w, s, r : /\ w = recv_wrs[p] /\ s = recv_cq
                     /\ r = [i \in 1 .. w |-> [of |-> p, ok |-> FALSE]]
  OBVIOUS
<1>2. /\ recv_qp[p] = "rts" /\ faults < MaxFaults /\ faults' = faults + 1
      /\ recv_qp' = [recv_qp EXCEPT ![p] = "error"] /\ recv_wrs' = [recv_wrs EXCEPT ![p] = 0]
      /\ recv_cq' = s \o r
      /\ UNCHANGED <<landed, primed, broadcasts, failures, fatal, handled>>
  BY <1>1 DEF RecvQpBreaks, sendVars
<1>3. /\ recv_wrs \in [Peers -> Nat] /\ s \in Seq(Arrival) /\ Len(s) \in Nat /\ w \in Nat
      /\ First \in Peers /\ RecvDepth \in Nat /\ faults \in Nat /\ MaxFaults \in Nat
      /\ recv_wrs[First] \in Nat
  BY <1>1, FirstIsPeer, TypedReceiver DEF RecvInv
<1>4. r \in Seq(Arrival) /\ Len(r) = w
  <2>1. PICK e \in Arrival : e = [of |-> p, ok |-> FALSE]
    BY DEF Arrival
  <2>2. r = [i \in 1 .. w |-> e]
    BY <1>1, <2>1
  <2> QED BY <1>3, <2>2
<1>5. PICK t \in Seq(Arrival) : t = recv_cq' /\ Len(t) = Len(s) + w
  <2>1. s \o r \in Seq(Arrival) /\ Len(s \o r) = Len(s) + Len(r)
    BY <1>3, <1>4, ConcatProperties, Zenon
  <2> QED BY <1>2, <1>4, <2>1
<1>6. /\ recv_wrs' \in [Peers -> Nat] /\ recv_wrs'[p] = 0
      /\ recv_qp' \in [Peers -> {"init", "rts", "error"}] /\ recv_qp'[p] = "error"
      /\ \A q \in Peers : q # p => recv_wrs'[q] = recv_wrs[q] /\ recv_qp'[q] = recv_qp[q]
      /\ faults' \in 0 .. MaxFaults /\ faults' # 0
  <2>1. recv_qp \in [Peers -> {"init", "rts", "error"}]
    BY DEF RecvInv, RecvTyped
  <2> QED BY <1>2, <1>3, <2>1
<1>7. /\ \A q \in Peers : q # First => recv_wrs[q] = 0 /\ landed[q] = 0
      /\ recv_wrs[First] + Len(s) <= RecvDepth
      /\ recv_qp[First] = "init" => recv_wrs[First] = 0 /\ s = <<>>
      /\ ~fatal => failures < MaxFailures
  BY <1>1 DEF RecvInv, ReceiverInv
<1>8. ReceiverInv'
  <2>1. \A q \in Peers : q # First => recv_wrs'[q] = 0
    BY <1>6, <1>7
  <2>2. recv_wrs'[First] + Len(t) <= RecvDepth
    <3>1. CASE p = First
      BY <1>1, <1>3, <1>5, <1>6, <1>7, <3>1
    <3>2. CASE p # First
      <4>1. w = 0 /\ recv_wrs'[First] = recv_wrs[First]
        BY <1>1, <1>3, <1>6, <1>7, <3>2
      <4> QED BY <1>3, <1>5, <1>7, <4>1
    <3> QED BY <3>1, <3>2
  <2>3. recv_qp'[First] = "init" => recv_wrs'[First] = 0 /\ t = <<>>
    <3> SUFFICES ASSUME recv_qp'[First] = "init"
                 PROVE  recv_wrs'[First] = 0 /\ t = <<>>
      OBVIOUS
    <3>1. p # First
      BY <1>6
    <3>2. recv_wrs'[First] = 0 /\ s = <<>>
      BY <1>3, <1>6, <1>7, <3>1
    <3>3. w = 0
      BY <1>1, <1>7, <3>1
    <3>4. Len(t) = 0
      BY <1>3, <1>5, <3>2, <3>3
    <3> QED BY <3>2, <3>4
  <2> QED BY <1>2, <1>5, <1>6, <1>7, <2>1, <2>2, <2>3 DEF ReceiverInv
<1>9. ReceivesCounted'
  BY <1>6 DEF ReceivesCounted
<1>10. RecvTyped'
  <2>1. recv_wrs' \in [Peers -> 0 .. RecvDepth]
    BY <1>3, <1>5, <1>6, <1>8, RequestsTyped
  <2>2. recv_cq' \in Seq([of : Peers, ok : BOOLEAN])
    BY <1>5 DEF Arrival
  <2> QED BY <1>2, <1>6, <2>1, <2>2, Zenon DEF RecvInv, RecvTyped
<1> QED BY <1>8, <1>9, <1>10 DEF RecvInv

\* A broadcast that fails before anything is posted.
LEMMA ConnectFailsReceived ==
  ASSUME RecvInv, NEW k \in 1 .. Len(PeerOrder), ConnectFails(k)
  PROVE  RecvInv'
<1>1. /\ broadcasts < MaxBroadcasts /\ broadcasts' = broadcasts + 1
      /\ UNCHANGED <<landed, recv_wrs, primed, recv_cq, failures, fatal, handled, faults>>
  BY DEF ConnectFails, sendVars
<1>2. recv_qp' = [p \in Peers |-> IF \E i \in 1 .. k - 1 : PeerOrder[i] = p
                                  THEN "rts" ELSE recv_qp[p]]
  BY DEF ConnectFails
<1>3. /\ recv_qp' \in [Peers -> {"init", "rts", "error"}]
      /\ \A p \in Peers : recv_qp'[p] \in {"rts", recv_qp[p]}
  <2>1. recv_qp \in [Peers -> {"init", "rts", "error"}]
    BY DEF RecvInv, RecvTyped
  <2> QED BY <1>2, <2>1
<1>4. broadcasts' \in 0 .. MaxBroadcasts
  BY <1>1, TypedReceiver DEF RecvInv
<1>5. First \in Peers
  BY FirstIsPeer
<1>6. RecvTyped'
  BY <1>1, <1>3, <1>4, Zenon DEF RecvInv, RecvTyped
<1>7. ReceiverInv'
  <2>1. \A p \in Peers : recv_qp'[p] = "init" => recv_qp[p] = "init"
    BY <1>3
  <2>2. \A p \in Peers : recv_qp'[p] = "error" => recv_qp[p] = "error"
    BY <1>3
  <2> QED BY <1>1, <1>5, <2>1, <2>2 DEF RecvInv, ReceiverInv
<1>8. ReceivesCounted'
  BY <1>1 DEF RecvInv, ReceivesCounted
<1> QED BY <1>6, <1>7, <1>8 DEF RecvInv

\* A broadcast that connects all; n requests are posted.
LEMMA AllConnected ==
  ASSUME RecvInv, NEW n \in 0 .. RecvDepth,
         broadcasts < MaxBroadcasts, broadcasts' = broadcasts + 1,
         \A p \in Peers : recv_qp[p] = "init",
         recv_qp' = [p \in Peers |-> "rts"], PostRecvs(n),
         UNCHANGED <<sendVars, recv_cq, failures, fatal, handled>>,
         \/ n = RecvDepth /\ primed' = TRUE /\ faults' = faults
         \/ faults < MaxFaults /\ faults' = faults + 1 /\ primed' = primed
  PROVE  RecvInv'
<1>1. /\ First \in Peers /\ RecvDepth \in Nat \ {0}
      /\ recv_wrs \in [Peers -> Nat] /\ Len(recv_cq) \in Nat
      /\ faults \in Nat /\ MaxFaults \in Nat /\ broadcasts \in Nat /\ MaxBroadcasts \in Nat
  BY FirstIsPeer, TypedReceiver DEF RecvInv
<1>2. /\ UNCHANGED <<landed, recv_cq, failures, fatal, handled>>
      /\ recv_wrs[First] = 0 /\ recv_cq = <<>>
      /\ \A p \in Peers : p # First => recv_wrs[p] = 0 /\ landed[p] = 0
      /\ ~fatal => failures < MaxFailures
  BY <1>1 DEF sendVars, RecvInv, ReceiverInv
<1>3. /\ recv_qp' \in [Peers -> {"init", "rts", "error"}]
      /\ \A p \in Peers : recv_qp'[p] = "rts"
  OBVIOUS
<1>4. recv_wrs' = [recv_wrs EXCEPT ![First] = n]
  <2>1. recv_wrs' = [recv_wrs EXCEPT ![First] = @ + n]
    BY <1>1, <1>3 DEF PostRecvs
  <2>2. 0 + n = n
    BY <1>1
  <2> QED BY <1>2, <2>1, <2>2
<1>5. /\ recv_wrs' \in [Peers -> 0 .. RecvDepth] /\ recv_wrs'[First] = n
      /\ \A p \in Peers : p # First => recv_wrs'[p] = 0
  <2>1. \A p \in Peers : recv_wrs'[p] = IF p = First THEN n ELSE recv_wrs[p]
    BY <1>1, <1>4
  <2>2. /\ \A p \in Peers : recv_wrs'[p] \in 0 .. RecvDepth
        /\ \A p \in Peers : p # First => recv_wrs'[p] = 0
    BY <1>1, <1>2, <2>1
  <2> QED BY <1>1, <1>4, <2>1, <2>2
<1>6. /\ faults' \in 0 .. MaxFaults /\ broadcasts' \in 0 .. MaxBroadcasts
      /\ faults' = 0 => n = RecvDepth /\ primed' = TRUE /\ faults = 0
  BY <1>1 DEF RecvInv, RecvTyped
<1>7. primed' \in BOOLEAN
  BY DEF RecvInv, RecvTyped
<1>8. RecvTyped'
  BY <1>2, <1>3, <1>5, <1>6, <1>7, Zenon DEF RecvInv, RecvTyped
<1>9. Len(recv_cq') = 0 /\ recv_cq' = <<>>
  BY <1>2
<1>10. ReceiverInv'
  <2>1. recv_wrs'[First] + Len(recv_cq') <= RecvDepth
    BY <1>1, <1>5, <1>9
  <2>2. ~(~primed' /\ faults' = 0)
    BY <1>6
  <2>3. \A i \in 1 .. Len(recv_cq') : recv_cq'[i].ok
    BY <1>9
  <2> QED BY <1>1, <1>2, <1>3, <1>5, <2>1, <2>2, <2>3 DEF ReceiverInv
<1>11. ReceivesCounted'
  <2> SUFFICES ASSUME faults' = 0
               PROVE  /\ recv_wrs'[First] + Len(recv_cq') = RecvDepth
                      /\ handled' + Len(recv_cq') = landed'[First]
                      /\ \A p \in Peers \ {First} : landed'[p] = 0
    BY DEF ReceivesCounted
  <2>1. recv_wrs'[First] + Len(recv_cq') = RecvDepth
    BY <1>1, <1>5, <1>6, <1>9
  <2>2. handled + Len(recv_cq) = landed[First]
    BY <1>6 DEF RecvInv, ReceivesCounted
  <2> QED BY <1>2, <2>1, <2>2
<1> QED BY <1>8, <1>10, <1>11 DEF RecvInv

\* What ibv_poll_cq takes is the beginning of the queue.
LEMMA Polled ==
  ASSUME RecvInv, Polling
  PROVE  \E b \in 1 .. Len(recv_cq) :
           /\ Len(Batch) = b /\ b <= MaxPoll
           /\ \A i \in 1 .. b : Batch[i] = recv_cq[i]
           /\ Rest \in Seq(Arrival) /\ Len(Rest) = Len(recv_cq) - b
           /\ \A i \in 1 .. Len(Rest) : Rest[i] = recv_cq[b + i]
           /\ recv_cq # <<>>
<1>1. PICK s \in Seq(Arrival), l \in Nat : s = recv_cq /\ l = Len(s) /\ MaxPoll \in Nat \ {0}
  <2>1. MaxPoll \in Nat \ {0}
    BY ChannelAssumption
  <2>2. PICK s \in Seq(Arrival) : s = recv_cq
    BY TypedReceiver DEF RecvInv
  <2> QED BY <2>1, <2>2
<1>2. PICK b \in Nat : b = Min({MaxPoll, l}) /\ b <= MaxPoll /\ b <= l
  <2>1. \E x \in {MaxPoll, l} : \A y \in {MaxPoll, l} : x <= y
    BY <1>1
  <2>2. Min({MaxPoll, l}) \in {MaxPoll, l} /\ \A y \in {MaxPoll, l} : Min({MaxPoll, l}) <= y
    BY <2>1 DEF Min
  <2> QED BY <1>1, <2>2
<1>3. Batch = SubSeq(s, 1, b)
  BY <1>1, <1>2 DEF Batch
<1>4. b > 0
  <2>1. SubSeq(s, 1, b) # <<>>
    BY <1>3 DEF Polling
  <2>2. Len(SubSeq(s, 1, b)) = b
    BY <1>1, <1>2
  <2>3. CASE b = 0
    <3>1. SubSeq(s, 1, b) = <<>>
      BY <1>1, <2>3
    <3> QED BY <2>1, <3>1
  <2> QED BY <2>3
<1>5. Len(Batch) = b /\ \A i \in 1 .. b : Batch[i] = s[i]
  <2>1. \A i \in 1 .. b : s[i] \in Arrival /\ 1 + i - 1 = i
    BY <1>1, <1>2
  <2>2. PICK u : u = SubSeq(s, 1, b)
    OBVIOUS
  <2>3. /\ Len(u) = IF 1 <= b THEN b - 1 + 1 ELSE 0
        /\ \A i \in 1 .. b - 1 + 1 : u[i] = s[1 + i - 1]
    BY <1>2, <2>1, <2>2, SubSeqProperties
  <2>4. 1 <= b /\ b - 1 + 1 = b
    BY <1>2, <1>4
  <2>5. Len(u) = b /\ \A i \in 1 .. b : u[i] = s[i]
    BY <2>1, <2>3, <2>4
  <2> QED BY <1>3, <2>2, <2>5
<1>6. Rest = SubSeq(s, b + 1, l)
  BY <1>1, <1>5 DEF Rest
<1>7. PICK r : r = SubSeq(s, b + 1, l)
  OBVIOUS
<1>8. r \in Seq(Arrival) /\ Len(r) = l - b /\ \A i \in 1 .. l - b : r[i] = s[b + i]
  <2>1. /\ b + 1 \in Int /\ l \in Int /\ l - b \in Nat /\ l - (b + 1) + 1 = l - b
        /\ \A i \in b + 1 .. l : s[i] \in Arrival
        /\ \A i \in 1 .. l - b : b + 1 + i - 1 = b + i
    <3>0. b <= l
      BY <1>2
    <3>1. /\ b + 1 \in Int /\ l \in Int /\ l - b \in Nat /\ l - (b + 1) + 1 = l - b
          /\ \A i \in 1 .. l - b : b + 1 + i - 1 = b + i
          /\ \A i \in b + 1 .. l : i \in 1 .. l
      BY <3>0
    <3>2. \A i \in 1 .. l : s[i] \in Arrival
      BY <1>1
    <3> QED BY <3>1, <3>2
  <2>2. /\ r \in Seq(Arrival)
        /\ Len(r) = IF b + 1 <= l THEN l - (b + 1) + 1 ELSE 0
        /\ \A i \in 1 .. l - (b + 1) + 1 : r[i] = s[b + 1 + i - 1]
    BY <1>7, <2>1, SubSeqProperties
  <2>3. IF b + 1 <= l THEN l - b = l - (b + 1) + 1 ELSE l - b = 0
    BY <1>1, <1>2
  <2>4. Len(r) = l - b
    BY <2>2, <2>3
  <2>5. \A i \in 1 .. l - b : r[i] = s[b + i]
    BY <2>1, <2>2
  <2> QED BY <2>2, <2>4, <2>5
<1>9. b \in 1 .. l /\ recv_cq # <<>>
  <2>1. l > 0
    BY <1>2, <1>4
  <2> QED BY <1>1, <1>2, <1>4, <2>1
<1> QED BY <1>1, <1>2, <1>5, <1>6, <1>7, <1>8, <1>9

\* Taking a batch and posting n requests for it.
LEMMA BatchReplaced ==
  ASSUME RecvInv, Polling, NEW n \in Nat, n <= Len(Batch),
         recv_qp' = recv_qp, PostRecvs(n), recv_cq' = Rest \o Flushed(n)
  PROVE  /\ recv_wrs' \in [Peers -> Nat]
         /\ \A p \in Peers : p # First => recv_wrs'[p] = 0
         /\ recv_cq' \in Seq(Arrival) /\ Len(recv_cq') \in Nat
         /\ Len(Batch) \in 1 .. Len(recv_cq)
         /\ recv_wrs'[First] + Len(recv_cq') = recv_wrs[First] + Len(recv_cq) - Len(Batch) + n
         /\ recv_qp[First] # "init" /\ (primed \/ faults # 0)
         /\ faults = 0 => \A i \in 1 .. Len(recv_cq') : recv_cq'[i].ok
<1>1. PICK b \in 1 .. Len(recv_cq) :
        /\ Len(Batch) = b
        /\ Rest \in Seq(Arrival) /\ Len(Rest) = Len(recv_cq) - b
        /\ \A i \in 1 .. Len(Rest) : Rest[i] = recv_cq[b + i]
        /\ recv_cq # <<>>
  BY Polled
<1>2. PICK l \in Nat, w \in Nat : l = Len(recv_cq) /\ w = recv_wrs[First]
  <2>1. Len(recv_cq) \in Nat /\ recv_wrs[First] \in Nat
    BY FirstIsPeer, TypedReceiver DEF RecvInv
  <2> QED BY <2>1
<1>3. PICK r, f : r = Rest /\ f = Flushed(n)
  OBVIOUS
<1>4. r \in Seq(Arrival) /\ Len(r) = l - b /\ b \in 1 .. l /\ n <= b
  BY <1>1, <1>2, <1>3
<1>5. /\ recv_wrs \in [Peers -> Nat] /\ First \in Peers
      /\ \A p \in Peers : p # First => recv_wrs[p] = 0
      /\ recv_qp[First] # "init" /\ (primed \/ faults # 0)
  BY <1>1, FirstIsPeer, TypedReceiver DEF RecvInv, ReceiverInv
<1>6. CASE recv_qp[First] = "error"
  <2>1. PICK e \in Arrival : e = [of |-> First, ok |-> FALSE]
    BY <1>5 DEF Arrival
  <2>2. f = [i \in 1 .. n |-> e]
    BY <1>2, <1>3, <1>6, <2>1 DEF Flushed
  <2>3. f \in Seq(Arrival) /\ Len(f) = n
    BY <2>2
  <2>4. PICK t \in Seq(Arrival) : t = r \o f /\ Len(t) = (l - b) + n
    <3>1. r \o f \in Seq(Arrival) /\ Len(r \o f) = Len(r) + Len(f)
      BY <1>4, <2>3, ConcatProperties, Zenon
    <3> QED BY <1>4, <2>3, <3>1
  <2>5. recv_wrs' = recv_wrs
    BY <1>6 DEF PostRecvs
  <2>6. faults # 0
    BY <1>5, <1>6 DEF RecvInv, ReceiverInv
  <2>7. t = recv_cq'
    BY <1>2, <1>3, <2>4
  <2>8. w + ((l - b) + n) = w + l - b + n /\ (l - b) + n \in Nat
    BY <1>4
  <2> QED BY <1>1, <1>2, <1>3, <1>5, <2>4, <2>5, <2>6, <2>7, <2>8
<1>7. CASE recv_qp[First] # "error"
  <2>1. f = <<>>
    BY <1>2, <1>3, <1>7 DEF Flushed
  <2>2. r \o f = r
    BY <1>4, <2>1
  <2>3. recv_cq' = r
    BY <1>2, <1>3, <2>2
  <2>4. recv_wrs' = [recv_wrs EXCEPT ![First] = w + n]
    BY <1>2, <1>3, <1>7 DEF PostRecvs
  <2>5. /\ recv_wrs' \in [Peers -> Nat] /\ recv_wrs'[First] = w + n
        /\ \A p \in Peers : p # First => recv_wrs'[p] = 0
    BY <1>5, <2>4
  <2>6. (w + n) + (l - b) = w + l - b + n /\ l - b \in Nat
    BY <1>4
  <2>7. faults = 0 => \A i \in 1 .. Len(r) : r[i].ok
    <3> SUFFICES ASSUME faults = 0, NEW i \in 1 .. Len(r) PROVE r[i].ok
      OBVIOUS
    <3>1. r[i] = recv_cq[b + i] /\ b + i \in 1 .. Len(recv_cq)
      BY <1>1, <1>2, <1>3, <1>4
    <3> QED BY <3>1 DEF RecvInv, ReceiverInv
  <2> QED BY <1>1, <1>2, <1>3, <1>4, <1>5, <2>3, <2>5, <2>6, <2>7
<1> QED BY <1>6, <1>7

LEMMA PollBadReceived ==
  ASSUME RecvInv, PollBad
  PROVE  RecvInv'
<1>1. /\ Polling /\ ~AllOk /\ recv_cq' = Rest
      /\ UNCHANGED <<landed, recv_qp, recv_wrs, primed, broadcasts, failures, fatal,
                     handled, faults>>
  BY DEF PollBad, sendVars
<1>2. PICK b \in 1 .. Len(recv_cq) :
        /\ Len(Batch) = b
        /\ \A i \in 1 .. b : Batch[i] = recv_cq[i]
        /\ Rest \in Seq(Arrival) /\ Len(Rest) = Len(recv_cq) - b
        /\ recv_cq # <<>>
  BY <1>1, Polled
<1>3. faults # 0
  <2>1. PICK i \in 1 .. b : ~Batch[i].ok
    BY <1>1, <1>2 DEF AllOk
  <2>2. ~recv_cq[i].ok /\ i \in 1 .. Len(recv_cq)
    BY <1>2, <2>1
  <2> QED BY <2>2 DEF RecvInv, ReceiverInv
<1>4. /\ Len(recv_cq) \in Nat /\ First \in Peers /\ recv_wrs[First] \in Nat
      /\ RecvDepth \in Nat
  BY FirstIsPeer, TypedReceiver DEF RecvInv
<1>5. /\ recv_wrs[First] + Len(recv_cq') <= RecvDepth
      /\ recv_qp[First] # "init"
  <2>1. recv_wrs[First] + Len(recv_cq) <= RecvDepth /\ recv_qp[First] # "init"
    BY <1>2 DEF RecvInv, ReceiverInv
  <2> QED BY <1>1, <1>2, <1>4, <2>1
<1>6. ReceiverInv'
  BY <1>1, <1>3, <1>4, <1>5 DEF RecvInv, ReceiverInv
<1>7. ReceivesCounted'
  BY <1>1, <1>3 DEF ReceivesCounted
<1>8. RecvTyped'
  <2>1. recv_cq' \in Seq([of : Peers, ok : BOOLEAN])
    BY <1>1, <1>2, Zenon DEF Arrival
  <2> QED BY <1>1, <2>1, Zenon DEF RecvInv, RecvTyped
<1> QED BY <1>6, <1>7, <1>8 DEF RecvInv

LEMMA PollReceived ==
  ASSUME RecvInv, Poll
  PROVE  RecvInv'
<1>1. PICK b : b = Len(Batch)
  OBVIOUS
<1>2. /\ Polling /\ recv_qp' = recv_qp /\ PostRecvs(b) /\ recv_cq' = Rest \o Flushed(b)
      /\ failures' = 0 /\ handled' = handled + b
      /\ UNCHANGED <<landed, primed, broadcasts, fatal, faults>>
  BY <1>1 DEF Poll, sendVars
<1>3. b \in 1 .. Len(recv_cq) /\ b \in Nat
  BY <1>1, <1>2, Polled
<1>4. /\ recv_wrs' \in [Peers -> Nat]
      /\ \A p \in Peers : p # First => recv_wrs'[p] = 0
      /\ recv_cq' \in Seq(Arrival) /\ Len(recv_cq') \in Nat
      /\ recv_wrs'[First] + Len(recv_cq') = recv_wrs[First] + Len(recv_cq) - b + b
      /\ recv_qp[First] # "init" /\ (primed \/ faults # 0)
      /\ faults = 0 => \A i \in 1 .. Len(recv_cq') : recv_cq'[i].ok
  <2>1. b <= Len(Batch)
    BY <1>1, <1>3
  <2> QED BY <1>1, <1>2, <1>3, <2>1, BatchReplaced
<1>5. /\ Len(recv_cq) \in Nat /\ First \in Peers /\ recv_wrs[First] \in Nat
      /\ recv_wrs'[First] \in Nat
      /\ RecvDepth \in Nat /\ MaxFailures \in Nat \ {0} /\ handled \in Nat
  BY <1>4, FirstIsPeer, TypedReceiver, SMTT(30) DEF RecvInv
<1>6. recv_wrs'[First] + Len(recv_cq') = recv_wrs[First] + Len(recv_cq)
  <2>1. PICK w \in Nat, l \in Nat : w = recv_wrs[First] /\ l = Len(recv_cq)
    BY <1>5
  <2>2. w + l - b + b = w + l
    BY <1>3
  <2> QED BY <1>4, <2>1, <2>2
<1>7. ReceiverInv'
  BY <1>2, <1>4, <1>5, <1>6 DEF RecvInv, ReceiverInv
<1>8. ReceivesCounted'
  <2> SUFFICES ASSUME faults = 0
               PROVE  /\ primed => recv_wrs'[First] + Len(recv_cq') = RecvDepth
                      /\ handled' + Len(recv_cq') = landed[First]
                      /\ \A p \in Peers \ {First} : landed[p] = 0
    BY <1>2 DEF ReceivesCounted
  <2>1. /\ primed => recv_wrs[First] + Len(recv_cq) = RecvDepth
        /\ handled + Len(recv_cq) = landed[First]
        /\ \A p \in Peers \ {First} : landed[p] = 0
    BY DEF RecvInv, ReceivesCounted
  <2>2. Len(recv_cq') = Len(recv_cq) - b
    <3>1. recv_qp[First] # "error"
      BY <1>5 DEF RecvInv, ReceiverInv
    <3>2. recv_wrs'[First] = recv_wrs[First] + b
      <4>1. recv_wrs' = [recv_wrs EXCEPT ![First] = @ + b]
        BY <1>2, <3>1 DEF PostRecvs
      <4> QED BY <1>5, <4>1, TypedReceiver DEF RecvInv
    <3> QED BY <1>3, <1>4, <1>5, <1>6, <3>2
  <2> QED BY <1>2, <1>3, <1>5, <1>6, <2>1, <2>2
<1>9. RecvTyped'
  <2>1. recv_wrs' \in [Peers -> 0 .. RecvDepth]
    BY <1>4, <1>7, RequestsTyped
  <2>2. recv_cq' \in Seq([of : Peers, ok : BOOLEAN])
    BY <1>4, Zenon DEF Arrival
  <2>3. failures' \in 0 .. MaxFailures /\ handled' \in Nat
    BY <1>2, <1>3, <1>5
  <2> QED BY <1>2, <2>1, <2>2, <2>3, Zenon DEF RecvInv, RecvTyped
<1> QED BY <1>7, <1>8, <1>9 DEF RecvInv

LEMMA PollPostFailsReceived ==
  ASSUME RecvInv, NEW k \in 0 .. MaxPoll, PollPostFails(k)
  PROVE  RecvInv'
<1>1. PICK b : b = Len(Batch)
  OBVIOUS
<1>2. /\ Polling /\ recv_qp' = recv_qp /\ PostRecvs(k) /\ recv_cq' = Rest \o Flushed(k)
      /\ k < b /\ faults < MaxFaults /\ faults' = faults + 1 /\ failures' = failures + 1
      /\ fatal' = (failures + 1 >= MaxFailures)
      /\ handled' = IF fatal' THEN handled ELSE handled + b
      /\ UNCHANGED <<landed, primed, broadcasts>>
  BY <1>1 DEF PollPostFails, sendVars
<1>3. b \in 1 .. Len(recv_cq) /\ b \in Nat
  BY <1>1, <1>2, Polled
<1>4. k \in Nat /\ k <= b
  BY <1>2, <1>3, ChannelAssumption
<1>5. /\ recv_wrs' \in [Peers -> Nat]
      /\ \A p \in Peers : p # First => recv_wrs'[p] = 0
      /\ recv_cq' \in Seq(Arrival) /\ Len(recv_cq') \in Nat
      /\ recv_wrs'[First] + Len(recv_cq') = recv_wrs[First] + Len(recv_cq) - b + k
      /\ recv_qp[First] # "init"
  BY <1>1, <1>2, <1>4, BatchReplaced
<1>6. /\ Len(recv_cq) \in Nat /\ First \in Peers /\ recv_wrs[First] \in Nat
      /\ RecvDepth \in Nat /\ MaxFailures \in Nat \ {0} /\ handled \in Nat
      /\ failures \in Nat /\ faults \in Nat /\ MaxFaults \in Nat
  BY FirstIsPeer, TypedReceiver DEF RecvInv
<1>7. /\ faults' \in 0 .. MaxFaults /\ faults' # 0
      /\ failures < MaxFailures /\ failures' \in 0 .. MaxFailures
      /\ fatal' \in BOOLEAN /\ handled' \in Nat
      /\ ~fatal' => failures' < MaxFailures
  <2>1. failures < MaxFailures
    BY <1>2 DEF Polling, RecvInv, ReceiverInv
  <2>2. fatal' \in BOOLEAN
    BY <1>2
  <2>3. ~fatal' => failures' < MaxFailures
    <3>1. ~fatal' => ~(failures + 1 >= MaxFailures)
      BY <1>2, Zenon
    <3>2. ~(failures + 1 >= MaxFailures) => failures + 1 < MaxFailures
      BY <1>6
    <3> QED BY <1>2, <3>1, <3>2, Zenon
  <2>4. handled' \in Nat
    BY <1>2, <1>3, <1>6
  <2> QED BY <1>2, <1>6, <2>1, <2>2, <2>3, <2>4
<1>8. ReceiverInv'
  <2>1. recv_wrs'[First] + Len(recv_cq') <= RecvDepth
    <3>1. recv_wrs[First] + Len(recv_cq) <= RecvDepth
      BY DEF RecvInv, ReceiverInv
    <3> QED BY <1>3, <1>4, <1>5, <1>6, <3>1
  <2>2. \A p \in Peers : p # First => landed[p] = 0
    BY DEF RecvInv, ReceiverInv
  <2> QED BY <1>2, <1>5, <1>7, <2>1, <2>2 DEF ReceiverInv
<1>9. ReceivesCounted'
  BY <1>7 DEF ReceivesCounted
<1>10. RecvTyped'
  <2>1. recv_wrs' \in [Peers -> 0 .. RecvDepth]
    BY <1>5, <1>8, RequestsTyped
  <2>2. recv_cq' \in Seq([of : Peers, ok : BOOLEAN])
    BY <1>5, Zenon DEF Arrival
  <2> QED BY <1>2, <1>7, <2>1, <2>2, Zenon DEF RecvInv, RecvTyped
<1> QED BY <1>8, <1>9, <1>10 DEF RecvInv

-----------------------------------------------------------------------------
(* The invariant holds *)

LEMMA Initially ==
  ASSUME Init
  PROVE  IInv
<1>1. /\ BatchSize \in Nat \ {0} /\ SendDepth \in Nat /\ RecvDepth \in Nat \ {0}
      /\ MaxFailures \in Nat \ {0} /\ WritesPerStep \in Nat \ {0} /\ MaxWrites \in [Peers -> Nat]
      /\ MaxRejects \in Nat /\ MaxFaults \in Nat /\ MaxBroadcasts \in Nat
  BY ChannelAssumption
<1>2. First \in Peers
  BY FirstIsPeer
<1>3. ASSUME NEW p \in Peers
      PROVE  /\ qp[p] = "init" /\ pc[p] = "idle" /\ left[p] = 0 /\ counter[p] = 0
             /\ posted[p] = 0 /\ reclaimed[p] = 0 /\ landed[p] = 0 /\ waits[p] = 0
             /\ rejects[p] = 0 /\ signalled[p] = {} /\ send_cq[p] = <<>>
             /\ recv_qp[p] = "init" /\ recv_wrs[p] = 0
  BY DEF Init
<1>4. SendTyped
  <2>1. /\ qp \in [Peers -> {"init", "rts", "error"}]
        /\ pc \in [Peers -> {"idle", "saving", "waiting"}]
        /\ left \in [Peers -> 0 .. WritesPerStep]
        /\ rejects \in [Peers -> 0 .. MaxRejects]
    BY <1>1 DEF Init
  <2>2. /\ counter \in [Peers -> Nat] /\ posted \in [Peers -> Nat]
        /\ reclaimed \in [Peers -> Nat] /\ landed \in [Peers -> Nat]
        /\ waits \in [Peers -> Nat] /\ signalled \in [Peers -> SUBSET Nat]
        /\ send_cq \in [Peers -> Seq(Entry)]
    <3>1. <<>> \in Seq(Entry) /\ {} \in SUBSET Nat
      OBVIOUS
    <3>2. /\ counter \in [Peers -> Nat] /\ posted \in [Peers -> Nat]
          /\ reclaimed \in [Peers -> Nat] /\ landed \in [Peers -> Nat]
          /\ waits \in [Peers -> Nat]
      BY DEF Init
    <3>3. signalled = [p \in Peers |-> {}] /\ send_cq = [p \in Peers |-> <<>>]
      BY DEF Init
    <3>4. send_cq \in [Peers -> Seq(Entry)]
      <4>1. PICK q \in Seq(Entry) : q = <<>>
        BY <3>1
      <4>2. send_cq = [p \in Peers |-> q]
        BY <3>3, <4>1
      <4> QED BY <4>2
    <3>5. signalled \in [Peers -> SUBSET Nat]
      BY <3>3
    <3> QED BY <3>2, <3>4, <3>5
  <2>3. ASSUME NEW p \in Peers PROVE Limits(p)
    <3>1. send_cq[p] \in Seq(Completions(p))
      <4>1. send_cq[p] = <<>>
        BY <1>3
      <4>2. <<>> \in Seq(Completions(p))
        OBVIOUS
      <4> QED BY <4>1, <4>2, Zenon
    <3>2. MaxWrites[p] \in Nat /\ SendDepth \in Nat
      BY <1>1
    <3> QED BY <1>3, <3>1, <3>2 DEF Limits
  <2> QED BY <2>1, <2>2, <2>3, Zenon DEF SendTyped
<1>5. RecvTyped
  <2>1. recv_cq \in Seq([of : Peers, ok : BOOLEAN])
    BY DEF Init
  <2>2. /\ recv_qp \in [Peers -> {"init", "rts", "error"}]
        /\ recv_wrs \in [Peers -> 0 .. RecvDepth]
        /\ primed \in BOOLEAN /\ fatal \in BOOLEAN
        /\ broadcasts \in 0 .. MaxBroadcasts /\ faults \in 0 .. MaxFaults
        /\ failures \in 0 .. MaxFailures /\ handled \in Nat
    <3>1. /\ recv_qp = [p \in Peers |-> "init"] /\ recv_wrs = [p \in Peers |-> 0]
          /\ primed = FALSE /\ broadcasts = 0 /\ failures = 0 /\ fatal = FALSE
          /\ handled = 0 /\ faults = 0
      BY DEF Init
    <3>2. /\ 0 \in 0 .. RecvDepth /\ 0 \in 0 .. MaxBroadcasts /\ 0 \in 0 .. MaxFaults
          /\ 0 \in 0 .. MaxFailures /\ 0 \in Nat
      BY <1>1
    <3> QED BY <3>1, <3>2
  <2> QED BY <2>1, <2>2, Zenon DEF RecvTyped
<1>6. recv_cq = <<>> /\ Len(recv_cq) = 0 /\ ~primed /\ ~fatal /\ failures = 0 /\ handled = 0
  BY DEF Init
<1>7. ReceiverInv
  BY <1>1, <1>2, <1>3, <1>6 DEF ReceiverInv
<1>8. ReceivesCounted
  BY <1>2, <1>3, <1>6 DEF ReceivesCounted
<1>9. ASSUME NEW p \in Peers PROVE SenderInv(p)
  <2>1. MaxWrites[p] \in Nat
    BY <1>1
  <2>2. StepBounded(p)
    BY <1>3, <2>1 DEF StepBounded
  <2>3. CompletionsInOrder(p)
    BY <1>3 DEF CompletionsInOrder
  <2>4. SignalsCounted(p)
    <3>1. Covered(p) = {} /\ \A m : UpTo(p, m) = {}
      BY <1>3 DEF Covered, UpTo
    <3>2. Cardinality({}) = 0
      BY FS_EmptySet
    <3>3. PICK b : b = 0 * BatchSize /\ b = 0
      BY <1>1
    <3>4. /\ Cardinality(signalled[p]) * BatchSize = b
          /\ \A m : Cardinality(UpTo(p, m)) * BatchSize = b
          /\ Cardinality(Covered(p)) = 0
      BY <1>3, <3>1, <3>2, <3>3, Zenon
    <3>5. b <= 0 /\ \A m \in 0 .. 0 : b <= m + (0 - 0)
      BY <3>3
    <3>6. /\ waits[p] = 0 /\ counter[p] = 0 /\ posted[p] = 0 /\ 0 <= 0
      BY <1>3
    <3> QED BY <3>4, <3>5, <3>6, Zenon DEF SignalsCounted
  <2>5. Aligned(p)
    BY <1>3 DEF Aligned
  <2> QED BY <2>2, <2>3, <2>4, <2>5 DEF SenderInv
<1> QED BY <1>4, <1>5, <1>7, <1>8, <1>9, TypesOfBothSides DEF IInv

\* A step of one sender.
LEMMA SenderStep ==
  ASSUME IInv, NEW p \in Peers,
         ConnectSender(p) \/ Sender(p) \/ Land(p) \/ RetriesExceeded(p)
  PROVE  SendTyped' /\ \A q \in Peers : SenderInv(q)'
<1>1. TypeOK /\ SenderInv(p)
  BY DEF IInv
<1>2. SendTyped' /\ SenderInv(p)'
  BY <1>1, CallsTyped, WriteTyped, WaitTyped, LandTyped, RetriesExceededTyped,
     ConnectKeeps, StartStepKeeps, WriteKeeps, WriteFailsKeeps, WriteRejectedKeeps,
     WaitKeeps, LandKeeps, RetriesExceededKeeps, Zenon DEF Sender
<1>3. ASSUME NEW q \in Peers, q # p PROVE SenderInv(q)'
  <2>1. At(q)' = At(q)
    BY <1>1, <1>3, OneSender
  <2> QED BY <2>1, SameSender DEF IInv
<1> QED BY <1>2, <1>3

\* A step of the decode node.
LEMMA ReceiverStep ==
  ASSUME IInv, RecvInv', UNCHANGED sendVars
  PROVE  IInv'
<1>1. SendTyped'
  <2>1. SendTyped
    BY TypesOfBothSides DEF IInv
  <2> QED BY <2>1, Zenon DEF SendTyped, Limits, Completions, sendVars
<1>2. \A p \in Peers : SenderInv(p)'
  <2>1. \A p \in Peers : At(p)' = At(p)
    BY DEF At, sendVars
  <2> QED BY <2>1, SameSender DEF IInv
<1> QED BY <1>1, <1>2, TypesOfBothSides DEF IInv, RecvInv

LEMMA Inductive ==
  ASSUME IInv, [Next]_vars
  PROVE  IInv'
<1>1. RecvInv /\ TypeOK
  BY TypesOfBothSides DEF IInv, RecvInv
<1>2. CASE \E p \in Peers : ConnectSender(p) \/ Sender(p) \/ RetriesExceeded(p)
  <2>1. PICK p \in Peers : ConnectSender(p) \/ Sender(p) \/ RetriesExceeded(p)
    BY <1>2
  <2>2. UNCHANGED <<recvVars, landed>>
    BY <2>1 DEF ConnectSender, Sender, StartStep, Write, WriteFails, WriteRejected, Wait,
                RetriesExceeded
  <2> QED BY <1>1, <2>1, <2>2, SenderStep, SenderLeavesReceiver, TypesOfBothSides
          DEF IInv, RecvInv
<1>3. CASE \E p \in Peers : Land(p)
  BY <1>1, <1>3, SenderStep, LandReceived, TypesOfBothSides DEF IInv, RecvInv
<1>4. CASE \E p \in Peers : RecvQpBreaks(p)
  <2>1. UNCHANGED sendVars
    BY <1>4 DEF RecvQpBreaks
  <2> QED BY <1>1, <1>4, <2>1, BreakReceived, ReceiverStep
<1>5. CASE \E k \in 1 .. Len(PeerOrder) : ConnectFails(k)
  <2>1. UNCHANGED sendVars
    BY <1>5 DEF ConnectFails
  <2> QED BY <1>1, <1>5, <2>1, ConnectFailsReceived, ReceiverStep
<1>6. CASE ConnectAll
  <2>1. RecvDepth \in 0 .. RecvDepth
    BY FirstIsPeer
  <2> QED BY <1>1, <1>6, <2>1, AllConnected, ReceiverStep DEF ConnectAll
<1>7. CASE \E n \in 0 .. RecvDepth : ConnectAllPostFails(n)
  BY <1>1, <1>7, AllConnected, ReceiverStep DEF ConnectAllPostFails
<1>8. CASE PollBad
  BY <1>1, <1>8, PollBadReceived, ReceiverStep DEF PollBad
<1>9. CASE Poll
  BY <1>1, <1>9, PollReceived, ReceiverStep DEF Poll
<1>10. CASE \E k \in 0 .. MaxPoll : PollPostFails(k)
  BY <1>1, <1>10, PollPostFailsReceived, ReceiverStep DEF PollPostFails
<1>11. CASE UNCHANGED vars
  <2>1. UNCHANGED <<recvVars, landed, sendVars>>
    BY <1>11 DEF vars, sendVars
  <2> QED BY <1>1, <2>1, SenderLeavesReceiver, ReceiverStep
<1> QED
  BY <1>2, <1>3, <1>4, <1>5, <1>6, <1>7, <1>8, <1>9, <1>10, <1>11, Zenon
     DEF Next, Network, Broadcast, PollLoop

-----------------------------------------------------------------------------
(* The theorems *)

\* The decode node and its senders stay in the states that the invariant describes,
\* whatever is called, lands or breaks.
THEOREM Invariance == Spec => []IInv
<1>1. Init => IInv
  BY Initially
<1>2. IInv /\ [Next]_vars => IInv'
  BY Inductive
<1> QED BY <1>1, <1>2, PTL DEF Spec

\* Every counter stays within what was called, no send queue holds more than
\* qp_max_send_wr requests and no receive queue more than qp_max_recv_wr.
THEOREM ChannelTyping == Spec => []TypeOK
<1>1. IInv => TypeOK
  BY DEF IInv
<1> QED BY <1>1, Invariance, PTL

\* Until something breaks, the receive requests of the decode node are conserved and no
\* write that landed is missing among the completions.  (post_recv_wrs, poll_recv_cq)
THEOREM ReceivesStayConserved == Spec => []ReceivesConserved
<1>1. IInv => ReceivesConserved
  <2> SUFFICES ASSUME IInv, faults = 0
               PROVE  /\ primed => recv_wrs[First] + Len(recv_cq) = RecvDepth
                      /\ \A p \in Peers : landed[p] <= handled + Len(recv_cq)
    BY DEF ReceivesConserved
  <2>1. /\ primed => recv_wrs[First] + Len(recv_cq) = RecvDepth
        /\ handled + Len(recv_cq) = landed[First]
        /\ \A p \in Peers \ {First} : landed[p] = 0
    BY DEF IInv, ReceivesCounted
  <2>2. landed \in [Peers -> Nat] /\ First \in Peers
    BY FirstIsPeer DEF IInv, TypeOK
  <2>3. ASSUME NEW p \in Peers PROVE landed[p] <= handled + Len(recv_cq)
    <3>1. CASE p = First
      BY <2>1, <2>2, <3>1
    <3>2. CASE p # First
      <4>1. landed[p] = 0 /\ landed[First] >= 0
        BY <2>1, <2>2, <3>2
      <4> QED BY <2>1, <4>1
    <3> QED BY <3>1, <3>2
  <2> QED BY <2>1, <2>3
<1> QED BY <1>1, Invariance, PTL

\* A successful wait stands for BatchSize writes that landed or failed.
THEOREM WaitsCover == Spec => []WaitsCoverBatches
<1>1. ASSUME IInv, NEW p \in Peers
      PROVE  waits[p] * BatchSize <= landed[p] + (counter[p] - posted[p])
  <2>1. /\ TypeOK /\ SignalsCounted(p)
    BY <1>1 DEF IInv, SenderInv
  <2>2. PICK b \in Nat, w \in Nat, n \in Nat : b = BatchSize /\ w = waits[p] /\ n = landed[p]
    BY <2>1, Typed
  <2>3. n \in 0 .. posted[p]
    BY <2>1, <2>2, Typed
  <2>4. PICK c \in Nat, k \in Nat :
          c = Cardinality(Covered(p)) /\ k = Cardinality(UpTo(p, n)) /\ c <= k
    <3>1. Covered(p) \subseteq UpTo(p, n) /\ UpTo(p, n) \subseteq signalled[p]
      BY <2>2 DEF Covered, UpTo
    <3>2. Covered(p) \subseteq signalled[p]
      BY <3>1
    <3>3. /\ IsFiniteSet(UpTo(p, n)) /\ Cardinality(UpTo(p, n)) \in Nat
          /\ Cardinality(Covered(p)) \in Nat
      BY <2>1, <3>1, <3>2, Signals
    <3>4. Cardinality(Covered(p)) <= Cardinality(UpTo(p, n))
      BY <3>1, <3>3, FS_Subset
    <3> QED BY <3>3, <3>4
  <2>5. w <= c /\ k * b <= n + (counter[p] - posted[p])
    BY <2>1, <2>2, <2>3, <2>4 DEF SignalsCounted
  <2>6. w <= k
    BY <2>4, <2>5
  <2>7. w * b <= k * b /\ w * b \in Nat /\ k * b \in Nat
    BY <2>6, SmallerProduct
  <2>8. counter[p] - posted[p] \in Int
    BY <2>1, Typed
  <2> QED BY <2>2, <2>5, <2>7, <2>8
<1>2. IInv => WaitsCoverBatches
  BY <1>1 DEF WaitsCoverBatches
<1> QED BY <1>2, Invariance, PTL

\* A full send queue of a connected peer holds a signalled write, polled or on its way.
THEOREM FullQueuesDrain == Spec => []FullQueueDrains
<1>1. ASSUME IInv, NEW p \in Peers,
             posted[p] - reclaimed[p] = SendDepth, qp[p] = "rts", rejects[p] = 0
      PROVE  send_cq[p] # <<>> \/ \E n \in signalled[p] : n > landed[p]
  <2>1. TypeOK /\ Aligned(p) /\ CompletionsInOrder(p)
    BY <1>1 DEF IInv, SenderInv
  <2>2. PICK r \in Nat, d \in Nat \ {0} : r = reclaimed[p] /\ d = BatchSize
    BY <2>1, Typed
  <2>3. PICK off \in Nat :
          \A n \in 1 .. posted[p] : n \in signalled[p] <=> (n + off) % d = 0
    BY <1>1, <2>1, <2>2 DEF Aligned
  <2>4. PICK n \in r + 1 .. r + d : (n + off) % d = 0
    BY MultipleWithin
  <2>5. /\ posted[p] \in Nat /\ landed[p] \in Nat /\ SendDepth \in Nat /\ SendDepth >= d
    BY <2>1, <2>2, Typed
  <2>6. n \in 1 .. posted[p] /\ reclaimed[p] < n
    BY <1>1, <2>2, <2>4, <2>5
  <2>7. n \in signalled[p]
    BY <2>3, <2>4, <2>6
  <2>8. CASE n > landed[p]
    BY <2>7, <2>8
  <2>9. CASE n <= landed[p]
    <3>1. PICK i \in 1 .. Len(send_cq[p]) : send_cq[p][i].id = n
      BY <2>1, <2>6, <2>7, <2>9 DEF CompletionsInOrder
    <3>2. send_cq[p] # <<>>
      BY <3>1
    <3> QED BY <3>2
  <2> QED BY <2>5, <2>6, <2>8, <2>9
<1>2. IInv => FullQueueDrains
  BY <1>1 DEF FullQueueDrains
<1> QED BY <1>2, Invariance, PTL
=============================================================================
