----------------------------- MODULE RdmaChannel -----------------------------
(***************************************************************************)
(* The KV writes of the prefill nodes to one decode node: who signals and  *)
(* waits for what on the sending side, and who posts receive requests to   *)
(* which queue pair on the receiving side.                                 *)
(*                                                                         *)
(* A sender has one queue pair to the decode node and writes through it in *)
(* steps: a forward pass writes some tensors and then waits.  The network  *)
(* and the adapters are external: writes of a queue pair land in order,    *)
(* each takes a receive request of the queue pair it arrives at, a sender  *)
(* that meets none tries again (rnr_retry 7, the default, is for ever), a  *)
(* peer that does not answer puts the sender's queue pair into error, and  *)
(* a queue pair in error completes what is posted on it with an error.     *)
(***************************************************************************)
EXTENDS Integers, Sequences, SequencesExt, FiniteSetsExt

CONSTANTS Peers,         \* the prefill nodes
          PeerOrder,     \* their order in peer_qps_, a std::map
          BatchSize,     \* cq_batch_size_
          SendDepth,     \* qp_max_send_wr
          RecvDepth,     \* qp_max_recv_wr
          MaxPoll,       \* completions that rdma_poll_loop asks for at once
          MaxFailures,   \* MAX_REPLENISH_FAILURES
          WritesPerStep, \* tensors that a forward pass writes
          MaxWrites,     \* bound on the writes each peer attempts
          MaxRejects,    \* bound on the writes refused for their bounds
          MaxFaults,     \* bound on faults of the receiving adapter
          MaxBroadcasts  \* bound on the calls of connect_all_qps

ASSUME ChannelAssumption ==
  /\ PeerOrder \in Seq(Peers) /\ PeerOrder # <<>> /\ IsInjective(PeerOrder)
  /\ BatchSize \in Nat \ {0} /\ SendDepth \in Nat /\ SendDepth >= BatchSize
  /\ RecvDepth \in Nat \ {0} /\ MaxPoll \in Nat \ {0} /\ MaxFailures \in Nat \ {0}
  /\ WritesPerStep \in Nat \ {0} /\ MaxWrites \in [Peers -> Nat]
  /\ MaxRejects \in Nat /\ MaxFaults \in Nat /\ MaxBroadcasts \in Nat

First == PeerOrder[1]

VARIABLES
  qp,         \* the sender's queue pair
  pc, left,   \* its vLLM thread: where it is, writes left in the step
  counter,    \* write_counter_
  posted,     \* writes posted; the n-th one has the number n
  reclaimed,  \* writes whose send-queue entry is free again
  signalled,  \* the numbers of the writes that were posted with signal
  send_cq,    \* completions to be polled
  landed,     \* writes that are in the buffer of the decode node
  waits,      \* history: waits that polled a success
  rejects,    \* history: writes refused for their bounds
  recv_qp,    \* the decode node's queue pair for a peer
  recv_wrs,   \* receive requests posted on it
  primed,     \* connect_all_qps has succeeded
  broadcasts, \* calls of connect_all_qps so far
  recv_cq,    \* completions to be polled: of which peer, and whether good
  failures,   \* recv_wr_replenish_failures_
  fatal,      \* rdma_fatal_error_
  handled,    \* completions given to rdma_poll_loop
  faults      \* faults of the receiving adapter so far

sendVars == <<qp, pc, left, counter, posted, reclaimed, signalled, send_cq, landed,
              waits, rejects>>
recvVars == <<recv_qp, recv_wrs, primed, broadcasts, recv_cq, failures, fatal,
              handled, faults>>
vars == <<sendVars, recvVars>>

Init ==
  /\ qp = [p \in Peers |-> "init"]
  /\ pc = [p \in Peers |-> "idle"] /\ left = [p \in Peers |-> 0]
  /\ counter = [p \in Peers |-> 0]
  /\ posted = [p \in Peers |-> 0] /\ reclaimed = [p \in Peers |-> 0]
  /\ signalled = [p \in Peers |-> {}]
  /\ send_cq = [p \in Peers |-> <<>>]
  /\ landed = [p \in Peers |-> 0]
  /\ waits = [p \in Peers |-> 0] /\ rejects = [p \in Peers |-> 0]
  /\ recv_qp = [p \in Peers |-> "init"]
  /\ recv_wrs = [p \in Peers |-> 0]
  /\ primed = FALSE /\ broadcasts = 0
  /\ recv_cq = <<>>
  /\ failures = 0 /\ fatal = FALSE
  /\ handled = 0 /\ faults = 0

-----------------------------------------------------------------------------
(* The sender: save_kv_layer and wait_for_save *)

\* connect_qp_to_peer on the prefill node.
ConnectSender(p) ==
  /\ qp[p] = "init"
  /\ qp' = [qp EXCEPT ![p] = "rts"]
  /\ UNCHANGED <<pc, left, counter, posted, reclaimed, signalled, send_cq, landed,
                 waits, rejects, recvVars>>

\* A forward pass begins: save_kv_layer writes keys and values of its layers.
StartStep(p) ==
  /\ pc[p] = "idle" /\ counter[p] + WritesPerStep <= MaxWrites[p]
  /\ pc' = [pc EXCEPT ![p] = "saving"]
  /\ left' = [left EXCEPT ![p] = WritesPerStep]
  /\ UNCHANGED <<qp, counter, posted, reclaimed, signalled, send_cq, landed, waits,
                 rejects, recvVars>>

\* Mutant: the batch is tuned without a look at the send queue.
SignalNowTooRarely(p) == (counter[p] + 1) % (SendDepth + 1) = 0

\* Mutant: the counter is looked at before it is incremented.
SignalNowBefore(p) == counter[p] % BatchSize = 0

\* rdma_write signals every BatchSize-th call of it.
SignalNow(p) == (counter[p] + 1) % BatchSize = 0

\* Mutant: the step waits one write too late.
AdvanceTooLate(p) ==
  /\ left' = [left EXCEPT ![p] = @ - 1]
  /\ pc' = [pc EXCEPT ![p] = IF left[p] = 0 THEN "waiting" ELSE "saving"]

\* One more write has been made; after the last one the step waits.
Advance(p) ==
  /\ left' = [left EXCEPT ![p] = @ - 1]
  /\ pc' = [pc EXCEPT ![p] = IF left[p] = 1 THEN "waiting" ELSE "saving"]

\* _rdma_write raises: the step is given up.
GiveUp(p) ==
  /\ left' = [left EXCEPT ![p] = 0]
  /\ pc' = [pc EXCEPT ![p] = "idle"]

\* rdma_write, ibv_post_send takes the request.  On a queue pair in error it
\* completes at once.
Write(p) ==
  /\ pc[p] = "saving"
  /\ counter' = [counter EXCEPT ![p] = @ + 1]
  /\ qp[p] # "init" /\ posted[p] - reclaimed[p] < SendDepth
  /\ posted' = [posted EXCEPT ![p] = @ + 1]
  /\ signalled' = [signalled EXCEPT ![p] =
                     IF SignalNow(p) THEN @ \cup {posted[p] + 1} ELSE @]
  /\ send_cq' = [send_cq EXCEPT ![p] =
                   IF qp[p] = "error" THEN Append(@, [id |-> posted[p] + 1, ok |-> FALSE])
                   ELSE @]
  /\ Advance(p)
  /\ UNCHANGED <<qp, reclaimed, landed, waits, rejects, recvVars>>

\* ibv_post_send refuses: not connected, or the send queue is full.
WriteFails(p) ==
  /\ pc[p] = "saving"
  /\ counter' = [counter EXCEPT ![p] = @ + 1]
  /\ qp[p] = "init" \/ posted[p] - reclaimed[p] = SendDepth
  /\ GiveUp(p)
  /\ UNCHANGED <<qp, posted, reclaimed, signalled, send_cq, landed, waits, rejects,
                 recvVars>>

\* post_write_external refuses a write beyond the remote buffer; it was counted.
WriteRejected(p) ==
  /\ pc[p] = "saving" /\ rejects[p] < MaxRejects
  /\ counter' = [counter EXCEPT ![p] = @ + 1]
  /\ rejects' = [rejects EXCEPT ![p] = @ + 1]
  /\ GiveUp(p)
  /\ UNCHANGED <<qp, posted, reclaimed, signalled, send_cq, landed, waits, recvVars>>

\* Mutant: a wait for two completions.
WaitForTwo(p) ==
  /\ pc[p] = "waiting" /\ Len(send_cq[p]) >= 2
  /\ reclaimed' = [reclaimed EXCEPT ![p] = send_cq[p][2].id]
  /\ waits' = [waits EXCEPT ![p] = @ + (IF Head(send_cq[p]).ok THEN 1 ELSE 0)]
  /\ send_cq' = [send_cq EXCEPT ![p] = Tail(Tail(@))]
  /\ pc' = [pc EXCEPT ![p] = "idle"]
  /\ UNCHANGED <<qp, left, counter, posted, signalled, landed, rejects, recvVars>>

\* wait_for_save polls until there is one completion; what it says is ignored.
Wait(p) ==
  /\ pc[p] = "waiting" /\ send_cq[p] # <<>>
  /\ reclaimed' = [reclaimed EXCEPT ![p] = Head(send_cq[p]).id]
  /\ waits' = [waits EXCEPT ![p] = @ + (IF Head(send_cq[p]).ok THEN 1 ELSE 0)]
  /\ send_cq' = [send_cq EXCEPT ![p] = Tail(@)]
  /\ pc' = [pc EXCEPT ![p] = "idle"]
  /\ UNCHANGED <<qp, left, counter, posted, signalled, landed, rejects, recvVars>>

-----------------------------------------------------------------------------
(* The network *)

\* The next write of p lands and takes a receive request; it completes at both
\* ends, at the sender if it was signalled.
Land(p) ==
  LET n == landed[p] + 1 IN
  /\ qp[p] = "rts" /\ recv_qp[p] = "rts"
  /\ n <= posted[p] /\ recv_wrs[p] > 0
  /\ landed' = [landed EXCEPT ![p] = n]
  /\ send_cq' = [send_cq EXCEPT ![p] =
                   IF n \in signalled[p] THEN Append(@, [id |-> n, ok |-> TRUE]) ELSE @]
  /\ recv_wrs' = [recv_wrs EXCEPT ![p] = @ - 1]
  /\ recv_cq' = Append(recv_cq, [of |-> p, ok |-> TRUE])
  /\ UNCHANGED <<qp, pc, left, counter, posted, reclaimed, signalled, waits, rejects,
                 recv_qp, primed, broadcasts, failures, fatal, handled, faults>>

\* The peer does not answer: retry_cnt is used up, and everything that is posted
\* completes with an error.
RetriesExceeded(p) ==
  /\ qp[p] = "rts" /\ recv_qp[p] # "rts" /\ landed[p] < posted[p]
  /\ qp' = [qp EXCEPT ![p] = "error"]
  /\ send_cq' = [send_cq EXCEPT ![p] =
                   @ \o [i \in 1 .. posted[p] - landed[p] |-> [id |-> landed[p] + i, ok |-> FALSE]]]
  /\ UNCHANGED <<pc, left, counter, posted, reclaimed, signalled, landed, waits, rejects,
                 recvVars>>

\* A queue pair of the decode node breaks: its receive requests complete with errors.
RecvQpBreaks(p) ==
  /\ recv_qp[p] = "rts" /\ faults < MaxFaults
  /\ faults' = faults + 1
  /\ recv_qp' = [recv_qp EXCEPT ![p] = "error"]
  /\ recv_wrs' = [recv_wrs EXCEPT ![p] = 0]
  /\ recv_cq' = recv_cq \o [i \in 1 .. recv_wrs[p] |-> [of |-> p, ok |-> FALSE]]
  /\ UNCHANGED <<sendVars, primed, broadcasts, failures, fatal, handled>>

-----------------------------------------------------------------------------
(* The decode node: connect_all_qps and poll_recv_cq *)

\* post_recv_wrs: n receive requests on the first queue pair of the map.
PostRecvs(n) ==
  IF recv_qp'[First] = "error"
  THEN recv_wrs' = recv_wrs
  ELSE recv_wrs' = [recv_wrs EXCEPT ![First] = @ + n]

\* connect_all_qps goes through the map and stops at the first queue pair that
\* cannot be connected: the k-th one, or one that is connected already.
ConnectFails(k) ==
  /\ broadcasts < MaxBroadcasts
  /\ broadcasts' = broadcasts + 1
  /\ k \in 1 .. Len(PeerOrder)
  /\ \A i \in 1 .. k - 1 : recv_qp[PeerOrder[i]] = "init"
  /\ recv_qp' = [p \in Peers |-> IF \E i \in 1 .. k - 1 : PeerOrder[i] = p
                                 THEN "rts" ELSE recv_qp[p]]
  /\ UNCHANGED <<sendVars, recv_wrs, primed, recv_cq, failures, fatal, handled, faults>>

\* Mutant: nothing is posted in advance.
ConnectAllUnprimed ==
  /\ broadcasts < MaxBroadcasts
  /\ broadcasts' = broadcasts + 1
  /\ \A p \in Peers : recv_qp[p] = "init"
  /\ recv_qp' = [p \in Peers |-> "rts"]
  /\ primed' = TRUE
  /\ UNCHANGED <<sendVars, recv_wrs, recv_cq, failures, fatal, handled, faults>>

\* All are connected, and the receive requests are posted.
ConnectAll ==
  /\ broadcasts < MaxBroadcasts
  /\ broadcasts' = broadcasts + 1
  /\ \A p \in Peers : recv_qp[p] = "init"
  /\ recv_qp' = [p \in Peers |-> "rts"]
  /\ PostRecvs(RecvDepth)
  /\ primed' = TRUE
  /\ UNCHANGED <<sendVars, recv_cq, failures, fatal, handled, faults>>

\* All are connected and posting fails after n requests.
ConnectAllPostFails(n) ==
  /\ broadcasts < MaxBroadcasts /\ faults < MaxFaults
  /\ broadcasts' = broadcasts + 1 /\ faults' = faults + 1
  /\ \A p \in Peers : recv_qp[p] = "init"
  /\ recv_qp' = [p \in Peers |-> "rts"]
  /\ n < RecvDepth /\ PostRecvs(n)
  /\ UNCHANGED <<sendVars, primed, recv_cq, failures, fatal, handled>>

\* ibv_poll_cq takes what is there, up to what the loop asks for.
Batch == SubSeq(recv_cq, 1, Min({MaxPoll, Len(recv_cq)}))
Rest  == SubSeq(recv_cq, Len(Batch) + 1, Len(recv_cq))
AllOk == \A i \in 1 .. Len(Batch) : Batch[i].ok

\* Requests posted on a broken queue pair complete at once, with an error.
Flushed(n) ==
  IF recv_qp[First] = "error" THEN [i \in 1 .. n |-> [of |-> First, ok |-> FALSE]] ELSE <<>>

Polling == ~fatal /\ Batch # <<>>

\* A bad completion: the whole batch is given up and nothing is posted for it.
PollBad ==
  /\ Polling /\ ~AllOk
  /\ recv_cq' = Rest
  /\ UNCHANGED <<sendVars, recv_qp, recv_wrs, primed, broadcasts, failures, fatal,
                 handled, faults>>

\* Mutant: one receive request less than completions.
PollOneShort ==
  /\ Polling /\ AllOk
  /\ recv_qp' = recv_qp /\ PostRecvs(Len(Batch) - 1)
  /\ recv_cq' = Rest \o Flushed(Len(Batch) - 1)
  /\ failures' = 0
  /\ handled' = handled + Len(Batch)
  /\ UNCHANGED <<sendVars, primed, broadcasts, fatal, faults>>

\* A good batch: a receive request is posted for each of its completions.
Poll ==
  /\ Polling /\ AllOk
  /\ recv_qp' = recv_qp /\ PostRecvs(Len(Batch))
  /\ recv_cq' = Rest \o Flushed(Len(Batch))
  /\ failures' = 0
  /\ handled' = handled + Len(Batch)
  /\ UNCHANGED <<sendVars, primed, broadcasts, fatal, faults>>

\* Posting fails after k requests.  The batch is handled all the same, until it is
\* the MaxFailures-th failure in a row: then it is lost and the loop stops.
PollPostFails(k) ==
  /\ Polling /\ AllOk /\ k < Len(Batch) /\ faults < MaxFaults
  /\ faults' = faults + 1
  /\ recv_qp' = recv_qp /\ PostRecvs(k)
  /\ recv_cq' = Rest \o Flushed(k)
  /\ failures' = failures + 1
  /\ fatal' = (failures + 1 >= MaxFailures)
  /\ handled' = IF fatal' THEN handled ELSE handled + Len(Batch)
  /\ UNCHANGED <<sendVars, primed, broadcasts>>

Sender(p) == \/ StartStep(p) \/ Write(p) \/ WriteFails(p) \/ WriteRejected(p) \/ Wait(p)
PollLoop  == PollBad \/ Poll \/ \E k \in 0 .. MaxPoll : PollPostFails(k)
Broadcast == ConnectAll \/ (\E n \in 0 .. RecvDepth : ConnectAllPostFails(n))
             \/ \E k \in 1 .. Len(PeerOrder) : ConnectFails(k)
Network   == \E p \in Peers : Land(p) \/ RetriesExceeded(p) \/ RecvQpBreaks(p)

Next == \/ \E p \in Peers : ConnectSender(p) \/ Sender(p)
        \/ Network \/ Broadcast \/ PollLoop

Spec == Init /\ [][Next]_vars

\* The network delivers, the poll loop and the vLLM threads run; whether anything
\* connects or breaks is left open.
FairSpec == /\ Spec
            /\ WF_vars(PollLoop)
            /\ \A p \in Peers : WF_vars(Land(p)) /\ WF_vars(Wait(p))

-----------------------------------------------------------------------------
(* Properties *)

Completions(p) == [id : 1 .. MaxWrites[p], ok : BOOLEAN]

TypeOK ==
  /\ qp \in [Peers -> {"init", "rts", "error"}]
  /\ pc \in [Peers -> {"idle", "saving", "waiting"}]
  /\ left \in [Peers -> 0 .. WritesPerStep]
  /\ counter \in [Peers -> Nat] /\ posted \in [Peers -> Nat]
  /\ reclaimed \in [Peers -> Nat] /\ landed \in [Peers -> Nat]
  /\ waits \in [Peers -> Nat] /\ rejects \in [Peers -> 0 .. MaxRejects]
  /\ signalled \in [Peers -> SUBSET Nat]
  /\ send_cq \in [Peers -> Seq([id : Nat, ok : BOOLEAN])]
  /\ \A p \in Peers :
       /\ counter[p] <= MaxWrites[p] /\ posted[p] <= counter[p]
       /\ reclaimed[p] <= posted[p] /\ landed[p] <= posted[p]
       /\ posted[p] - reclaimed[p] <= SendDepth
       /\ signalled[p] \subseteq 1 .. posted[p]
       /\ send_cq[p] \in Seq(Completions(p))
  /\ recv_qp \in [Peers -> {"init", "rts", "error"}]
  /\ recv_wrs \in [Peers -> 0 .. RecvDepth]
  /\ primed \in BOOLEAN /\ fatal \in BOOLEAN
  /\ broadcasts \in 0 .. MaxBroadcasts /\ faults \in 0 .. MaxFaults
  /\ recv_cq \in Seq([of : Peers, ok : BOOLEAN])
  /\ failures \in 0 .. MaxFailures /\ handled \in Nat

\* The decode node neither gains nor loses receive requests while nothing breaks:
\* each is posted on the first queue pair or waits as a completion, and no write that
\* landed is missing among the completions that wait there or were given to
\* rdma_poll_loop.  (post_recv_wrs, poll_recv_cq)
ReceivesConserved ==
  faults = 0 =>
    /\ primed => recv_wrs[First] + Len(recv_cq) = RecvDepth
    /\ \A p \in Peers : landed[p] <= handled + Len(recv_cq)

\* n successful waits mean that n batches of writes are in the decode node's buffer,
\* less the writes that failed.  (write_counter_, rdma_wait_completion)
WaitsCoverBatches ==
  \A p \in Peers :
    waits[p] * BatchSize <= landed[p] + (counter[p] - posted[p])

\* A full send queue holds a write that will complete, so the next wait makes
\* room, as long as no write was refused for its bounds.  (cq_batch_size_, qp_max_send_wr)
FullQueueDrains ==
  \A p \in Peers :
    (posted[p] - reclaimed[p] = SendDepth /\ qp[p] = "rts" /\ rejects[p] = 0) =>
      send_cq[p] # <<>> \/ \E n \in signalled[p] : n > landed[p]

\* Nothing is wrong with the way from a peer to the decode node.
Healthy(p) == primed /\ faults = 0 /\ qp[p] # "error"

\* Every write of p lands, however many more there are than receive requests, unless
\* something breaks.
Served(p) ==
  \A n \in 1 .. MaxWrites[p] :
    (posted[p] >= n /\ qp[p] = "rts" /\ Healthy(p)) ~> (landed[p] >= n \/ ~Healthy(p))

\* The writes of the first peer land.  (poll_recv_cq replenishes what it polls)
FirstPeerServed == Served(First)

\* The receive requests on the first queue pair serve the writes of any peer, as the
\* comment of post_recv_wrs has it.
AnyPeerServed == \A p \in Peers : Served(p)

\* A wait of the first peer ends if a signalled write is on its way.  (wait_for_save)
WaitEnds ==
  (/\ pc[First] = "waiting" /\ Healthy(First)
   /\ send_cq[First] # <<>> \/ \E n \in signalled[First] : n > landed[First])
    ~> (pc[First] # "waiting" \/ ~Healthy(First))
=============================================================================
