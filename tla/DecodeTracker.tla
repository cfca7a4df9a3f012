---------------------------- MODULE DecodeTracker ----------------------------
(***************************************************************************)
(* The decode node's half of a request: the slot it is told to expect a KV *)
(* cache in, the layers that the prefill node writes there by RDMA, the    *)
(* poll thread that counts them, and the worker threads that start the     *)
(* decode.  They share RequestTrackerLayer; a step of a worker or of the   *)
(* poll thread is one critical section of its mutex.                       *)
(*                                                                         *)
(* Each layer arrives as two writes with the same immediate value, keys    *)
(* before values; the writes of one request share a queue pair and land in *)
(* order.  The event queue holds two events for a request at most and is   *)
(* configured with room for 1000, so a push never fails here.              *)
(***************************************************************************)
EXTENDS Integers, Sequences, FiniteSets

CONSTANTS Requests,
          Workers,     \* threads of the node's worker pool
          MaxSlots,    \* slots that the orchestrator hands out
          MaxConcurrent, \* MemoryLayout::max_concurrent_requests
          NumLayers,   \* layers of the model
          MaxBatch,    \* completions taken by one poll (32)
          MaxErrors,   \* bound on failing completions, fences and decode calls
          NoReq        \* model value for "absent"

ASSUME DecodeAssumption ==
  /\ MaxSlots \in 1 .. 256 /\ NumLayers \in 1 .. 256
  /\ MaxConcurrent \in 1 .. 256
  /\ MaxBatch \in Nat \ {0}
  /\ MaxErrors \in Nat
  /\ NoReq \notin Requests

Slots  == 0 .. (MaxSlots - 1)
Layers == 0 .. (NumLayers - 1)
NoSlot == -1

\* The two writes of every layer.
AllWrites == 2 * NumLayers

Events == [type : {"PREPARE_DECODE_SLOT", "KV_TRANSFER_COMPLETE"}, req : Requests]
Event(t, r) == [type |-> t, req |-> r]

\* A completion as the poll thread sees it: an error, or an immediate value.
Completions == [ok : BOOLEAN, slot : Slots, layer : Layers]

States == {"ASSIGNED", "WAITING_FOR_KV", "RECEIVING_KV", "READY_FOR_DECODE",
           "DECODING", "COMPLETED", "FAILED"}

PCs == {"idle", "add", "set_waiting", "get", "set_decoding", "post",
        "set_completed", "set_failed", "reply", "remove"}

VARIABLES
  big_endian,     \* the host's byte order
  phase,          \* what the orchestrator did with a request
  slot_of,        \* the slot in its messages
  landed,         \* number of the request's writes that are in the buffer
  broken,         \* requests whose queue pair failed
  errors,         \* failures so far
  cq,             \* the receive completion queue
  event_queue,    \* the node's event queue, a FIFO
  tracked,        \* keys of RequestTrackerLayer::requests_
  seq_to_request, \* its map from sequence number to request
  state,          \* RequestInfo::state of a tracked request
  received,       \* the layers marked received
  batch, poll_pc, poll_req,  \* locals of the poll thread
  pc, req,        \* locals of the worker threads
  crashed,        \* an exception has ended the node's process
  seen,           \* writes in the buffer at each decode call of a request
  completed       \* requests reported with DECODE_COMPLETE

envVars     == <<big_endian, phase, slot_of, landed, broken>>
trackerVars == <<tracked, seq_to_request, state, received>>
pollVars    == <<batch, poll_pc, poll_req>>
workerVars  == <<pc, req>>
resultVars  == <<crashed, seen, completed>>
vars == <<envVars, errors, cq, event_queue, trackerVars, pollVars, workerVars,
          resultVars>>

-----------------------------------------------------------------------------
Init ==
  /\ big_endian \in BOOLEAN
  /\ phase = [r \in Requests |-> "new"]
  /\ slot_of = [r \in Requests |-> NoSlot]
  /\ landed = [r \in Requests |-> 0]
  /\ broken = {} /\ errors = 0
  /\ cq = <<>> /\ event_queue = <<>>
  /\ tracked = {}
  /\ seq_to_request = [s \in Slots |-> NoReq]
  /\ state = [r \in Requests |-> "ASSIGNED"]
  /\ received = [r \in Requests |-> {}]
  /\ batch = <<>> /\ poll_pc = "poll" /\ poll_req = NoReq
  /\ pc = [w \in Workers |-> "idle"]
  /\ req = [w \in Workers |-> NoReq]
  /\ crashed = FALSE
  /\ seen = [r \in Requests |-> <<>>]
  /\ completed = {}

-----------------------------------------------------------------------------
(* The orchestrator and the prefill node *)

\* Slots that the orchestrator has given out.  It never takes back the slot of a
\* finished request, but it does if it gives up after PREPARE_DECODE_SLOT.
SlotsInUse == {slot_of[r] : r \in {q \in Requests : phase[q] \in {"prepared", "assigned"}}}

SendPrepare(r, s) ==
  /\ phase[r] = "new"
  /\ s \notin SlotsInUse
  /\ phase' = [phase EXCEPT ![r] = "prepared"]
  /\ slot_of' = [slot_of EXCEPT ![r] = s]
  /\ event_queue' = Append(event_queue, Event("PREPARE_DECODE_SLOT", r))
  /\ UNCHANGED <<big_endian, landed, broken, errors, cq, trackerVars, pollVars,
                 workerVars, resultVars>>

\* The prefill node is told to start, or the orchestrator gives up.
AfterPrepare(r, p) ==
  /\ phase[r] = "prepared"
  /\ phase' = [phase EXCEPT ![r] = p]
  /\ UNCHANGED <<big_endian, slot_of, landed, broken, errors, cq, event_queue,
                 trackerVars, pollVars, workerVars, resultVars>>

\* post_write_external: the next write of r, a layer's keys or its values, with
\* the immediate value [slot | layer].
Completion(ok, r) == [ok |-> ok, slot |-> slot_of[r], layer |-> landed[r] \div 2]

\* Mutant: one write too many.
WriteOneMore(r) ==
  /\ phase[r] = "assigned" /\ r \notin broken
  /\ landed[r] <= AllWrites
  /\ landed' = [landed EXCEPT ![r] = @ + 1]
  /\ cq' = Append(cq, Completion(TRUE, r))
  /\ UNCHANGED <<big_endian, phase, slot_of, broken, errors, event_queue,
                 trackerVars, pollVars, workerVars, resultVars>>

\* The next write of save_kv_layer: its data is in the buffer when its
\* completion is in the queue.
Write(r) ==
  /\ phase[r] = "assigned" /\ r \notin broken
  /\ landed[r] < AllWrites
  /\ landed' = [landed EXCEPT ![r] = @ + 1]
  /\ cq' = Append(cq, Completion(TRUE, r))
  /\ UNCHANGED <<big_endian, phase, slot_of, broken, errors, event_queue,
                 trackerVars, pollVars, workerVars, resultVars>>

\* The queue pair fails: a completion with an error status.
WriteFails(r) ==
  /\ phase[r] = "assigned" /\ r \notin broken
  /\ landed[r] < AllWrites
  /\ errors < MaxErrors
  /\ errors' = errors + 1
  /\ broken' = broken \cup {r}
  /\ cq' = Append(cq, Completion(FALSE, r))
  /\ UNCHANGED <<big_endian, phase, slot_of, landed, event_queue, trackerVars,
                 pollVars, workerVars, resultVars>>

-----------------------------------------------------------------------------
(* The poll thread *)

\* Mutant: the halves of the immediate value are taken the wrong way round.
DecodedSwapped(c) == [seq |-> c.layer, layer |-> c.slot]

\* The writer puts the value in network byte order, the reader does not turn it
\* back: a host of the other order finds the bytes of [seq | layer] reversed.
\* The byte of a number below 256 moves from the low to the high half.
Decoded(c) == IF big_endian THEN [seq |-> c.slot, layer |-> c.layer]
              ELSE [seq |-> 256 * c.layer, layer |-> 256 * c.slot]

\* Mutant: completions beyond the batch are forgotten.
PollForgettingRest ==
  LET n == IF Len(cq) < MaxBatch THEN Len(cq) ELSE MaxBatch
      wcs == SubSeq(cq, 1, n)
  IN /\ ~crashed /\ poll_pc = "poll"
     /\ n > 0
     /\ cq' = <<>>
     /\ IF \A i \in 1 .. n : wcs[i].ok
        THEN batch' = wcs /\ poll_pc' = "resolve"
        ELSE UNCHANGED <<batch, poll_pc>>
     /\ UNCHANGED <<envVars, errors, event_queue, trackerVars, poll_req,
                    workerVars, resultVars>>

\* poll_recv_cq takes what is there, up to MaxBatch; one error makes it give up
\* the whole batch.
Poll ==
  LET n == IF Len(cq) < MaxBatch THEN Len(cq) ELSE MaxBatch
      wcs == SubSeq(cq, 1, n)
  IN /\ ~crashed /\ poll_pc = "poll"
     /\ n > 0
     /\ cq' = SubSeq(cq, n + 1, Len(cq))
     /\ IF \A i \in 1 .. n : wcs[i].ok
        THEN batch' = wcs /\ poll_pc' = "resolve"
        ELSE UNCHANGED <<batch, poll_pc>>
     /\ UNCHANGED <<envVars, errors, event_queue, trackerVars, poll_req,
                    workerVars, resultVars>>

\* On to the next completion of the batch.
NextCompletion ==
  /\ batch' = Tail(batch)
  /\ poll_pc' = IF Tail(batch) = <<>> THEN "poll" ELSE "resolve"
  /\ poll_req' = NoReq

KnownSeq(seq) == seq \in Slots /\ seq_to_request[seq] # NoReq

\* resolve_seq_num: a completion of an unknown sequence number is dropped.
Resolve ==
  LET seq == Decoded(Head(batch)).seq
  IN /\ ~crashed /\ poll_pc = "resolve"
     /\ \/ /\ KnownSeq(seq)
           /\ poll_req' = seq_to_request[seq]
           /\ poll_pc' = "mark"
           /\ UNCHANGED batch
        \/ /\ ~KnownSeq(seq)
           /\ NextCompletion
     /\ UNCHANGED <<envVars, errors, cq, event_queue, trackerVars, workerVars,
                    resultVars>>

\* The layer is one of the request's, and not marked yet.
NewLayer(r, l) == r \in tracked /\ l \in Layers /\ l \notin received[r]

\* Mutant: the second write of the last layer completes the transfer once more.
MarkLayerReceivedAgain ==
  LET r == poll_req
      l == Decoded(Head(batch)).layer
  IN /\ ~crashed /\ poll_pc = "mark"
     /\ \/ /\ r \notin tracked \/ l \notin Layers
           /\ NextCompletion
           /\ UNCHANGED <<state, received>>
        \/ /\ r \in tracked /\ l \in Layers
           /\ received' = [received EXCEPT ![r] = @ \cup {l}]
           /\ state' = [state EXCEPT ![r] =
                IF received'[r] = Layers THEN "READY_FOR_DECODE" ELSE "RECEIVING_KV"]
           /\ IF received'[r] = Layers
              THEN poll_pc' = "notify" /\ UNCHANGED <<batch, poll_req>>
              ELSE NextCompletion
     /\ UNCHANGED <<envVars, errors, cq, event_queue, tracked, seq_to_request,
                    workerVars, resultVars>>

\* Mutant: all but one layer will do.
MarkLayerReceivedEarly ==
  LET r == poll_req
      l == Decoded(Head(batch)).layer
  IN /\ ~crashed /\ poll_pc = "mark"
     /\ \/ /\ ~NewLayer(r, l)
           /\ NextCompletion
           /\ UNCHANGED <<state, received>>
        \/ /\ NewLayer(r, l)
           /\ received' = [received EXCEPT ![r] = @ \cup {l}]
           /\ state' = [state EXCEPT ![r] = "READY_FOR_DECODE"]
           /\ IF Cardinality(received'[r]) = NumLayers - 1
              THEN poll_pc' = "notify" /\ UNCHANGED <<batch, poll_req>>
              ELSE NextCompletion
     /\ UNCHANGED <<envVars, errors, cq, event_queue, tracked, seq_to_request,
                    workerVars, resultVars>>

\* mark_layer_received: the first layer, and the last, move the state.
MarkLayerReceived ==
  LET r == poll_req
      l == Decoded(Head(batch)).layer
  IN /\ ~crashed /\ poll_pc = "mark"
     /\ \/ /\ ~NewLayer(r, l)
           /\ NextCompletion
           /\ UNCHANGED <<state, received>>
        \/ /\ NewLayer(r, l)
           /\ received' = [received EXCEPT ![r] = @ \cup {l}]
           /\ state' = [state EXCEPT ![r] =
                IF received'[r] = Layers THEN "READY_FOR_DECODE"
                ELSE IF received[r] = {} THEN "RECEIVING_KV" ELSE @]
           /\ IF received'[r] = Layers
              THEN poll_pc' = "notify" /\ UNCHANGED <<batch, poll_req>>
              ELSE NextCompletion
     /\ UNCHANGED <<envVars, errors, cq, event_queue, tracked, seq_to_request,
                    workerVars, resultVars>>

\* All layers are there: KV_TRANSFER_COMPLETE, unless the GPU fence fails.
Notify ==
  /\ ~crashed /\ poll_pc = "notify"
  /\ \/ /\ event_queue' = Append(event_queue, Event("KV_TRANSFER_COMPLETE", poll_req))
        /\ UNCHANGED errors
     \/ /\ errors < MaxErrors
        /\ errors' = errors + 1
        /\ UNCHANGED event_queue
  /\ NextCompletion
  /\ UNCHANGED <<envVars, cq, trackerVars, workerVars, resultVars>>

PollThread == Poll \/ Resolve \/ MarkLayerReceived \/ Notify

-----------------------------------------------------------------------------
(* The worker threads *)

Goto(w, l) == pc' = [pc EXCEPT ![w] = l] /\ UNCHANGED req

Finish(w) == /\ pc' = [pc EXCEPT ![w] = "idle"]
             /\ req' = [req EXCEPT ![w] = NoReq]

\* wait_and_pop and the switch of process_event.
ProcessEvent(w) ==
  LET e == Head(event_queue)
  IN /\ pc[w] = "idle" /\ event_queue # <<>>
     /\ event_queue' = Tail(event_queue)
     /\ pc' = [pc EXCEPT ![w] = IF e.type = "PREPARE_DECODE_SLOT" THEN "add" ELSE "get"]
     /\ req' = [req EXCEPT ![w] = e.req]
     /\ UNCHANGED <<envVars, errors, cq, trackerVars, pollVars, resultVars>>

\* A slot that add_request takes: inside the node's buffer and not in use.
Acceptable(s) == s < MaxConcurrent /\ \A q \in tracked : slot_of[q] # s

\* add_request throws for any other slot, and nothing catches the exception in a
\* worker thread.
AddRequest(w) ==
  LET s == slot_of[req[w]]
  IN /\ pc[w] = "add"
     /\ \/ /\ ~Acceptable(s)
           /\ crashed' = TRUE
           /\ UNCHANGED <<trackerVars, workerVars>>
        \/ /\ Acceptable(s)
           /\ tracked' = tracked \cup {req[w]}
           /\ seq_to_request' = [seq_to_request EXCEPT ![s] = req[w]]
           /\ state' = [state EXCEPT ![req[w]] = "ASSIGNED"]
           /\ received' = [received EXCEPT ![req[w]] = {}]
           /\ Goto(w, "set_waiting")
           /\ UNCHANGED crashed
     /\ UNCHANGED <<envVars, errors, cq, event_queue, pollVars, seen, completed>>

\* update_state, from whatever state a tracked request is in.
UpdateState(r, st) ==
  /\ state' = IF r \in tracked THEN [state EXCEPT ![r] = st] ELSE state
  /\ UNCHANGED <<tracked, seq_to_request, received>>

SetWaiting(w) ==
  /\ pc[w] = "set_waiting"
  /\ UpdateState(req[w], "WAITING_FOR_KV")
  /\ Finish(w)
  /\ UNCHANGED <<envVars, errors, cq, event_queue, pollVars, resultVars>>

\* handle_kv_transfer_complete: a copy of the entry first.
GetRequest(w) ==
  /\ pc[w] = "get"
  /\ IF req[w] \in tracked THEN Goto(w, "set_decoding") ELSE Finish(w)
  /\ UNCHANGED <<envVars, errors, cq, event_queue, trackerVars, pollVars, resultVars>>

SetDecoding(w) ==
  /\ pc[w] = "set_decoding"
  /\ UpdateState(req[w], "DECODING")
  /\ Goto(w, "post")
  /\ UNCHANGED <<envVars, errors, cq, event_queue, pollVars, resultVars>>

\* The HTTP call to vLLM, which loads the staging buffer as it is now.  An answer
\* without the expected fields makes the JSON library throw.
PostDecode(w) ==
  /\ pc[w] = "post"
  /\ seen' = [seen EXCEPT ![req[w]] = Append(@, landed[req[w]])]
  /\ \/ Goto(w, "set_completed") /\ UNCHANGED <<errors, crashed>>
     \/ Goto(w, "set_failed") /\ UNCHANGED <<errors, crashed>>
     \/ /\ errors < MaxErrors
        /\ errors' = errors + 1
        /\ crashed' = TRUE
        /\ UNCHANGED workerVars
  /\ UNCHANGED <<envVars, cq, event_queue, trackerVars, pollVars, completed>>

\* A failed decode keeps its entry, and so its slot.
SetFailed(w) ==
  /\ pc[w] = "set_failed"
  /\ UpdateState(req[w], "FAILED")
  /\ Finish(w)
  /\ UNCHANGED <<envVars, errors, cq, event_queue, pollVars, resultVars>>

SetCompleted(w) ==
  /\ pc[w] = "set_completed"
  /\ UpdateState(req[w], "COMPLETED")
  /\ Goto(w, "reply")
  /\ UNCHANGED <<envVars, errors, cq, event_queue, pollVars, resultVars>>

SendDecodeComplete(w) ==
  /\ pc[w] = "reply"
  /\ completed' = completed \cup {req[w]}
  /\ Goto(w, "remove")
  /\ UNCHANGED <<envVars, errors, cq, event_queue, trackerVars, pollVars, crashed, seen>>

\* Mutant: the sequence number keeps naming the request.
RemoveRequestKeepingSeq(w) ==
  /\ pc[w] = "remove"
  /\ tracked' = tracked \ {req[w]}
  /\ Finish(w)
  /\ UNCHANGED <<envVars, errors, cq, event_queue, seq_to_request, state, received,
                 pollVars, resultVars>>

RemoveRequest(w) ==
  /\ pc[w] = "remove"
  /\ tracked' = tracked \ {req[w]}
  /\ seq_to_request' = IF req[w] \in tracked
                       THEN [seq_to_request EXCEPT ![slot_of[req[w]]] = NoReq]
                       ELSE seq_to_request
  /\ Finish(w)
  /\ UNCHANGED <<envVars, errors, cq, event_queue, state, received, pollVars,
                 resultVars>>

-----------------------------------------------------------------------------
Handle(w) ==
  /\ ~crashed
  /\ \/ AddRequest(w) \/ SetWaiting(w) \/ GetRequest(w) \/ SetDecoding(w)
     \/ PostDecode(w) \/ SetFailed(w) \/ SetCompleted(w)
     \/ SendDecodeComplete(w) \/ RemoveRequest(w)

WorkerThread(w) == Handle(w) \/ (~crashed /\ ProcessEvent(w))

Next ==
  \/ \E r \in Requests, s \in Slots : SendPrepare(r, s)
  \/ \E r \in Requests, p \in {"assigned", "aborted"} : AfterPrepare(r, p)
  \/ \E r \in Requests : Write(r) \/ WriteFails(r)
  \/ PollThread
  \/ \E w \in Workers : WorkerThread(w)

Spec == Init /\ [][Next]_vars

\* Threads run and a writer goes on; no request is promised, nor any failure.
Fairness ==
  /\ \A r \in Requests : WF_vars(Write(r))
  /\ WF_vars(PollThread)
  /\ \A w \in Workers : WF_vars(Handle(w))
  /\ WF_vars(~crashed /\ \E w \in Workers : ProcessEvent(w))

FairSpec == Spec /\ Fairness

-----------------------------------------------------------------------------
(* Properties *)

\* Every location holds a value of its type.
TypeOK ==
  /\ big_endian \in BOOLEAN /\ crashed \in BOOLEAN
  /\ phase \in [Requests -> {"new", "prepared", "assigned", "aborted"}]
  /\ slot_of \in [Requests -> Slots \cup {NoSlot}]
  /\ landed \in [Requests -> 0 .. AllWrites]
  /\ broken \subseteq Requests /\ errors \in 0 .. MaxErrors
  /\ cq \in Seq(Completions) /\ batch \in Seq(Completions)
  /\ event_queue \in Seq(Events)
  /\ tracked \subseteq Requests /\ completed \subseteq Requests
  /\ seq_to_request \in [Slots -> Requests \cup {NoReq}]
  /\ state \in [Requests -> States]
  /\ received \in [Requests -> SUBSET Layers]
  /\ poll_pc \in {"poll", "resolve", "mark", "notify"}
  /\ poll_req \in Requests \cup {NoReq}
  /\ pc \in [Workers -> PCs]
  /\ req \in [Workers -> Requests \cup {NoReq}]
  /\ seen \in [Requests -> Seq(0 .. AllWrites)]

\* requests_ and seq_to_request_ name each other, so that a completion is never
\* counted for a request that is gone or that has another slot.
TrackerMapsAgree ==
  \A r \in Requests, s \in Slots :
    seq_to_request[s] = r <=> r \in tracked /\ slot_of[r] = s

\* A layer of r is counted only when the first write of that very layer of that
\* very request has landed.
OwnLayersOnly(r) == \A l \in received[r] : landed[r] > 2 * l

\* In either byte order, and although an aborted request may have left its entry
\* in the slot, a request that was not aborted is given no layer of another.
LayerComesFromItsWrite ==
  \A r \in Requests : phase[r] # "aborted" => OwnLayersOnly(r)

\* A request is decoded at most once, although every layer completes twice and
\* workers and poll thread share its entry.
DecodeOnce == \A r \in Requests : Len(seen[r]) <= 1

\* When vLLM is asked to decode, the keys of every layer are in the buffer, and
\* the values of every layer but the last.
DecodeAfterKeys ==
  \A r \in Requests : phase[r] # "aborted" => \A i \in 1 .. Len(seen[r]) : seen[r][i] >= AllWrites - 1

Healthy == ~crashed /\ errors = 0

\* A request is expected before its first write lands.
Expected(r) == phase[r] = "assigned" /\ r \in tracked /\ landed[r] = 0

\* Without failures, on a host of network byte order, the transfer to a slot
\* that was prepared in time starts the decode, however the writes of several
\* requests mix.
TransferStartsDecode ==
  \A r \in Requests :
    (big_endian /\ Expected(r)) ~> (Len(seen[r]) > 0 \/ ~Healthy)
=============================================================================
