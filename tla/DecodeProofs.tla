---------------------------- MODULE DecodeProofs ----------------------------
(***************************************************************************)
(* Proofs about DecodeTracker, for any sets of requests and workers, any   *)
(* numbers of slots and layers that fit the immediate value, any batch     *)
(* size and any bound on failures.                                         *)
(***************************************************************************)
EXTENDS DecodeTracker, TLAPS

(***************************************************************************)
(* The inductive invariant.  A slot belongs to one request that was not    *)
(* given up, so a completion, which names a slot, names the request that   *)
(* wrote it.  The order to prepare a slot and the order to decode are each *)
(* in one place at a time: the event queue, the poll thread or a worker;   *)
(* the first finds nothing received yet, the second everything.            *)
(***************************************************************************)
Positions == 1 .. Len(event_queue)

\* A request that the orchestrator stands by has its slot for itself.
OwnSlots ==
  /\ \A r \in Requests : phase[r] # "new" => slot_of[r] \in Slots
  /\ \A r, q \in Requests :
       /\ phase[r] \in {"prepared", "assigned"} /\ phase[q] \in {"prepared", "assigned"}
       /\ slot_of[r] = slot_of[q]
       => r = q
  /\ \A r \in tracked : phase[r] # "new"

\* A good completion was caused by the request that has the slot it names.
WrittenBySlot(c) ==
  c.ok => \E r \in Requests : /\ phase[r] = "assigned" /\ slot_of[r] = c.slot
                              /\ landed[r] > 2 * c.layer

CompletionsWritten ==
  /\ \A i \in 1 .. Len(cq) : WrittenBySlot(cq[i])
  /\ \A i \in 1 .. Len(batch) : batch[i].ok /\ WrittenBySlot(batch[i])

\* What the poll thread knows in the middle of a batch.
PollView ==
  /\ poll_pc # "poll" => batch # <<>>
  /\ poll_pc \in {"mark", "notify"} => poll_req \in Requests /\ phase[poll_req] # "new"
  /\ poll_pc = "mark" => slot_of[poll_req] = Decoded(Head(batch)).seq

\* Events, workers with a request, layers and decode calls follow PREPARE_DECODE_SLOT.
AfterNew ==
  /\ \A r \in Requests : phase[r] = "new" => received[r] = {} /\ seen[r] = <<>>
  /\ \A i \in Positions : phase[event_queue[i].req] # "new"
  /\ \A w \in Workers : pc[w] # "idle" => req[w] \in Requests /\ phase[req[w]] # "new"

IsAt(i, t, r) == event_queue[i].type = t /\ event_queue[i].req = r
InQueue(t, r) == \E i \in Positions : IsAt(i, t, r)
Holds(w, L, r) == pc[w] \in L /\ req[w] = r

\* The event is in the queue once, or one worker between the labels L has it.
Once(t, L, r) ==
  /\ \A i, j \in Positions : IsAt(i, t, r) /\ IsAt(j, t, r) => i = j
  /\ \A w \in Workers : Holds(w, L, r) => ~InQueue(t, r)
  /\ \A v, w \in Workers : Holds(v, L, r) /\ Holds(w, L, r) => v = w

Somewhere(t, L, r) == InQueue(t, r) \/ \E w \in Workers : Holds(w, L, r)

Adding == {"add"}
Decoding == {"get", "set_decoding", "post"}
Notifying(r) == poll_pc = "notify" /\ poll_req = r

PreparesOnce ==
  \A r \in Requests :
    /\ Once("PREPARE_DECODE_SLOT", Adding, r)
    /\ Somewhere("PREPARE_DECODE_SLOT", Adding, r) =>
         r \notin tracked /\ received[r] = {} /\ seen[r] = <<>>

DecidesOnce ==
  \A r \in Requests :
    /\ Once("KV_TRANSFER_COMPLETE", Decoding, r)
    /\ Notifying(r) => ~Somewhere("KV_TRANSFER_COMPLETE", Decoding, r)
    /\ Notifying(r) \/ Somewhere("KV_TRANSFER_COMPLETE", Decoding, r) =>
         received[r] = Layers /\ (seen[r] = <<>> \/ crashed)
    /\ seen[r] # <<>> => received[r] = Layers /\ Len(seen[r]) = 1

IInv == /\ TypeOK /\ TrackerMapsAgree /\ LayerComesFromItsWrite /\ DecodeAfterKeys
        /\ OwnSlots /\ CompletionsWritten /\ PollView /\ AfterNew
        /\ PreparesOnce /\ DecidesOnce

-----------------------------------------------------------------------------
(* Numbers *)

LEMMA SomeLayer == 0 \in Layers /\ Layers # {} /\ AllWrites \in Nat /\ NumLayers \in Nat
BY DecodeAssumption DEF Layers, AllWrites

\* In either byte order an immediate value that makes sense at the other end says
\* what was meant.
LEMMA DecodedIsMeant ==
  ASSUME NEW c \in Completions, Decoded(c).seq \in Slots, Decoded(c).layer \in Layers
  PROVE  Decoded(c).seq = c.slot /\ Decoded(c).layer = c.layer
<1>1. /\ c.slot \in 0 .. MaxSlots - 1 /\ c.layer \in 0 .. NumLayers - 1
      /\ MaxSlots \in 1 .. 256 /\ NumLayers \in 1 .. 256
  BY DecodeAssumption DEF Completions, Slots, Layers
<1>2. CASE big_endian
  BY <1>2 DEF Decoded
<1>3. CASE ~big_endian
  <2>1. Decoded(c).seq = 256 * c.layer /\ Decoded(c).layer = 256 * c.slot
    BY <1>3 DEF Decoded
  <2>2. c.layer = 0
    BY <1>1, <2>1 DEF Slots
  <2>3. c.slot = 0
    BY <1>1, <2>1 DEF Layers
  <2> QED BY <1>1, <2>1, <2>2, <2>3
<1> QED BY <1>2, <1>3

-----------------------------------------------------------------------------
(* The queue *)

\* push appends one event and moves none.
LEMMA QueueGrows ==
  ASSUME event_queue \in Seq(Events), NEW e \in Events,
         event_queue' = Append(event_queue, e)
  PROVE  /\ event_queue' \in Seq(Events)
         /\ Len(event_queue) \in Nat /\ Len(event_queue)' = Len(event_queue) + 1
         /\ \A i \in Positions' : i \in Positions \/ i = Len(event_queue) + 1
         /\ \A i \in Positions : i \in Positions' /\ event_queue'[i] = event_queue[i]
         /\ event_queue'[Len(event_queue) + 1] = e
BY DEF Positions

\* wait_and_pop takes the oldest event, and the others move up by one.
LEMMA QueueShrinks ==
  ASSUME event_queue \in Seq(Events), event_queue # <<>>,
         event_queue' = Tail(event_queue)
  PROVE  /\ event_queue' \in Seq(Events)
         /\ Len(event_queue) \in Nat /\ Len(event_queue)' = Len(event_queue) - 1
         /\ 1 \in Positions /\ Head(event_queue) = event_queue[1]
         /\ event_queue[1] \in Events
         /\ \A i \in Positions' : /\ i + 1 \in Positions /\ i + 1 # 1
                                  /\ event_queue'[i] = event_queue[i + 1]
BY DEF Positions

\* What a push changes of where the events are.
LEMMA EventAdded ==
  ASSUME event_queue \in Seq(Events), NEW e \in Events,
         event_queue' = Append(event_queue, e)
  PROVE  /\ \A t, r : ~(e.type = t /\ e.req = r) =>
              /\ InQueue(t, r)' <=> InQueue(t, r)
              /\ \A i \in Positions' : IsAt(i, t, r)' => i \in Positions /\ IsAt(i, t, r)
         /\ \A t, r : ~InQueue(t, r) =>
              \A i \in Positions' : IsAt(i, t, r)' => i = Len(event_queue) + 1
<1>1. PICK k \in Nat : k = Len(event_queue) + 1
  BY QueueGrows
<1>2. /\ \A i \in Positions' : i \in Positions \/ i = k
      /\ \A i \in Positions : i \in Positions' /\ event_queue'[i] = event_queue[i]
      /\ event_queue'[k] = e
  BY <1>1, QueueGrows
<1>3. \A t, r : \A i \in Positions : IsAt(i, t, r)' <=> IsAt(i, t, r)
  BY <1>2 DEF IsAt
<1>4. \A t, r : IsAt(k, t, r)' <=> (e.type = t /\ e.req = r)
  BY <1>2 DEF IsAt
<1> QED BY <1>1, <1>2, <1>3, <1>4 DEF InQueue

-----------------------------------------------------------------------------
(* Steps that move no event *)

\* If no event is taken or given and no worker comes to hold one that it did not
\* hold, every event is where it was, and so is what its place implies.
LEMMA EventsKept ==
  ASSUME IInv, UNCHANGED <<event_queue, received, seen>>, crashed => crashed',
         \A r \in tracked' : r \in tracked \/ ~Somewhere("PREPARE_DECODE_SLOT", Adding, r)',
         \A r \in Requests : Notifying(r)' => Notifying(r),
         \A v \in Workers, r \in Requests :
           /\ Holds(v, Adding, r)' => Holds(v, Adding, r)
           /\ Holds(v, Decoding, r)' => Holds(v, Decoding, r)
  PROVE  PreparesOnce' /\ DecidesOnce'
<1>1. \A t, r : InQueue(t, r)' <=> InQueue(t, r)
  BY DEF InQueue, IsAt, Positions
<1>2. ASSUME NEW t, NEW L, NEW r \in Requests, Once(t, L, r),
             \A v \in Workers : Holds(v, L, r)' => Holds(v, L, r)
      PROVE  Once(t, L, r)' /\ (Somewhere(t, L, r)' => Somewhere(t, L, r))
  <2>1. \A i : IsAt(i, t, r)' <=> IsAt(i, t, r)
    BY DEF IsAt
  <2>2. Positions' = Positions
    BY DEF Positions
  <2> QED BY <1>1, <1>2, <2>1, <2>2 DEF Once, Somewhere
<1>3. PreparesOnce'
  <2> SUFFICES ASSUME NEW r \in Requests
               PROVE  /\ Once("PREPARE_DECODE_SLOT", Adding, r)'
                      /\ Somewhere("PREPARE_DECODE_SLOT", Adding, r)' =>
                           r \notin tracked' /\ received'[r] = {} /\ seen'[r] = <<>>
    BY DEF PreparesOnce
  <2> QED BY <1>2 DEF IInv, PreparesOnce
<1>4. DecidesOnce'
  <2> SUFFICES ASSUME NEW r \in Requests
               PROVE  /\ Once("KV_TRANSFER_COMPLETE", Decoding, r)'
                      /\ Notifying(r)' => ~Somewhere("KV_TRANSFER_COMPLETE", Decoding, r)'
                      /\ Notifying(r)' \/ Somewhere("KV_TRANSFER_COMPLETE", Decoding, r)' =>
                           received'[r] = Layers /\ (seen'[r] = <<>> \/ crashed')
                      /\ seen'[r] # <<>> => received'[r] = Layers /\ Len(seen'[r]) = 1
    BY DEF DecidesOnce
  <2> QED BY <1>2 DEF IInv, DecidesOnce
<1> QED BY <1>3, <1>4

\* What speaks of requests, writes and the poll thread alone.
LEMMA TransfersKept ==
  ASSUME IInv, UNCHANGED <<envVars, cq, pollVars, received, seen>>, tracked' \subseteq tracked
  PROVE  /\ LayerComesFromItsWrite' /\ DecodeAfterKeys' /\ OwnSlots'
         /\ CompletionsWritten' /\ PollView'
<1>1. UNCHANGED <<big_endian, phase, slot_of, landed, broken, cq, batch, poll_pc, poll_req,
                  received, seen>>
  BY DEF envVars, pollVars
<1>2. LayerComesFromItsWrite' /\ DecodeAfterKeys' /\ OwnSlots'
  BY <1>1 DEF IInv, LayerComesFromItsWrite, OwnLayersOnly, DecodeAfterKeys, OwnSlots
<1>3. CompletionsWritten'
  BY <1>1 DEF IInv, CompletionsWritten, WrittenBySlot
<1>4. PollView'
  BY <1>1 DEF IInv, PollView, Decoded
<1> QED BY <1>2, <1>3, <1>4

\* A handler goes on to a later critical section, or returns, and takes no layer and
\* adds no entry.
LEMMA HandlerStep ==
  ASSUME IInv, NEW w \in Workers, NEW l \in PCs,
         pc[w] # "idle", pc' = [pc EXCEPT ![w] = l],
         l # "add", l \in Decoding => pc[w] \in Decoding,
         UNCHANGED req \/ (l = "idle" /\ req' = [req EXCEPT ![w] = NoReq]),
         UNCHANGED <<envVars, errors, cq, event_queue, received, pollVars, crashed, seen>>,
         tracked' \subseteq tracked, TrackerMapsAgree',
         seq_to_request' \in [Slots -> Requests \cup {NoReq}],
         state' \in [Requests -> States], completed' \subseteq Requests
  PROVE  IInv'
<1>1. UNCHANGED <<big_endian, phase, slot_of, landed, broken, cq, batch, poll_pc, poll_req,
                  errors, event_queue, received, crashed, seen>>
  BY DEF envVars, pollVars
<1>2. /\ pc' \in [Workers -> PCs] /\ req' \in [Workers -> Requests \cup {NoReq}]
      /\ pc'[w] = l /\ (l # "idle" => req'[w] = req[w])
      /\ \A v \in Workers : v # w => pc'[v] = pc[v] /\ req'[v] = req[v]
  BY DEF IInv, TypeOK
<1>3. TypeOK'
  BY <1>1, <1>2 DEF IInv, TypeOK, Completions, Events
<1>4. /\ LayerComesFromItsWrite' /\ DecodeAfterKeys' /\ OwnSlots'
      /\ CompletionsWritten' /\ PollView'
  BY TransfersKept
<1>5. AfterNew'
  BY <1>1, <1>2 DEF IInv, AfterNew, Positions
<1>6. PreparesOnce' /\ DecidesOnce'
  <2>1. \A v \in Workers, r \in Requests :
          /\ Holds(v, Adding, r)' => Holds(v, Adding, r)
          /\ Holds(v, Decoding, r)' => Holds(v, Decoding, r)
    BY <1>2 DEF Holds, Adding, Decoding
  <2>2. \A r \in Requests : Notifying(r)' => Notifying(r)
    BY <1>1 DEF Notifying
  <2> QED BY <1>1, <2>1, <2>2, EventsKept
<1> QED BY <1>3, <1>4, <1>5, <1>6 DEF IInv

\* update_state and the messages: nothing that the tracker's maps say changes.
LEMMA StateStep ==
  ASSUME IInv, NEW w \in Workers,
         \/ SetWaiting(w) \/ GetRequest(w) \/ SetDecoding(w) \/ SetFailed(w)
         \/ SetCompleted(w) \/ SendDecodeComplete(w)
  PROVE  IInv'
<1>1. UNCHANGED <<envVars, errors, cq, event_queue, tracked, seq_to_request, received,
                  pollVars, crashed, seen>>
  BY DEF SetWaiting, GetRequest, SetDecoding, SetFailed, SetCompleted, SendDecodeComplete,
         UpdateState, trackerVars, resultVars, Finish, Goto
<1>2. /\ TypeOK /\ TrackerMapsAgree
  BY DEF IInv
<1>3. TrackerMapsAgree'
  BY <1>1, <1>2 DEF TrackerMapsAgree, envVars
<1>4. state' \in [Requests -> States]
  BY <1>2 DEF TypeOK, States, SetWaiting, GetRequest, SetDecoding, SetFailed, SetCompleted,
              SendDecodeComplete, UpdateState, trackerVars
<1>5. completed' \subseteq Requests
  <2>1. AfterNew /\ completed \subseteq Requests
    BY DEF IInv, TypeOK
  <2>2. CASE SendDecodeComplete(w)
    BY <2>1, <2>2 DEF SendDecodeComplete, AfterNew
  <2>3. CASE ~SendDecodeComplete(w)
    BY <2>1, <2>3 DEF SetWaiting, GetRequest, SetDecoding, SetFailed, SetCompleted, resultVars
  <2> QED BY <2>2, <2>3
<1>6. PICK m \in PCs :
        /\ pc[w] # "idle" /\ pc' = [pc EXCEPT ![w] = m]
        /\ m # "add" /\ (m \in Decoding => pc[w] \in Decoding)
        /\ UNCHANGED req \/ (m = "idle" /\ req' = [req EXCEPT ![w] = NoReq])
  BY DEF SetWaiting, GetRequest, SetDecoding, SetFailed, SetCompleted, SendDecodeComplete,
         Finish, Goto, PCs, Decoding
<1> QED BY <1>1, <1>2, <1>3, <1>4, <1>5, <1>6, HandlerStep DEF TypeOK

\* remove_request takes the entry out of both maps.
LEMMA RemoveRequestStep ==
  ASSUME IInv, NEW w \in Workers, RemoveRequest(w)
  PROVE  IInv'
<1>1. /\ pc[w] = "remove" /\ pc' = [pc EXCEPT ![w] = "idle"]
      /\ req' = [req EXCEPT ![w] = NoReq]
      /\ tracked' = tracked \ {req[w]}
      /\ seq_to_request' = IF req[w] \in tracked
                           THEN [seq_to_request EXCEPT ![slot_of[req[w]]] = NoReq]
                           ELSE seq_to_request
      /\ UNCHANGED <<envVars, errors, cq, event_queue, state, received, pollVars, crashed,
                     seen, completed>>
  BY DEF RemoveRequest, Finish, resultVars
<1>2. TypeOK /\ TrackerMapsAgree /\ OwnSlots
  BY DEF IInv
<1>3. seq_to_request' \in [Slots -> Requests \cup {NoReq}]
  BY <1>1, <1>2 DEF TypeOK
<1>4. TrackerMapsAgree'
  <2> SUFFICES ASSUME NEW r \in Requests, NEW s \in Slots
               PROVE  seq_to_request'[s] = r <=> r \in tracked' /\ slot_of[r] = s
    BY <1>1 DEF TrackerMapsAgree, envVars
  <2>1. seq_to_request[s] = r <=> r \in tracked /\ slot_of[r] = s
    BY <1>2 DEF TrackerMapsAgree
  <2>2. CASE req[w] \notin tracked
    BY <1>1, <2>1, <2>2
  <2>3. CASE req[w] \in tracked
    <3>1. req[w] \in Requests /\ slot_of[req[w]] \in Slots
      BY <1>2, <2>3 DEF TypeOK, OwnSlots
    <3>2. seq_to_request[slot_of[req[w]]] = req[w]
      BY <1>2, <2>3, <3>1 DEF TrackerMapsAgree
    <3>3. NoReq \notin Requests
      BY DecodeAssumption
    <3> QED BY <1>1, <1>2, <2>1, <2>3, <3>1, <3>2, <3>3 DEF TypeOK
  <2> QED BY <2>2, <2>3
<1>5. "idle" \in PCs
  BY DEF PCs
<1> QED BY <1>1, <1>2, <1>3, <1>4, <1>5, HandlerStep DEF TypeOK, Decoding

-----------------------------------------------------------------------------
(* Steps that take an event or use one up *)

\* A worker that takes an event holds what was in the queue, and nobody else does.
LEMMA EventTaken ==
  ASSUME event_queue \in Seq(Events), event_queue # <<>>,
         event_queue' = Tail(event_queue),
         NEW t, NEW L, NEW r \in Requests, NEW w \in Workers, Once(t, L, r),
         \A v \in Workers : v # w => (Holds(v, L, r)' <=> Holds(v, L, r)),
         Holds(w, L, r)' => IsAt(1, t, r)
  PROVE  Once(t, L, r)' /\ (Somewhere(t, L, r)' => Somewhere(t, L, r))
<1>1. /\ 1 \in Positions
      /\ \A i \in Positions' : /\ i + 1 \in Positions /\ i + 1 # 1
                               /\ event_queue'[i] = event_queue[i + 1]
  BY QueueShrinks
<1>2. \A i \in Positions' : IsAt(i, t, r)' => IsAt(i + 1, t, r)
  BY <1>1 DEF IsAt
<1>3. InQueue(t, r)' => InQueue(t, r)
  BY <1>1, <1>2 DEF InQueue
<1>4. Holds(w, L, r)' => InQueue(t, r)
  BY <1>1 DEF InQueue
<1>5. \A i, j \in Positions' : IsAt(i, t, r)' /\ IsAt(j, t, r)' => i = j
  <2> SUFFICES ASSUME NEW i \in Positions', NEW j \in Positions', IsAt(i, t, r)', IsAt(j, t, r)'
               PROVE  i = j
    OBVIOUS
  <2>1. i + 1 = j + 1
    BY <1>1, <1>2 DEF Once
  <2>2. i \in Int /\ j \in Int
    BY QueueShrinks DEF Positions
  <2> QED BY <2>1, <2>2
<1>6. Holds(w, L, r)' => ~InQueue(t, r)'
  BY <1>1, <1>2 DEF Once, InQueue
<1>7. \A v \in Workers : v # w /\ Holds(v, L, r)' => ~InQueue(t, r)' /\ ~Holds(w, L, r)'
  BY <1>3, <1>4 DEF Once
<1> QED BY <1>3, <1>4, <1>5, <1>6, <1>7 DEF Once, Somewhere

LEMMA ProcessEventStep ==
  ASSUME IInv, NEW w \in Workers, ProcessEvent(w)
  PROVE  IInv'
<1> DEFINE e == Head(event_queue)
<1>1. /\ pc[w] = "idle" /\ event_queue # <<>> /\ event_queue' = Tail(event_queue)
      /\ pc' = [pc EXCEPT ![w] = IF e.type = "PREPARE_DECODE_SLOT" THEN "add" ELSE "get"]
      /\ req' = [req EXCEPT ![w] = e.req]
      /\ UNCHANGED <<envVars, errors, cq, trackerVars, pollVars, resultVars>>
  BY DEF ProcessEvent
<1>2. UNCHANGED <<big_endian, phase, slot_of, landed, broken, cq, batch, poll_pc, poll_req,
                  errors, tracked, seq_to_request, state, received, crashed, seen, completed>>
  BY <1>1 DEF envVars, pollVars, trackerVars, resultVars
<1>3. TypeOK /\ AfterNew /\ PreparesOnce /\ DecidesOnce /\ TrackerMapsAgree
  BY DEF IInv
<1>4. /\ event_queue' \in Seq(Events) /\ e \in Events /\ 1 \in Positions /\ e = event_queue[1]
      /\ \A i \in Positions' : i + 1 \in Positions /\ event_queue'[i] = event_queue[i + 1]
  BY <1>1, <1>3, QueueShrinks DEF TypeOK
<1>5. /\ e.type \in {"PREPARE_DECODE_SLOT", "KV_TRANSFER_COMPLETE"} /\ e.req \in Requests
      /\ phase[e.req] # "new"
  BY <1>3, <1>4 DEF Events, AfterNew
<1> HIDE DEF e
<1>6. /\ pc' \in [Workers -> PCs] /\ req' \in [Workers -> Requests \cup {NoReq}]
      /\ pc'[w] = (IF e.type = "PREPARE_DECODE_SLOT" THEN "add" ELSE "get")
      /\ req'[w] = e.req
      /\ \A v \in Workers : v # w => pc'[v] = pc[v] /\ req'[v] = req[v]
  BY <1>1, <1>3, <1>5 DEF TypeOK, PCs
<1>7. TypeOK'
  BY <1>2, <1>3, <1>4, <1>6 DEF TypeOK, Completions, Events
<1>8. TrackerMapsAgree'
  BY <1>2, <1>3 DEF TrackerMapsAgree
<1>9. /\ LayerComesFromItsWrite' /\ DecodeAfterKeys' /\ OwnSlots'
      /\ CompletionsWritten' /\ PollView'
  BY <1>1, <1>2, TransfersKept
<1>10. AfterNew'
  BY <1>2, <1>3, <1>4, <1>5, <1>6 DEF AfterNew
<1>11. \A r \in Requests :
         /\ Holds(w, Adding, r)' => IsAt(1, "PREPARE_DECODE_SLOT", r)
         /\ Holds(w, Decoding, r)' => IsAt(1, "KV_TRANSFER_COMPLETE", r)
         /\ \A v \in Workers : v # w =>
              /\ Holds(v, Adding, r)' <=> Holds(v, Adding, r)
              /\ Holds(v, Decoding, r)' <=> Holds(v, Decoding, r)
  BY <1>4, <1>5, <1>6 DEF Holds, Adding, Decoding, IsAt
<1>12. \A r \in Requests : Notifying(r)' <=> Notifying(r)
  BY <1>2 DEF Notifying
<1>13. event_queue \in Seq(Events)
  BY <1>3 DEF TypeOK
<1>14. PreparesOnce'
  <2> SUFFICES ASSUME NEW r \in Requests
               PROVE  /\ Once("PREPARE_DECODE_SLOT", Adding, r)'
                      /\ Somewhere("PREPARE_DECODE_SLOT", Adding, r)' =>
                           r \notin tracked' /\ received'[r] = {} /\ seen'[r] = <<>>
    BY DEF PreparesOnce
  <2>1. Once("PREPARE_DECODE_SLOT", Adding, r)
    BY <1>3 DEF PreparesOnce
  <2>2. /\ Once("PREPARE_DECODE_SLOT", Adding, r)'
        /\ Somewhere("PREPARE_DECODE_SLOT", Adding, r)' =>
             Somewhere("PREPARE_DECODE_SLOT", Adding, r)
    BY <1>1, <1>11, <1>13, <2>1, EventTaken
  <2> QED BY <1>2, <1>3, <2>2 DEF PreparesOnce
<1>15. DecidesOnce'
  <2> SUFFICES ASSUME NEW r \in Requests
               PROVE  /\ Once("KV_TRANSFER_COMPLETE", Decoding, r)'
                      /\ Notifying(r)' => ~Somewhere("KV_TRANSFER_COMPLETE", Decoding, r)'
                      /\ Notifying(r)' \/ Somewhere("KV_TRANSFER_COMPLETE", Decoding, r)' =>
                           received'[r] = Layers /\ (seen'[r] = <<>> \/ crashed')
                      /\ seen'[r] # <<>> => received'[r] = Layers /\ Len(seen'[r]) = 1
    BY DEF DecidesOnce
  <2>1. Once("KV_TRANSFER_COMPLETE", Decoding, r)
    BY <1>3 DEF DecidesOnce
  <2>2. /\ Once("KV_TRANSFER_COMPLETE", Decoding, r)'
        /\ Somewhere("KV_TRANSFER_COMPLETE", Decoding, r)' =>
             Somewhere("KV_TRANSFER_COMPLETE", Decoding, r)
    BY <1>1, <1>11, <1>13, <2>1, EventTaken
  <2> QED BY <1>2, <1>3, <1>12, <2>2 DEF DecidesOnce
<1> QED BY <1>7, <1>8, <1>9, <1>10, <1>14, <1>15 DEF IInv

\* A process that ends leaves everything as it is.
LEMMA CrashStep ==
  ASSUME IInv, crashed' \in BOOLEAN, crashed => crashed', errors' \in 0 .. MaxErrors,
         UNCHANGED <<envVars, cq, event_queue, trackerVars, pollVars, workerVars, seen,
                     completed>>
  PROVE  IInv'
<1>1. UNCHANGED <<big_endian, phase, slot_of, landed, broken, cq, batch, poll_pc, poll_req,
                  event_queue, tracked, seq_to_request, state, received, pc, req, seen,
                  completed>>
  BY DEF envVars, pollVars, trackerVars, workerVars
<1>2. TypeOK' /\ TrackerMapsAgree' /\ AfterNew'
  BY <1>1 DEF IInv, TypeOK, Completions, Events, TrackerMapsAgree, AfterNew, Positions
<1>3. /\ LayerComesFromItsWrite' /\ DecodeAfterKeys' /\ OwnSlots'
      /\ CompletionsWritten' /\ PollView'
  BY <1>1, TransfersKept
<1>4. PreparesOnce' /\ DecidesOnce'
  <2>1. /\ \A v \in Workers, r \in Requests :
             /\ Holds(v, Adding, r)' => Holds(v, Adding, r)
             /\ Holds(v, Decoding, r)' => Holds(v, Decoding, r)
        /\ \A r \in Requests : Notifying(r)' => Notifying(r)
    BY <1>1 DEF Holds, Notifying
  <2> QED BY <1>1, <2>1, EventsKept
<1> QED BY <1>2, <1>3, <1>4 DEF IInv

\* add_request: the slot is free, and nothing of the request has arrived.
LEMMA AddRequestStep ==
  ASSUME IInv, NEW w \in Workers, AddRequest(w)
  PROVE  IInv'
<1>1. TypeOK /\ TrackerMapsAgree /\ OwnSlots /\ AfterNew /\ PreparesOnce
  BY DEF IInv
<1>2. PICK r \in Requests, s \in Slots :
        r = req[w] /\ s = slot_of[r] /\ phase[r] # "new" /\ pc[w] = "add"
  BY <1>1 DEF AddRequest, AfterNew, OwnSlots
<1>3. Holds(w, Adding, r)
  BY <1>2 DEF Holds, Adding
<1>4. /\ Once("PREPARE_DECODE_SLOT", Adding, r)
      /\ r \notin tracked /\ received[r] = {} /\ seen[r] = <<>>
  BY <1>1, <1>2, <1>3 DEF PreparesOnce, Somewhere
<1>5. CASE ~Acceptable(s)
  <2>1. /\ crashed' = TRUE /\ errors' = errors
        /\ UNCHANGED <<envVars, cq, event_queue, trackerVars, pollVars, workerVars, seen,
                       completed>>
    BY <1>2, <1>5 DEF AddRequest
  <2> QED BY <1>1, <2>1, CrashStep DEF TypeOK
<1>6. CASE Acceptable(s)
  <2>1. /\ tracked' = tracked \cup {r}
        /\ seq_to_request' = [seq_to_request EXCEPT ![s] = r]
        /\ state' = [state EXCEPT ![r] = "ASSIGNED"]
        /\ received' = [received EXCEPT ![r] = {}]
        /\ pc' = [pc EXCEPT ![w] = "set_waiting"] /\ UNCHANGED <<req, crashed>>
        /\ UNCHANGED <<envVars, errors, cq, event_queue, pollVars, seen, completed>>
    BY <1>2, <1>6 DEF AddRequest, Goto
  <2>2. UNCHANGED <<big_endian, phase, slot_of, landed, broken, cq, batch, poll_pc, poll_req>>
    BY <2>1 DEF envVars, pollVars
  <2>3. received' = received
    BY <1>1, <1>4, <2>1 DEF TypeOK
  <2>4. /\ pc' \in [Workers -> PCs] /\ pc'[w] = "set_waiting"
        /\ \A v \in Workers : v # w => pc'[v] = pc[v]
    BY <1>1, <2>1 DEF TypeOK, PCs
  <2>5. TypeOK'
    BY <1>1, <1>2, <2>1, <2>2, <2>3, <2>4 DEF TypeOK, Completions, Events, States
  <2>6. TrackerMapsAgree'
    <3>1. s = slot_of[r] /\ NoReq \notin Requests
      BY <1>2, DecodeAssumption
    <3>2. \A q \in tracked : slot_of[q] # s
      BY <1>6 DEF Acceptable
    <3>3. seq_to_request[s] = NoReq
      BY <1>1, <1>2, <3>2 DEF TypeOK, TrackerMapsAgree
    <3> QED BY <1>1, <1>2, <2>1, <2>2, <3>1, <3>2, <3>3 DEF TypeOK, TrackerMapsAgree
  <2>7. LayerComesFromItsWrite' /\ DecodeAfterKeys'
    BY <2>1, <2>2, <2>3 DEF IInv, LayerComesFromItsWrite, OwnLayersOnly, DecodeAfterKeys
  <2>8. OwnSlots'
    BY <1>1, <1>2, <2>1, <2>2 DEF OwnSlots
  <2>9. CompletionsWritten' /\ PollView'
    BY <2>2 DEF IInv, CompletionsWritten, WrittenBySlot, PollView, Decoded
  <2>10. AfterNew'
    BY <1>1, <1>2, <2>1, <2>2, <2>3, <2>4 DEF AfterNew, Positions
  <2>11. PreparesOnce' /\ DecidesOnce'
    <3>1. \A v \in Workers, q \in Requests :
            /\ Holds(v, Adding, q)' => Holds(v, Adding, q) /\ v # w
            /\ Holds(v, Decoding, q)' => Holds(v, Decoding, q)
      BY <2>1, <2>4 DEF Holds, Adding, Decoding
    <3>2. \A q \in Requests : Notifying(q)' => Notifying(q)
      BY <2>2 DEF Notifying
    <3>3. ~InQueue("PREPARE_DECODE_SLOT", r)'
      BY <1>3, <1>4, <2>1 DEF Once, InQueue, IsAt, Positions
    <3>4. ~Somewhere("PREPARE_DECODE_SLOT", Adding, r)'
      BY <1>2, <1>3, <1>4, <3>1, <3>3 DEF Once, Somewhere
    <3> QED BY <2>1, <2>3, <3>1, <3>2, <3>4, EventsKept
  <2> QED BY <2>5, <2>6, <2>7, <2>8, <2>9, <2>10, <2>11 DEF IInv
<1> QED BY <1>5, <1>6

\* The decode call: the keys of every layer are in the buffer, and there was no call
\* before.
LEMMA PostDecodeStep ==
  ASSUME IInv, NEW w \in Workers, PostDecode(w), ~crashed
  PROVE  IInv'
<1>1. TypeOK /\ TrackerMapsAgree /\ LayerComesFromItsWrite /\ AfterNew /\ DecidesOnce
  BY DEF IInv
<1>2. PICK r \in Requests : r = req[w] /\ pc[w] = "post"
  BY <1>1 DEF PostDecode, AfterNew
<1>3. /\ Once("KV_TRANSFER_COMPLETE", Decoding, r)
      /\ Somewhere("KV_TRANSFER_COMPLETE", Decoding, r)
      /\ received[r] = Layers /\ seen[r] = <<>> /\ ~Notifying(r)
  BY <1>1, <1>2 DEF DecidesOnce, Somewhere, Holds, Decoding
<1>4. /\ seen' = [seen EXCEPT ![r] = Append(@, landed[r])]
      /\ UNCHANGED <<envVars, cq, event_queue, trackerVars, pollVars, completed, req>>
      /\ errors' \in 0 .. MaxErrors
      /\ \/ /\ pc' = [pc EXCEPT ![w] = "set_completed"] \/ pc' = [pc EXCEPT ![w] = "set_failed"]
            /\ crashed' = FALSE
         \/ pc' = pc /\ crashed' = TRUE
  <2>1. errors \in 0 .. MaxErrors /\ MaxErrors \in Nat
    BY <1>1, DecodeAssumption DEF TypeOK
  <2> QED BY <1>2, <2>1 DEF PostDecode, Goto, workerVars
<1>5. UNCHANGED <<big_endian, phase, slot_of, landed, broken, cq, batch, poll_pc, poll_req,
                  event_queue, tracked, seq_to_request, state, received, req, completed>>
  BY <1>4 DEF envVars, pollVars, trackerVars
<1>6. /\ pc' \in [Workers -> PCs] /\ crashed' \in BOOLEAN
      /\ crashed' \/ pc'[w] \in {"set_completed", "set_failed"}
      /\ \A v \in Workers : pc'[v] = pc[v] \/ (pc'[v] \in {"set_completed", "set_failed"} /\ v = w)
  <2>1. pc \in [Workers -> PCs] /\ "set_completed" \in PCs /\ "set_failed" \in PCs
    BY <1>1 DEF TypeOK, PCs
  <2> QED BY <1>4, <2>1
<1>7. landed[r] \in 0 .. AllWrites /\ landed \in [Requests -> 0 .. AllWrites]
  BY <1>1 DEF TypeOK
<1>8. /\ seen' \in [Requests -> Seq(0 .. AllWrites)]
      /\ seen'[r] = <<landed[r]>> /\ \A q \in Requests : q # r => seen'[q] = seen[q]
  BY <1>1, <1>3, <1>4, <1>7 DEF TypeOK
<1>9. TypeOK'
  BY <1>1, <1>4, <1>5, <1>6, <1>8 DEF TypeOK, Completions, Events
<1>10. TrackerMapsAgree' /\ LayerComesFromItsWrite' /\ OwnSlots'
  BY <1>5 DEF IInv, TrackerMapsAgree, LayerComesFromItsWrite, OwnLayersOnly, OwnSlots
<1>11. CompletionsWritten' /\ PollView'
  BY <1>5 DEF IInv, CompletionsWritten, WrittenBySlot, PollView, Decoded
<1>12. DecodeAfterKeys'
  <2>1. phase[r] # "aborted" => landed[r] >= AllWrites - 1
    <3>1. NumLayers - 1 \in Layers /\ NumLayers \in Nat
      BY DecodeAssumption DEF Layers
    <3>2. phase[r] # "aborted" => landed[r] > 2 * (NumLayers - 1)
      BY <1>1, <1>3, <3>1 DEF LayerComesFromItsWrite, OwnLayersOnly
    <3> QED BY <1>7, <3>1, <3>2 DEF AllWrites
  <2>2. Len(seen'[r]) = 1 /\ seen'[r][1] = landed[r]
    BY <1>8
  <2> QED BY <1>5, <1>8, <2>1, <2>2 DEF IInv, DecodeAfterKeys
<1>13. AfterNew'
  BY <1>1, <1>2, <1>5, <1>6, <1>8 DEF AfterNew, Positions
<1>14. \A t, q : InQueue(t, q)' <=> InQueue(t, q)
  BY <1>5 DEF InQueue, IsAt, Positions
<1>15. /\ \A v \in Workers, q \in Requests :
            /\ Holds(v, Adding, q)' => Holds(v, Adding, q)
            /\ Holds(v, Decoding, q)' => Holds(v, Decoding, q)
       /\ \A q \in Requests : Notifying(q)' <=> Notifying(q)
  BY <1>5, <1>6 DEF Holds, Adding, Decoding, Notifying
<1>16. ASSUME NEW t, NEW L, NEW q \in Requests, Once(t, L, q),
              \A v \in Workers : Holds(v, L, q)' => Holds(v, L, q)
       PROVE  Once(t, L, q)' /\ (Somewhere(t, L, q)' => Somewhere(t, L, q))
  <2>1. Positions' = Positions /\ \A i : IsAt(i, t, q)' <=> IsAt(i, t, q)
    BY <1>5 DEF IsAt, Positions
  <2> QED BY <1>14, <1>16, <2>1 DEF Once, Somewhere
<1>17. PreparesOnce'
  <2> SUFFICES ASSUME NEW q \in Requests
               PROVE  /\ Once("PREPARE_DECODE_SLOT", Adding, q)'
                      /\ Somewhere("PREPARE_DECODE_SLOT", Adding, q)' =>
                           q \notin tracked' /\ received'[q] = {} /\ seen'[q] = <<>>
    BY DEF PreparesOnce
  <2>1. /\ Once("PREPARE_DECODE_SLOT", Adding, q)
        /\ Somewhere("PREPARE_DECODE_SLOT", Adding, q) =>
             q \notin tracked /\ received[q] = {} /\ seen[q] = <<>>
    BY DEF IInv, PreparesOnce
  <2>2. /\ Once("PREPARE_DECODE_SLOT", Adding, q)'
        /\ Somewhere("PREPARE_DECODE_SLOT", Adding, q)' =>
             Somewhere("PREPARE_DECODE_SLOT", Adding, q)
    BY <1>15, <1>16, <2>1
  <2>3. q = r => received[q] # {}
    BY <1>3, SomeLayer
  <2> QED BY <1>5, <1>8, <2>1, <2>2, <2>3
<1>18. DecidesOnce'
  <2> SUFFICES ASSUME NEW q \in Requests
               PROVE  /\ Once("KV_TRANSFER_COMPLETE", Decoding, q)'
                      /\ Notifying(q)' => ~Somewhere("KV_TRANSFER_COMPLETE", Decoding, q)'
                      /\ Notifying(q)' \/ Somewhere("KV_TRANSFER_COMPLETE", Decoding, q)' =>
                           received'[q] = Layers /\ (seen'[q] = <<>> \/ crashed')
                      /\ seen'[q] # <<>> => received'[q] = Layers /\ Len(seen'[q]) = 1
    BY DEF DecidesOnce
  <2>1. /\ Once("KV_TRANSFER_COMPLETE", Decoding, q)'
        /\ Somewhere("KV_TRANSFER_COMPLETE", Decoding, q)' =>
             Somewhere("KV_TRANSFER_COMPLETE", Decoding, q)
    BY <1>1, <1>15, <1>16 DEF DecidesOnce
  <2>2. CASE q # r
    BY <1>1, <1>5, <1>8, <1>15, <2>1, <2>2 DEF DecidesOnce
  <2>3. CASE q = r
    <3>1. Len(seen'[r]) = 1 /\ received'[r] = Layers /\ ~Notifying(r)'
      BY <1>3, <1>5, <1>8, <1>15
    <3>2. ~crashed' => ~Somewhere("KV_TRANSFER_COMPLETE", Decoding, r)'
      <4>1. ~crashed' => ~Holds(w, Decoding, r)'
        BY <1>6 DEF Holds, Decoding
      <4>2. Holds(w, Decoding, r)
        BY <1>2 DEF Holds, Decoding
      <4>3. ~InQueue("KV_TRANSFER_COMPLETE", r)' /\ \A v \in Workers : v # w => ~Holds(v, Decoding, r)'
        BY <1>3, <1>14, <1>15, <4>2 DEF Once
      <4> QED BY <4>1, <4>3 DEF Somewhere
    <3> QED BY <2>1, <2>3, <3>1, <3>2
  <2> QED BY <2>2, <2>3
<1> QED BY <1>9, <1>10, <1>11, <1>12, <1>13, <1>17, <1>18 DEF IInv

-----------------------------------------------------------------------------
(* The poll thread *)

\* A step of the poll thread that tells nobody of a transfer.
LEMMA PollOnlyStep ==
  ASSUME IInv, UNCHANGED <<envVars, errors, event_queue, trackerVars, workerVars, resultVars>>,
         cq' \in Seq(Completions), batch' \in Seq(Completions),
         poll_pc' \in {"poll", "resolve", "mark"}, poll_req' \in Requests \cup {NoReq},
         CompletionsWritten', PollView'
  PROVE  IInv'
<1>1. UNCHANGED <<big_endian, phase, slot_of, landed, broken, errors, event_queue, tracked,
                  seq_to_request, state, received, pc, req, crashed, seen, completed>>
  BY DEF envVars, trackerVars, workerVars, resultVars
<1>2. TypeOK'
  BY <1>1 DEF IInv, TypeOK, Completions, Events
<1>3. /\ TrackerMapsAgree' /\ LayerComesFromItsWrite' /\ DecodeAfterKeys' /\ OwnSlots'
      /\ AfterNew'
  BY <1>1 DEF IInv, TrackerMapsAgree, LayerComesFromItsWrite, OwnLayersOnly,
              DecodeAfterKeys, OwnSlots, AfterNew, Positions
<1>4. PreparesOnce' /\ DecidesOnce'
  <2>1. /\ \A v \in Workers, r \in Requests :
             /\ Holds(v, Adding, r)' => Holds(v, Adding, r)
             /\ Holds(v, Decoding, r)' => Holds(v, Decoding, r)
        /\ \A r \in Requests : ~Notifying(r)'
    BY <1>1 DEF Holds, Notifying
  <2> QED BY <1>1, <2>1, EventsKept
<1> QED BY <1>2, <1>3, <1>4 DEF IInv

\* The rest of a batch is still what it was.
LEMMA BatchShrinks ==
  ASSUME IInv, UNCHANGED <<phase, slot_of, landed, cq>>, poll_pc # "poll", NextCompletion
  PROVE  /\ batch' \in Seq(Completions) /\ CompletionsWritten' /\ PollView'
         /\ poll_pc' \in {"poll", "resolve"} /\ poll_req' = NoReq
<1>1. /\ batch \in Seq(Completions) /\ batch # <<>> /\ CompletionsWritten
      /\ batch' = Tail(batch) /\ poll_req' = NoReq
      /\ poll_pc' = IF Tail(batch) = <<>> THEN "poll" ELSE "resolve"
  BY DEF IInv, TypeOK, PollView, NextCompletion
<1>2. /\ batch' \in Seq(Completions)
      /\ \A i \in 1 .. Len(batch') : i + 1 \in 1 .. Len(batch) /\ batch'[i] = batch[i + 1]
  BY <1>1
<1>3. CompletionsWritten'
  BY <1>1, <1>2 DEF CompletionsWritten, WrittenBySlot
<1>4. PollView'
  BY <1>1 DEF PollView
<1> QED BY <1>1, <1>2, <1>3, <1>4

\* poll_recv_cq: a batch of completions, or none of them if one failed.
LEMMA PollStep ==
  ASSUME IInv, Poll
  PROVE  IInv'
<1>1. PICK n \in Nat :
        /\ n = (IF Len(cq) < MaxBatch THEN Len(cq) ELSE MaxBatch)
        /\ n > 0 /\ n <= Len(cq)
  BY DecodeAssumption DEF Poll, IInv, TypeOK
<1>2. PICK wcs : wcs = SubSeq(cq, 1, n)
  OBVIOUS
<1>3. /\ poll_pc = "poll" /\ cq' = SubSeq(cq, n + 1, Len(cq))
      /\ \/ (\A i \in 1 .. n : wcs[i].ok) /\ batch' = wcs /\ poll_pc' = "resolve"
         \/ UNCHANGED <<batch, poll_pc>>
      /\ UNCHANGED <<envVars, errors, event_queue, trackerVars, poll_req, workerVars,
                     resultVars>>
  BY <1>1, <1>2 DEF Poll
<1>4. /\ cq \in Seq(Completions) /\ batch \in Seq(Completions)
      /\ poll_req \in Requests \cup {NoReq} /\ CompletionsWritten /\ PollView
  BY DEF IInv, TypeOK
<1>5. /\ wcs \in Seq(Completions) /\ Len(wcs) = n
      /\ \A i \in 1 .. n : wcs[i] = cq[i] /\ i \in 1 .. Len(cq)
  BY <1>1, <1>2, <1>4
<1>6. /\ cq' \in Seq(Completions)
      /\ \A i \in 1 .. Len(cq') : n + i \in 1 .. Len(cq) /\ cq'[i] = cq[n + i]
  BY <1>1, <1>3, <1>4
<1>7. UNCHANGED <<phase, slot_of, landed>>
  BY <1>3 DEF envVars
<1>8. CompletionsWritten'
  <2> USE <1>7 DEF WrittenBySlot
  <2>1. \A i \in 1 .. Len(cq') : WrittenBySlot(cq[i])'
    <3> SUFFICES ASSUME NEW i \in 1 .. Len(cq') PROVE WrittenBySlot(cq[i])'
      OBVIOUS
    <3>1. WrittenBySlot(cq[n + i]) /\ cq'[i] = cq[n + i]
      BY <1>4, <1>6 DEF CompletionsWritten
    <3> QED BY <3>1
  <2>2. \A i \in 1 .. Len(batch') : batch'[i].ok /\ WrittenBySlot(batch[i])'
    <3>1. CASE UNCHANGED <<batch, poll_pc>>
      BY <1>4, <3>1 DEF CompletionsWritten
    <3>2. CASE batch' = wcs /\ \A i \in 1 .. n : wcs[i].ok
      <4> SUFFICES ASSUME NEW i \in 1 .. Len(batch')
                   PROVE  batch'[i].ok /\ WrittenBySlot(batch[i])'
        OBVIOUS
      <4>1. i \in 1 .. n /\ batch'[i] = cq[i] /\ batch'[i].ok
        BY <1>5, <3>2
      <4>2. WrittenBySlot(cq[i])
        BY <1>4, <1>5, <4>1 DEF CompletionsWritten
      <4> QED BY <4>1, <4>2
    <3> QED BY <1>3, <3>1, <3>2
  <2> QED BY <2>1, <2>2 DEF CompletionsWritten
<1>9. PollView' /\ batch' \in Seq(Completions) /\ poll_pc' \in {"poll", "resolve", "mark"}
  <2>1. wcs # <<>>
    BY <1>1, <1>5
  <2> QED BY <1>3, <1>4, <1>5, <2>1 DEF PollView
<1> QED BY <1>3, <1>4, <1>6, <1>8, <1>9, PollOnlyStep

\* resolve_seq_num names the tracked request that has the slot.
LEMMA ResolveStep ==
  ASSUME IInv, Resolve
  PROVE  IInv'
<1>1. PICK seq : seq = Decoded(Head(batch)).seq
  OBVIOUS
<1>2. /\ poll_pc = "resolve"
      /\ UNCHANGED <<envVars, errors, cq, event_queue, trackerVars, workerVars, resultVars>>
  BY DEF Resolve
<1>3. /\ cq \in Seq(Completions) /\ batch \in Seq(Completions) /\ CompletionsWritten
      /\ batch # <<>>
  BY <1>2 DEF IInv, TypeOK, PollView
<1>4. UNCHANGED <<big_endian, phase, slot_of, landed, cq>>
  BY <1>2 DEF envVars
<1>5. CASE NextCompletion
  <2>1. /\ batch' \in Seq(Completions) /\ CompletionsWritten' /\ PollView'
        /\ poll_pc' \in {"poll", "resolve"} /\ poll_req' = NoReq
    BY <1>2, <1>4, <1>5, BatchShrinks
  <2> QED BY <1>2, <1>3, <2>1, PollOnlyStep
<1>6. CASE /\ KnownSeq(seq) /\ poll_req' = seq_to_request[seq]
           /\ poll_pc' = "mark" /\ UNCHANGED batch
  <2>1. PICK r \in Requests :
          r = poll_req' /\ slot_of[r] = seq /\ r \in tracked /\ phase[r] # "new"
    BY <1>6 DEF IInv, TypeOK, KnownSeq, TrackerMapsAgree, OwnSlots
  <2>2. CompletionsWritten'
    BY <1>3, <1>4, <1>6 DEF CompletionsWritten, WrittenBySlot
  <2>3. PollView'
    BY <1>1, <1>3, <1>4, <1>6, <2>1 DEF PollView, Decoded
  <2> QED BY <1>2, <1>3, <1>6, <2>1, <2>2, <2>3, PollOnlyStep
<1> QED BY <1>1, <1>5, <1>6 DEF Resolve

\* mark_layer_received: a layer counts for the request whose write carried it, and the
\* last one moves the request on once.
LEMMA MarkStep ==
  ASSUME IInv, MarkLayerReceived
  PROVE  IInv'
<1>1. /\ TypeOK /\ OwnSlots /\ CompletionsWritten /\ PollView /\ AfterNew
      /\ PreparesOnce /\ DecidesOnce /\ LayerComesFromItsWrite
  BY DEF IInv
<1>2. /\ poll_pc = "mark" /\ batch # <<>>
      /\ UNCHANGED <<envVars, errors, cq, event_queue, tracked, seq_to_request, workerVars,
                     resultVars>>
  BY <1>1 DEF MarkLayerReceived, PollView
<1>3. PICK r \in Requests : r = poll_req /\ phase[r] # "new"
  BY <1>1, <1>2 DEF PollView
<1>4. PICK l : l = Decoded(Head(batch)).layer
  OBVIOUS
<1>5. PICK c \in Completions : c = Head(batch) /\ WrittenBySlot(c) /\ c.ok
  BY <1>1, <1>2 DEF TypeOK, CompletionsWritten
<1>6. UNCHANGED <<big_endian, phase, slot_of, landed, broken, cq, errors, event_queue,
                  tracked, seq_to_request, pc, req, crashed, seen, completed>>
  BY <1>2 DEF envVars, workerVars, resultVars
<1>7. CASE ~NewLayer(r, l)
  <2>1. NextCompletion /\ UNCHANGED <<state, received>>
    BY <1>3, <1>4, <1>7 DEF MarkLayerReceived
  <2>2. /\ batch' \in Seq(Completions) /\ CompletionsWritten' /\ PollView'
        /\ poll_pc' \in {"poll", "resolve"} /\ poll_req' = NoReq
    BY <1>2, <1>6, <2>1, BatchShrinks
  <2>3. UNCHANGED trackerVars /\ cq' \in Seq(Completions)
    BY <1>1, <1>6, <2>1 DEF trackerVars, TypeOK
  <2> QED BY <1>2, <2>2, <2>3, PollOnlyStep
<1>8. CASE NewLayer(r, l)
  <2>1. r \in tracked /\ l \in Layers /\ l \notin received[r]
    BY <1>8 DEF NewLayer
  <2>2. /\ received' = [received EXCEPT ![r] = @ \cup {l}]
        /\ state' = [state EXCEPT ![r] =
             IF received'[r] = Layers THEN "READY_FOR_DECODE"
             ELSE IF received[r] = {} THEN "RECEIVING_KV" ELSE @]
        /\ \/ /\ received'[r] = Layers /\ poll_pc' = "notify" /\ UNCHANGED <<batch, poll_req>>
           \/ received'[r] # Layers /\ NextCompletion
    BY <1>3, <1>4, <1>8 DEF MarkLayerReceived
  <2>3. /\ received' \in [Requests -> SUBSET Layers]
        /\ received'[r] = received[r] \cup {l}
        /\ \A q \in Requests : q # r => received'[q] = received[q]
    BY <1>1, <2>1, <2>2 DEF TypeOK
  <2>4. /\ batch' \in Seq(Completions) /\ CompletionsWritten' /\ PollView'
        /\ poll_pc' \in {"poll", "resolve", "notify"} /\ poll_req' \in Requests \cup {NoReq}
    <3>1. CASE NextCompletion
      BY <1>2, <1>6, <3>1, BatchShrinks
    <3>2. CASE poll_pc' = "notify" /\ UNCHANGED <<batch, poll_req>>
      <4>1. CompletionsWritten'
        BY <1>1, <1>6, <3>2 DEF CompletionsWritten, WrittenBySlot
      <4> QED BY <1>1, <1>2, <1>3, <1>6, <3>2, <4>1 DEF PollView, TypeOK
    <3> QED BY <2>2, <3>1, <3>2
  <2>5. TypeOK'
    <3>1. state' \in [Requests -> States]
      BY <1>1, <2>2 DEF TypeOK, States
    <3> QED BY <1>1, <1>6, <2>3, <2>4, <3>1 DEF TypeOK, Completions, Events
  <2>6. TrackerMapsAgree' /\ DecodeAfterKeys' /\ OwnSlots'
    BY <1>6 DEF IInv, TrackerMapsAgree, DecodeAfterKeys, OwnSlots
  <2>7. LayerComesFromItsWrite'
    <3>1. Decoded(c).seq \in Slots /\ Decoded(c).seq = slot_of[r]
      BY <1>1, <1>2, <1>3, <1>5 DEF PollView, OwnSlots
    <3>2. c.slot = slot_of[r] /\ c.layer = l
      BY <1>4, <1>5, <2>1, <3>1, DecodedIsMeant
    <3>3. phase[r] # "aborted" => landed[r] > 2 * l
      BY <1>1, <1>3, <1>5, <3>2 DEF WrittenBySlot, OwnSlots, TypeOK
    <3> QED BY <1>1, <1>6, <2>3, <3>3 DEF LayerComesFromItsWrite, OwnLayersOnly
  <2>8. /\ received[r] # Layers /\ seen[r] = <<>> /\ ~Somewhere("KV_TRANSFER_COMPLETE", Decoding, r)
        /\ ~Somewhere("PREPARE_DECODE_SLOT", Adding, r)
    BY <1>1, <2>1 DEF DecidesOnce, PreparesOnce
  <2>9. AfterNew'
    BY <1>1, <1>3, <1>6, <2>3 DEF AfterNew, Positions
  <2>10. \A t, L : \A q \in Requests :
           /\ Once(t, L, q)' <=> Once(t, L, q)
           /\ Somewhere(t, L, q)' <=> Somewhere(t, L, q)
    BY <1>6 DEF Once, Somewhere, InQueue, Holds, IsAt, Positions
  <2>11. PreparesOnce'
    BY <1>1, <1>6, <2>3, <2>8, <2>10 DEF PreparesOnce
  <2>12. DecidesOnce'
    <3>1. \A q \in Requests : Notifying(q)' => q = r /\ received'[q] = Layers
      BY <1>3, <2>2 DEF Notifying, NextCompletion
    <3> QED BY <1>1, <1>6, <2>3, <2>8, <2>10, <3>1 DEF DecidesOnce
  <2> QED BY <2>4, <2>5, <2>6, <2>7, <2>9, <2>11, <2>12 DEF IInv
<1> QED BY <1>7, <1>8

\* KV_TRANSFER_COMPLETE follows the last layer, once.
LEMMA NotifyStep ==
  ASSUME IInv, Notify
  PROVE  IInv'
<1>1. TypeOK /\ PollView /\ AfterNew /\ PreparesOnce /\ DecidesOnce
  BY DEF IInv
<1>2. /\ poll_pc = "notify" /\ NextCompletion
      /\ UNCHANGED <<envVars, cq, trackerVars, workerVars, resultVars>>
  BY DEF Notify
<1>3. PICK r \in Requests : r = poll_req /\ phase[r] # "new"
  BY <1>1, <1>2 DEF PollView
<1>4. UNCHANGED <<big_endian, phase, slot_of, landed, broken, cq, tracked, seq_to_request,
                  state, received, pc, req, crashed, seen, completed>>
  BY <1>2 DEF envVars, trackerVars, workerVars, resultVars
<1>5. /\ batch' \in Seq(Completions) /\ CompletionsWritten' /\ PollView'
      /\ poll_pc' \in {"poll", "resolve"} /\ poll_req' = NoReq
  BY <1>2, <1>4, BatchShrinks
<1>6. CASE UNCHANGED event_queue
  <2>1. errors' \in 0 .. MaxErrors
    BY <1>1, DecodeAssumption DEF Notify, TypeOK
  <2>2. TypeOK'
    BY <1>1, <1>4, <1>5, <1>6, <2>1 DEF TypeOK, Completions, Events
  <2>3. /\ TrackerMapsAgree' /\ LayerComesFromItsWrite' /\ DecodeAfterKeys' /\ OwnSlots'
        /\ AfterNew'
    BY <1>4, <1>6 DEF IInv, TrackerMapsAgree, LayerComesFromItsWrite, OwnLayersOnly,
                      DecodeAfterKeys, OwnSlots, AfterNew, Positions
  <2>4. PreparesOnce' /\ DecidesOnce'
    <3>1. /\ \A v \in Workers, q \in Requests :
               /\ Holds(v, Adding, q)' => Holds(v, Adding, q)
               /\ Holds(v, Decoding, q)' => Holds(v, Decoding, q)
          /\ \A q \in Requests : ~Notifying(q)'
      BY <1>4, <1>5 DEF Holds, Notifying
    <3> QED BY <1>4, <1>6, <3>1, EventsKept
  <2> QED BY <1>5, <2>2, <2>3, <2>4 DEF IInv
<1>7. CASE event_queue' = Append(event_queue, Event("KV_TRANSFER_COMPLETE", r)) /\ errors' = errors
  <2> DEFINE e == Event("KV_TRANSFER_COMPLETE", r)
  <2>1. /\ e \in Events /\ e.type = "KV_TRANSFER_COMPLETE" /\ e.req = r
        /\ event_queue \in Seq(Events) /\ event_queue' = Append(event_queue, e)
    BY <1>1, <1>7 DEF Events, Event, TypeOK
  <2> HIDE DEF e
  <2>2. TypeOK'
    <3>1. event_queue' \in Seq(Events)
      BY <2>1, QueueGrows
    <3> QED BY <1>1, <1>4, <1>5, <1>7, <3>1 DEF TypeOK
  <2>3. /\ TrackerMapsAgree' /\ LayerComesFromItsWrite' /\ DecodeAfterKeys' /\ OwnSlots'
    BY <1>4 DEF IInv, TrackerMapsAgree, LayerComesFromItsWrite, OwnLayersOnly,
                DecodeAfterKeys, OwnSlots
  <2>4. AfterNew'
    <3>1. PICK k \in Nat : k = Len(event_queue) + 1
      BY <2>1, QueueGrows
    <3>2. /\ \A i \in Positions' : i \in Positions \/ i = k
          /\ \A i \in Positions : event_queue'[i] = event_queue[i]
          /\ event_queue'[k] = e
      BY <2>1, <3>1, QueueGrows
    <3>3. \A i \in Positions : phase[event_queue[i].req] # "new"
      BY <1>1 DEF AfterNew
    <3>4. \A i \in Positions' : phase[event_queue'[i].req] # "new"
      BY <1>3, <2>1, <3>2, <3>3
    <3> QED BY <1>1, <1>4, <3>4 DEF AfterNew
  <2>5. \A t, L : \A q \in Requests :
          ~(t = "KV_TRANSFER_COMPLETE" /\ q = r) /\ Once(t, L, q) =>
            /\ Once(t, L, q)'
            /\ Somewhere(t, L, q)' => Somewhere(t, L, q)
    <3> SUFFICES ASSUME NEW t, NEW L, NEW q \in Requests,
                        ~(t = "KV_TRANSFER_COMPLETE" /\ q = r), Once(t, L, q)
                 PROVE  Once(t, L, q)' /\ (Somewhere(t, L, q)' => Somewhere(t, L, q))
      OBVIOUS
    <3>1. /\ InQueue(t, q)' <=> InQueue(t, q)
          /\ \A i \in Positions' : IsAt(i, t, q)' => i \in Positions /\ IsAt(i, t, q)
      BY <2>1, EventAdded
    <3>2. \A v \in Workers : Holds(v, L, q)' <=> Holds(v, L, q)
      BY <1>4 DEF Holds
    <3> QED BY <3>1, <3>2 DEF Once, Somewhere
  <2>6. Once("KV_TRANSFER_COMPLETE", Decoding, r)' /\ received[r] = Layers
        /\ (seen[r] = <<>> \/ crashed)
    <3>1. /\ ~Somewhere("KV_TRANSFER_COMPLETE", Decoding, r)
          /\ received[r] = Layers /\ (seen[r] = <<>> \/ crashed)
      BY <1>1, <1>2, <1>3 DEF DecidesOnce, Notifying
    <3>2. \A v \in Workers : ~Holds(v, Decoding, r)'
      BY <1>4, <3>1 DEF Somewhere, Holds
    <3>3. \A i, j \in Positions' : IsAt(i, "KV_TRANSFER_COMPLETE", r)' /\
             IsAt(j, "KV_TRANSFER_COMPLETE", r)' => i = j
      BY <2>1, <3>1, EventAdded DEF Somewhere
    <3> QED BY <3>1, <3>2, <3>3 DEF Once
  <2>7. PreparesOnce'
    BY <1>1, <1>4, <2>5 DEF PreparesOnce
  <2>8. DecidesOnce'
    <3>1. \A q \in Requests : ~Notifying(q)'
      BY <1>5 DEF Notifying
    <3> QED BY <1>1, <1>4, <2>5, <2>6, <3>1 DEF DecidesOnce
  <2> QED BY <1>5, <2>2, <2>3, <2>4, <2>7, <2>8 DEF IInv
<1> QED BY <1>3, <1>6, <1>7 DEF Notify

-----------------------------------------------------------------------------
(* The orchestrator and the prefill node *)

\* PREPARE_DECODE_SLOT is the first that the node hears of the request, and the slot
\* is no other request's.
LEMMA SendPrepareStep ==
  ASSUME IInv, NEW r \in Requests, NEW s \in Slots, SendPrepare(r, s)
  PROVE  IInv'
<1>1. /\ TypeOK /\ TrackerMapsAgree /\ LayerComesFromItsWrite /\ DecodeAfterKeys /\ OwnSlots
      /\ CompletionsWritten /\ PollView /\ AfterNew /\ PreparesOnce /\ DecidesOnce
  BY DEF IInv
<1> DEFINE e == Event("PREPARE_DECODE_SLOT", r)
<1>2. /\ phase[r] = "new" /\ s \notin SlotsInUse
      /\ phase' = [phase EXCEPT ![r] = "prepared"]
      /\ slot_of' = [slot_of EXCEPT ![r] = s]
      /\ event_queue' = Append(event_queue, e)
      /\ UNCHANGED <<big_endian, landed, broken, errors, cq, batch, poll_pc, poll_req, tracked,
                     seq_to_request, state, received, pc, req, crashed, seen, completed>>
  BY DEF SendPrepare, pollVars, trackerVars, workerVars, resultVars
<1>3. /\ e \in Events /\ e.type = "PREPARE_DECODE_SLOT" /\ e.req = r
      /\ event_queue \in Seq(Events)
  BY <1>1 DEF Events, Event, TypeOK
<1> HIDE DEF e
<1>4. /\ phase' \in [Requests -> {"new", "prepared", "assigned", "aborted"}]
      /\ slot_of' \in [Requests -> Slots \cup {NoSlot}]
      /\ phase'[r] = "prepared" /\ slot_of'[r] = s
      /\ \A q \in Requests : q # r => phase'[q] = phase[q] /\ slot_of'[q] = slot_of[q]
  BY <1>1, <1>2 DEF TypeOK
<1>5. r \notin tracked /\ received[r] = {} /\ seen[r] = <<>>
  BY <1>1, <1>2 DEF OwnSlots, AfterNew
<1>6. TypeOK'
  <2>1. event_queue' \in Seq(Events)
    BY <1>1, <1>2, <1>3, QueueGrows DEF TypeOK
  <2> QED BY <1>1, <1>2, <1>4, <2>1 DEF TypeOK
<1>7. TrackerMapsAgree'
  <2>1. \A t \in Slots : seq_to_request[t] # r
    BY <1>1, <1>5 DEF TrackerMapsAgree
  <2> QED BY <1>1, <1>2, <1>4, <1>5, <2>1 DEF TrackerMapsAgree
<1>8. LayerComesFromItsWrite' /\ DecodeAfterKeys'
  BY <1>1, <1>2, <1>4, <1>5 DEF LayerComesFromItsWrite, OwnLayersOnly, DecodeAfterKeys
<1>9. OwnSlots'
  <2>1. \A q \in Requests : phase[q] \in {"prepared", "assigned"} => slot_of[q] # s
    BY <1>2 DEF SlotsInUse
  <2> QED BY <1>1, <1>2, <1>4, <1>5, <2>1 DEF OwnSlots, TypeOK
<1>10. CompletionsWritten'
  <2>1. \A c : WrittenBySlot(c) => WrittenBySlot(c)'
    BY <1>2, <1>4 DEF WrittenBySlot
  <2> QED BY <1>1, <1>2, <2>1 DEF CompletionsWritten, WrittenBySlot
<1>11. PollView'
  BY <1>1, <1>2, <1>4 DEF PollView, Decoded
<1>12. AfterNew'
  <2>1. \A i \in Positions' : event_queue'[i].req \in Requests /\ phase'[event_queue'[i].req] # "new"
    <3>1. PICK k : k = Len(event_queue) + 1
      OBVIOUS
    <3>2. /\ \A i \in Positions' : i \in Positions \/ i = k
          /\ \A i \in Positions : event_queue'[i] = event_queue[i]
          /\ event_queue'[k].req = r
      BY <1>2, <1>3, <3>1, QueueGrows
    <3>3. \A i \in Positions : event_queue[i] \in Events
      BY <1>3 DEF Positions
    <3>4. \A i \in Positions : /\ event_queue[i].req \in Requests
                               /\ phase[event_queue[i].req] # "new"
      BY <1>1, <3>3 DEF AfterNew, Events
    <3> SUFFICES ASSUME NEW i \in Positions'
                 PROVE  event_queue'[i].req \in Requests /\ phase'[event_queue'[i].req] # "new"
      OBVIOUS
    <3>5. PICK q \in Requests : q = event_queue'[i].req /\ (q = r \/ phase[q] # "new")
      BY <3>2, <3>4
    <3> QED BY <1>4, <3>5
  <2> QED BY <1>1, <1>2, <1>4, <2>1 DEF AfterNew
<1>13. \A t, L : \A q \in Requests :
         ~(t = "PREPARE_DECODE_SLOT" /\ q = r) /\ Once(t, L, q) =>
           /\ Once(t, L, q)'
           /\ Somewhere(t, L, q)' => Somewhere(t, L, q)
  <2> SUFFICES ASSUME NEW t, NEW L, NEW q \in Requests,
                      ~(t = "PREPARE_DECODE_SLOT" /\ q = r), Once(t, L, q)
               PROVE  Once(t, L, q)' /\ (Somewhere(t, L, q)' => Somewhere(t, L, q))
    OBVIOUS
  <2>1. /\ InQueue(t, q)' <=> InQueue(t, q)
        /\ \A i \in Positions' : IsAt(i, t, q)' => i \in Positions /\ IsAt(i, t, q)
    BY <1>2, <1>3, EventAdded
  <2>2. \A v \in Workers : Holds(v, L, q)' <=> Holds(v, L, q)
    BY <1>2 DEF Holds
  <2> QED BY <2>1, <2>2 DEF Once, Somewhere
<1>14. Once("PREPARE_DECODE_SLOT", Adding, r)'
  <2>1. ~InQueue("PREPARE_DECODE_SLOT", r)
    BY <1>1, <1>2 DEF AfterNew, InQueue, IsAt
  <2>2. \A v \in Workers : ~Holds(v, Adding, r)'
    BY <1>1, <1>2 DEF AfterNew, Holds, Adding
  <2>3. \A i, j \in Positions' : IsAt(i, "PREPARE_DECODE_SLOT", r)' /\
           IsAt(j, "PREPARE_DECODE_SLOT", r)' => i = j
    BY <1>2, <1>3, <2>1, EventAdded
  <2> QED BY <2>2, <2>3 DEF Once
<1>15. PreparesOnce'
  BY <1>1, <1>2, <1>5, <1>13, <1>14 DEF PreparesOnce
<1>16. DecidesOnce'
  <2>1. \A q \in Requests : Notifying(q)' <=> Notifying(q)
    BY <1>2 DEF Notifying
  <2> QED BY <1>1, <1>2, <1>13, <2>1 DEF DecidesOnce
<1> QED BY <1>6, <1>7, <1>8, <1>9, <1>10, <1>11, <1>12, <1>15, <1>16 DEF IInv

\* A step of the orchestrator or of a writer: phases go on from "prepared", writes land,
\* and every good completion of the step is of a write that landed.
LEMMA OutsideStep ==
  ASSUME IInv, UNCHANGED <<big_endian, slot_of, event_queue, trackerVars, pollVars, workerVars,
                           resultVars>>,
         phase' \in [Requests -> {"new", "prepared", "assigned", "aborted"}],
         landed' \in [Requests -> 0 .. AllWrites],
         broken' \subseteq Requests, errors' \in 0 .. MaxErrors,
         \A r \in Requests :
           /\ phase'[r] = phase[r] \/ (phase[r] = "prepared" /\ phase'[r] \in {"assigned", "aborted"})
           /\ landed'[r] >= landed[r],
         cq' \in Seq(Completions),
         \/ UNCHANGED cq
         \/ \E c \in Completions : cq' = Append(cq, c) /\ WrittenBySlot(c)'
  PROVE  IInv'
<1>1. /\ TypeOK /\ TrackerMapsAgree /\ LayerComesFromItsWrite /\ DecodeAfterKeys /\ OwnSlots
      /\ CompletionsWritten /\ PollView /\ AfterNew /\ PreparesOnce /\ DecidesOnce
  BY DEF IInv
<1>2. UNCHANGED <<big_endian, slot_of, event_queue, batch, poll_pc, poll_req, tracked,
                  seq_to_request, state, received, pc, req, crashed, seen, completed>>
  BY DEF pollVars, trackerVars, workerVars, resultVars
<1>3. TypeOK'
  BY <1>1, <1>2 DEF TypeOK, Completions, Events
<1>4. TrackerMapsAgree' /\ DecodeAfterKeys' /\ OwnSlots'
  <2>1. TrackerMapsAgree' /\ DecodeAfterKeys'
    BY <1>1, <1>2 DEF TrackerMapsAgree, DecodeAfterKeys
  <2>2. \A r \in Requests :
          /\ phase'[r] # "new" => phase[r] # "new"
          /\ phase[r] # "new" => phase'[r] # "new"
          /\ phase'[r] \in {"prepared", "assigned"} => phase[r] \in {"prepared", "assigned"}
    OBVIOUS
  <2>3. tracked \subseteq Requests
    BY <1>1 DEF TypeOK
  <2>4. OwnSlots'
    BY <1>1, <1>2, <2>2, <2>3 DEF OwnSlots
  <2> QED BY <2>1, <2>4
<1>5. LayerComesFromItsWrite'
  <2> SUFFICES ASSUME NEW r \in Requests, phase'[r] # "aborted", NEW l \in received[r]
               PROVE  landed'[r] > 2 * l
    BY <1>2 DEF LayerComesFromItsWrite, OwnLayersOnly
  <2>1. landed[r] > 2 * l /\ l \in Int
    <3>1. l \in Layers
      BY <1>1 DEF TypeOK
    <3>2. phase[r] # "aborted"
      OBVIOUS
    <3>3. landed[r] > 2 * l
      BY <1>1, <3>2 DEF LayerComesFromItsWrite, OwnLayersOnly
    <3> QED BY <3>1, <3>3 DEF Layers
  <2>2. landed[r] \in Int /\ landed'[r] \in Int
    BY <1>1, SomeLayer DEF TypeOK
  <2> QED BY <2>1, <2>2
<1>6. CompletionsWritten'
  <2>1. ASSUME NEW c \in Completions, WrittenBySlot(c)
        PROVE  WrittenBySlot(c)'
    <3>1. CASE ~c.ok
      BY <3>1 DEF WrittenBySlot
    <3>2. CASE c.ok
      <4>1. PICK r \in Requests : phase[r] = "assigned" /\ slot_of[r] = c.slot
                                  /\ landed[r] > 2 * c.layer
        BY <2>1, <3>2 DEF WrittenBySlot
      <4>2. landed[r] \in Int /\ landed'[r] \in Int /\ c.layer \in Int
        BY <1>1, SomeLayer DEF TypeOK, Completions, Layers
      <4>3. phase'[r] = "assigned" /\ slot_of'[r] = c.slot /\ landed'[r] > 2 * c.layer
        BY <1>2, <4>1, <4>2
      <4> QED BY <4>3 DEF WrittenBySlot
    <3> QED BY <3>1, <3>2
  <2>2. /\ cq \in Seq(Completions) /\ batch \in Seq(Completions)
        /\ \A i \in 1 .. Len(cq) : cq[i] \in Completions /\ WrittenBySlot(cq[i])
        /\ \A i \in 1 .. Len(batch) : /\ batch[i] \in Completions
                                      /\ batch[i].ok /\ WrittenBySlot(batch[i])
    <3>1. cq \in Seq(Completions) /\ batch \in Seq(Completions)
      BY <1>1 DEF TypeOK
    <3>2. /\ \A i \in 1 .. Len(cq) : cq[i] \in Completions
          /\ \A i \in 1 .. Len(batch) : batch[i] \in Completions
      BY <3>1
    <3>3. /\ \A i \in 1 .. Len(cq) : WrittenBySlot(cq[i])
          /\ \A i \in 1 .. Len(batch) : batch[i].ok /\ WrittenBySlot(batch[i])
      BY <1>1 DEF CompletionsWritten
    <3> QED BY <3>1, <3>2, <3>3
  <2>3. \A i \in 1 .. Len(batch) : batch[i].ok /\ WrittenBySlot(batch[i])'
    <3> SUFFICES ASSUME NEW i \in 1 .. Len(batch) PROVE batch[i].ok /\ WrittenBySlot(batch[i])'
      OBVIOUS
    <3>1. PICK c \in Completions : c = batch[i] /\ WrittenBySlot(c) /\ c.ok
      BY <2>2
    <3>2. c = batch'[i] /\ WrittenBySlot(c)'
      BY <1>2, <2>1, <3>1
    <3> QED BY <3>1, <3>2 DEF WrittenBySlot
  <2>4. \A i \in 1 .. Len(cq') : WrittenBySlot(cq[i])'
    <3> SUFFICES ASSUME NEW i \in 1 .. Len(cq') PROVE WrittenBySlot(cq[i])'
      OBVIOUS
    <3>1. CASE i \in 1 .. Len(cq) /\ cq'[i] = cq[i]
      <4>1. PICK c \in Completions : c = cq[i] /\ WrittenBySlot(c)
        BY <2>2, <3>1
      <4>2. c = cq'[i] /\ WrittenBySlot(c)'
        BY <2>1, <3>1, <4>1
      <4> QED BY <4>2 DEF WrittenBySlot
    <3>2. CASE \E c \in Completions : cq'[i] = c /\ WrittenBySlot(c)'
      BY <3>2 DEF WrittenBySlot
    <3>3. \/ i \in 1 .. Len(cq) /\ cq'[i] = cq[i]
          \/ \E c \in Completions : cq'[i] = c /\ WrittenBySlot(c)'
      <4>1. CASE UNCHANGED cq
        BY <4>1
      <4>2. CASE \E c \in Completions : cq' = Append(cq, c) /\ WrittenBySlot(c)'
        <5>1. PICK c \in Completions : cq' = Append(cq, c) /\ WrittenBySlot(c)'
          BY <4>2
        <5>2. (i \in 1 .. Len(cq) /\ cq'[i] = cq[i]) \/ cq'[i] = c
          BY <2>2, <5>1
        <5> QED BY <5>1, <5>2
      <4> QED BY <4>1, <4>2
    <3> QED BY <3>1, <3>2, <3>3
  <2> QED BY <1>2, <2>3, <2>4 DEF CompletionsWritten
<1>7. PollView'
  BY <1>1, <1>2 DEF PollView, Decoded
<1>8. AfterNew'
  <2>1. \A r \in Requests : (phase'[r] = "new") <=> (phase[r] = "new")
    OBVIOUS
  <2>2. Positions' = Positions /\ \A i \in Positions : event_queue[i].req \in Requests
    <3>1. event_queue \in Seq(Events)
      BY <1>1 DEF TypeOK
    <3>2. \A i \in Positions : event_queue[i] \in Events
      BY <3>1 DEF Positions
    <3> QED BY <1>2, <3>2 DEF Positions, Events
  <2>3. \A i \in Positions : phase'[event_queue[i].req] # "new"
    <3> SUFFICES ASSUME NEW i \in Positions PROVE phase'[event_queue[i].req] # "new"
      OBVIOUS
    <3>1. PICK q \in Requests : q = event_queue[i].req /\ phase[q] # "new"
      BY <1>1, <2>2 DEF AfterNew
    <3> QED BY <2>1, <3>1
  <2>4. \A w \in Workers : pc[w] # "idle" => req[w] \in Requests /\ phase'[req[w]] # "new"
    BY <1>1, <2>1 DEF AfterNew
  <2> QED BY <1>1, <1>2, <2>1, <2>2, <2>3, <2>4 DEF AfterNew
<1>9. PreparesOnce' /\ DecidesOnce'
  <2>1. /\ \A v \in Workers, r \in Requests :
             /\ Holds(v, Adding, r)' => Holds(v, Adding, r)
             /\ Holds(v, Decoding, r)' => Holds(v, Decoding, r)
        /\ \A r \in Requests : Notifying(r)' => Notifying(r)
    BY <1>2 DEF Holds, Notifying
  <2> QED BY <1>2, <2>1, EventsKept
<1> QED BY <1>3, <1>4, <1>5, <1>6, <1>7, <1>8, <1>9 DEF IInv

\* The orchestrator goes on with the request or gives it up.
LEMMA AfterPrepareStep ==
  ASSUME IInv, NEW r \in Requests, NEW p \in {"assigned", "aborted"}, AfterPrepare(r, p)
  PROVE  IInv'
<1>1. TypeOK
  BY DEF IInv
<1>2. /\ phase[r] = "prepared" /\ phase' = [phase EXCEPT ![r] = p]
      /\ UNCHANGED <<big_endian, slot_of, landed, broken, errors, cq, event_queue,
                     trackerVars, pollVars, workerVars, resultVars>>
  BY DEF AfterPrepare
<1>3. /\ phase' \in [Requests -> {"new", "prepared", "assigned", "aborted"}]
      /\ \A q \in Requests : phase'[q] = phase[q] \/
           (phase[q] = "prepared" /\ phase'[q] \in {"assigned", "aborted"})
  BY <1>1, <1>2 DEF TypeOK
<1>4. /\ landed' \in [Requests -> 0 .. AllWrites] /\ broken' \subseteq Requests
      /\ errors' \in 0 .. MaxErrors /\ cq' \in Seq(Completions)
      /\ \A q \in Requests : landed'[q] >= landed[q]
  BY <1>1, <1>2, SomeLayer DEF TypeOK
<1> QED BY <1>2, <1>3, <1>4, OutsideStep

\* The immediate value of a write fits its fields.
LEMMA CompletionFits ==
  ASSUME TypeOK, OwnSlots, NEW r \in Requests, phase[r] = "assigned", landed[r] < AllWrites,
         NEW ok \in BOOLEAN
  PROVE  Completion(ok, r) \in Completions
<1>1. slot_of[r] \in Slots
  BY DEF OwnSlots
<1>2. landed[r] \in Nat /\ landed[r] < 2 * NumLayers /\ NumLayers \in Nat
  BY SomeLayer DEF TypeOK, AllWrites
<1>3. landed[r] \div 2 \in 0 .. NumLayers - 1
  BY <1>2
<1> QED BY <1>1, <1>3 DEF Completion, Completions, Layers

\* A write lands before its completion.
LEMMA WriteStep ==
  ASSUME IInv, NEW r \in Requests, Write(r)
  PROVE  IInv'
<1>1. TypeOK /\ OwnSlots
  BY DEF IInv
<1>2. /\ phase[r] = "assigned" /\ landed[r] < AllWrites
      /\ landed' = [landed EXCEPT ![r] = @ + 1]
      /\ cq' = Append(cq, Completion(TRUE, r))
      /\ UNCHANGED <<big_endian, phase, slot_of, broken, errors, event_queue,
                     trackerVars, pollVars, workerVars, resultVars>>
  BY DEF Write
<1>3. /\ landed' \in [Requests -> 0 .. AllWrites]
      /\ landed'[r] = landed[r] + 1 /\ landed[r] \in Nat
      /\ \A q \in Requests : landed'[q] >= landed[q]
  <2>1. landed \in [Requests -> 0 .. AllWrites] /\ AllWrites \in Nat
    BY <1>1, SomeLayer DEF TypeOK
  <2>2. landed[r] + 1 \in 0 .. AllWrites
    BY <1>2, <2>1
  <2> QED BY <1>2, <2>1, <2>2
<1>4. PICK c \in Completions : c = Completion(TRUE, r)
  BY <1>1, <1>2, CompletionFits
<1>5. WrittenBySlot(c)'
  <2>1. c.slot = slot_of[r] /\ c.layer = landed[r] \div 2
    BY <1>4 DEF Completion
  <2>2. landed'[r] > 2 * c.layer
    BY <1>3, <2>1
  <2> QED BY <1>2, <2>1, <2>2 DEF WrittenBySlot
<1>6. /\ phase' \in [Requests -> {"new", "prepared", "assigned", "aborted"}]
      /\ broken' \subseteq Requests /\ errors' \in 0 .. MaxErrors
  BY <1>1, <1>2 DEF TypeOK
<1>7. cq \in Seq(Completions) /\ cq' = Append(cq, c)
  BY <1>1, <1>2, <1>4 DEF TypeOK
<1>8. cq' \in Seq(Completions)
  BY <1>7
<1> QED BY <1>2, <1>3, <1>5, <1>6, <1>7, <1>8, OutsideStep

\* A failed completion names nobody.
LEMMA WriteFailsStep ==
  ASSUME IInv, NEW r \in Requests, WriteFails(r)
  PROVE  IInv'
<1>1. TypeOK /\ OwnSlots
  BY DEF IInv
<1>2. /\ phase[r] = "assigned" /\ landed[r] < AllWrites
      /\ errors < MaxErrors /\ errors' = errors + 1
      /\ broken' = broken \cup {r}
      /\ cq' = Append(cq, Completion(FALSE, r))
      /\ UNCHANGED <<big_endian, phase, slot_of, landed, event_queue,
                     trackerVars, pollVars, workerVars, resultVars>>
  BY DEF WriteFails
<1>3. PICK c \in Completions : c = Completion(FALSE, r)
  BY <1>1, <1>2, CompletionFits
<1>4. WrittenBySlot(c)'
  BY <1>3 DEF Completion, WrittenBySlot
<1>5. /\ phase' \in [Requests -> {"new", "prepared", "assigned", "aborted"}]
      /\ landed' \in [Requests -> 0 .. AllWrites]
      /\ broken' \subseteq Requests
      /\ \A q \in Requests : landed'[q] >= landed[q]
  BY <1>1, <1>2, SomeLayer DEF TypeOK
<1>6. errors' \in 0 .. MaxErrors
  BY <1>1, <1>2, DecodeAssumption DEF TypeOK
<1>7. cq \in Seq(Completions) /\ cq' = Append(cq, c)
  BY <1>1, <1>2, <1>3 DEF TypeOK
<1>8. cq' \in Seq(Completions)
  BY <1>7
<1> QED BY <1>2, <1>4, <1>5, <1>6, <1>7, <1>8, OutsideStep

-----------------------------------------------------------------------------
(* Theorems *)

LEMMA InitIInv == Init => IInv
<1> SUFFICES ASSUME Init PROVE IInv
  OBVIOUS
<1>1. TypeOK
  <2>1. /\ landed \in [Requests -> 0 .. AllWrites] /\ errors \in 0 .. MaxErrors
        /\ received \in [Requests -> SUBSET Layers] /\ slot_of \in [Requests -> Slots \cup {NoSlot}]
    BY SomeLayer, DecodeAssumption DEF Init
  <2>2. /\ cq \in Seq(Completions) /\ batch \in Seq(Completions) /\ event_queue \in Seq(Events)
        /\ seen \in [Requests -> Seq(0 .. AllWrites)]
    BY DEF Init
  <2> QED BY <2>1, <2>2 DEF Init, TypeOK, States, PCs
<1>2. TrackerMapsAgree
  BY DecodeAssumption DEF Init, TrackerMapsAgree
<1>3. LayerComesFromItsWrite /\ DecodeAfterKeys
  BY DEF Init, LayerComesFromItsWrite, OwnLayersOnly, DecodeAfterKeys
<1>4. OwnSlots /\ CompletionsWritten /\ PollView
  BY DEF Init, OwnSlots, CompletionsWritten, PollView
<1>5. AfterNew
  BY DEF Init, AfterNew, Positions
<1>6. \A t, r : ~InQueue(t, r)
  BY DEF Init, InQueue, Positions
<1>7. \A w \in Workers : \A r : ~Holds(w, Adding, r) /\ ~Holds(w, Decoding, r)
  BY DEF Init, Holds, Adding, Decoding
<1>8. Positions = {}
  BY DEF Init, Positions
<1>9. PreparesOnce
  BY <1>6, <1>7, <1>8 DEF Init, PreparesOnce, Once, Somewhere
<1>10. DecidesOnce
  BY <1>6, <1>7, <1>8 DEF Init, DecidesOnce, Once, Somewhere, Notifying
<1> QED BY <1>1, <1>2, <1>3, <1>4, <1>5, <1>9, <1>10 DEF IInv

LEMMA NextIInv == IInv /\ [Next]_vars => IInv'
<1> SUFFICES ASSUME IInv, [Next]_vars PROVE IInv'
  OBVIOUS
<1>1. CASE UNCHANGED vars
  <2>1. UNCHANGED <<envVars, errors, cq, event_queue, trackerVars, pollVars, workerVars,
                    crashed, seen, completed>>
    BY <1>1 DEF vars, resultVars
  <2> QED BY <2>1, CrashStep DEF IInv, TypeOK
<1>2. CASE \E r \in Requests, s \in Slots : SendPrepare(r, s)
  BY <1>2, SendPrepareStep
<1>3. CASE \E r \in Requests, p \in {"assigned", "aborted"} : AfterPrepare(r, p)
  BY <1>3, AfterPrepareStep
<1>4. CASE \E r \in Requests : Write(r) \/ WriteFails(r)
  BY <1>4, WriteStep, WriteFailsStep
<1>5. CASE PollThread
  BY <1>5, PollStep, ResolveStep, MarkStep, NotifyStep DEF PollThread
<1>6. CASE \E w \in Workers : WorkerThread(w)
  <2>1. PICK w \in Workers : WorkerThread(w)
    BY <1>6
  <2>2. CASE ProcessEvent(w)
    BY <2>2, ProcessEventStep
  <2>3. CASE AddRequest(w)
    BY <2>3, AddRequestStep
  <2>4. CASE PostDecode(w) /\ ~crashed
    BY <2>4, PostDecodeStep
  <2>5. CASE RemoveRequest(w)
    BY <2>5, RemoveRequestStep
  <2>6. CASE \/ SetWaiting(w) \/ GetRequest(w) \/ SetDecoding(w) \/ SetFailed(w)
             \/ SetCompleted(w) \/ SendDecodeComplete(w)
    BY <2>6, StateStep
  <2> QED BY <2>1, <2>2, <2>3, <2>4, <2>5, <2>6 DEF WorkerThread, Handle
<1> QED BY <1>1, <1>2, <1>3, <1>4, <1>5, <1>6 DEF Next

\* The inductive invariant holds in every state the node and its peers can reach.
THEOREM Invariance == Spec => []IInv
BY InitIInv, NextIInv, PTL DEF Spec

\* Every location of the decode node, and of what it is sent, holds a value of its type:
\* RequestTrackerLayer's maps, the queues, the program counters of the threads.
THEOREM DecodeTyping == Spec => []TypeOK
<1>1. IInv => TypeOK
  BY DEF IInv
<1> QED BY <1>1, Invariance, PTL

\* RequestTrackerLayer::requests_ and seq_to_request_ name each other after any
\* interleaving of add_request, remove_request and the poll thread.
THEOREM MapsAgree == Spec => []TrackerMapsAgree
<1>1. IInv => TrackerMapsAgree
  BY DEF IInv
<1> QED BY <1>1, Invariance, PTL

\* In either byte order of the host, mark_layer_received counts a layer of a request that
\* was not aborted only when a write of that very layer of that request has landed.
THEOREM LayersFromTheirWrites == Spec => []LayerComesFromItsWrite
<1>1. IInv => LayerComesFromItsWrite
  BY DEF IInv
<1> QED BY <1>1, Invariance, PTL

\* handle_kv_transfer_complete calls the decoder at most once for a request, though every
\* layer completes twice and any number of workers share the queue.
THEOREM DecodedOnce == Spec => []DecodeOnce
<1>1. IInv => DecodeOnce
  <2> SUFFICES ASSUME IInv, NEW r \in Requests PROVE Len(seen[r]) <= 1
    BY DEF DecodeOnce
  <2>1. CASE seen[r] = <<>>
    <3>1. Len(seen[r]) = 0
      BY <2>1
    <3> QED BY <3>1
  <2>2. CASE seen[r] # <<>>
    <3>1. Len(seen[r]) = 1
      BY <2>2 DEF IInv, DecidesOnce
    <3> QED BY <3>1
  <2> QED BY <2>1, <2>2
<1> QED BY <1>1, Invariance, PTL

\* At the decode call every write but the last has landed: all keys, and the values of
\* every layer but one.
THEOREM DecodedAfterKeys == Spec => []DecodeAfterKeys
<1>1. IInv => DecodeAfterKeys
  BY DEF IInv
<1> QED BY <1>1, Invariance, PTL

-----------------------------------------------------------------------------
(* A transfer that was expected in time goes on *)

\* A good completion of layer l of r that the poll thread will count: in the
\* completion queue, or in the batch, where it has looked up nobody or r for the first.
Names(c, r, l) == c.ok /\ c.slot = slot_of[r] /\ c.layer = l
StillCounts(i, r) == i = 1 => poll_pc = "resolve" \/ (poll_pc = "mark" /\ poll_req = r)
Underway(r, l) ==
  \/ \E i \in 1 .. Len(cq) : Names(cq[i], r, l)
  \/ \E i \in 1 .. Len(batch) : Names(batch[i], r, l) /\ StillCounts(i, r)

\* The order to decode r: with the poll thread, in the queue or with a worker.
Deciding(r) == Notifying(r) \/ Somewhere("KV_TRANSFER_COMPLETE", Decoding, r)

\* A request whose transfer will start the decode, given time: of every write that
\* landed the layer was counted or is about to be, and once all are, the order to
\* decode is on its way.
Waiting(r) ==
  /\ phase[r] = "assigned" /\ r \in tracked /\ seen[r] = <<>>
  /\ \A l \in Layers : landed[r] > 2 * l => l \in received[r] \/ Underway(r, l)
  /\ received[r] = Layers => Deciding(r)

\* On a host of network byte order nothing but a failure keeps a transfer that was
\* expected in time from its decode: no write, poll, event or request beside it makes
\* the node forget a layer or the order to decode.
TransferGoesOn ==
  [][\A r \in Requests : big_endian /\ Waiting(r) /\ Healthy' =>
       Waiting(r)' \/ seen'[r] # <<>>]_vars

\* What it takes besides IInv: a request is removed after its decode call, only a
\* failure puts a bad completion into the queue, and a new batch replaces none.
Answering == {"set_completed", "set_failed", "reply", "remove"}
AnswersDecoded == \A w \in Workers : pc[w] \in Answering => seen[req[w]] # <<>>
ErrorsCounted == \A i \in 1 .. Len(cq) : ~cq[i].ok => errors > 0
PollsEmptyHanded == poll_pc = "poll" => batch = <<>>
TInv == AnswersDecoded /\ ErrorsCounted /\ PollsEmptyHanded

\* What a sequence holds after Append, Tail and SubSeq.
LEMMA AppendHolds ==
  ASSUME NEW S, NEW s \in Seq(S), NEW e \in S, NEW t, t = Append(s, e)
  PROVE  /\ t \in Seq(S) /\ t # <<>>
         /\ \A i \in 1 .. Len(s) : i \in 1 .. Len(t) /\ t[i] = s[i]
         /\ \A i \in 1 .. Len(t) : t[i] = e \/ (i \in 1 .. Len(s) /\ t[i] = s[i])
         /\ \E i \in 1 .. Len(t) : t[i] = e
<1>1. Len(s) \in Nat /\ Len(t) = Len(s) + 1 /\ t \in Seq(S) /\ t # <<>>
  OBVIOUS
<1>2. \A i \in 1 .. Len(s) : t[i] = s[i]
  OBVIOUS
<1>3. t[Len(s) + 1] = e
  OBVIOUS
<1> QED BY <1>1, <1>2, <1>3

LEMMA TailHolds ==
  ASSUME NEW S, NEW s \in Seq(S), s # <<>>
  PROVE  /\ Tail(s) \in Seq(S) /\ Head(s) = s[1] /\ 1 \in 1 .. Len(s)
         /\ \A i \in 1 .. Len(s) : i # 1 => \E j \in 1 .. Len(Tail(s)) : Tail(s)[j] = s[i]
         /\ Tail(s) = <<>> => \A i \in 1 .. Len(s) : i = 1
<1>1. PICK t : t = Tail(s)
  OBVIOUS
<1>2. Len(s) \in Nat \ {0} /\ Len(t) = Len(s) - 1 /\ t \in Seq(S) /\ Head(s) = s[1]
  BY <1>1
<1>3. \A j \in 1 .. Len(t) : t[j] = s[j + 1]
  BY <1>1
<1>4. ASSUME NEW i \in 1 .. Len(s), i # 1
      PROVE  i - 1 \in 1 .. Len(t) /\ t[i - 1] = s[i]
  <2>1. i - 1 \in 1 .. Len(t) /\ (i - 1) + 1 = i
    BY <1>2, <1>4
  <2> QED BY <1>3, <2>1
<1>5. ASSUME t = <<>>
      PROVE  Len(s) = 1
  <2>1. Len(<<>>) = 0
    OBVIOUS
  <2>2. Len(t) = 0
    BY <1>5, <2>1
  <2> QED BY <1>2, <2>2
<1> QED BY <1>1, <1>2, <1>4, <1>5

LEMMA CutHolds ==
  ASSUME NEW S, NEW s \in Seq(S), NEW n \in 1 .. Len(s)
  PROVE  /\ Len(SubSeq(s, 1, n)) = n
         /\ \A i \in 1 .. n : i \in 1 .. Len(s) /\ SubSeq(s, 1, n)[i] = s[i]
         /\ \A i \in 1 .. Len(SubSeq(s, n + 1, Len(s))) :
              n + i \in 1 .. Len(s) /\ SubSeq(s, n + 1, Len(s))[i] = s[n + i]
         /\ \A i \in 1 .. Len(s) :
              \/ i \in 1 .. n
              \/ \E j \in 1 .. Len(SubSeq(s, n + 1, Len(s))) :
                   SubSeq(s, n + 1, Len(s))[j] = s[i]
<1>1. PICK a : a = SubSeq(s, 1, n)
  OBVIOUS
<1>2. PICK b : b = SubSeq(s, n + 1, Len(s))
  OBVIOUS
<1>3. Len(s) \in Nat /\ Len(a) = n /\ Len(b) = Len(s) - n /\ n \in Nat
  BY <1>1, <1>2
<1>4. /\ \A i \in 1 .. n : i \in 1 .. Len(s) /\ a[i] = s[i]
      /\ \A i \in 1 .. Len(b) : n + i \in 1 .. Len(s) /\ b[i] = s[n + i]
  BY <1>1, <1>2, <1>3
<1>5. ASSUME NEW i \in 1 .. Len(s), i \notin 1 .. n
      PROVE  i - n \in 1 .. Len(b) /\ b[i - n] = s[i]
  <2>1. i - n \in 1 .. Len(b) /\ n + (i - n) = i
    BY <1>3, <1>5
  <2> QED BY <1>4, <2>1
<1> QED BY <1>1, <1>2, <1>3, <1>4, <1>5

LEMMA InitTInv == Init => TInv
BY DEF Init, TInv, AnswersDecoded, ErrorsCounted, PollsEmptyHanded, Answering

\* A worker answers only after the call, and no call is taken back.
LEMMA AnswersStep ==
  ASSUME IInv, AnswersDecoded, [Next]_vars
  PROVE  AnswersDecoded'
<1>1. /\ pc \in [Workers -> PCs] /\ req \in [Workers -> Requests \cup {NoReq}]
      /\ seen \in [Requests -> Seq(0 .. AllWrites)] /\ AfterNew
  BY DEF IInv, TypeOK
<1>2. CASE UNCHANGED <<pc, req, seen>>
  BY <1>2 DEF AnswersDecoded
<1>3. ASSUME NEW w \in Workers, WorkerThread(w)
      PROVE  AnswersDecoded'
  <2>1. PICK r : r = req[w]
    OBVIOUS
  <2>2. \A v \in Workers : v # w => pc'[v] = pc[v] /\ req'[v] = req[v]
    BY <1>1, <1>3 DEF WorkerThread, Handle, ProcessEvent, AddRequest, SetWaiting, GetRequest,
       SetDecoding, PostDecode, SetFailed, SetCompleted, SendDecodeComplete, RemoveRequest,
       Goto, Finish, workerVars
  <2>3. CASE PostDecode(w)
    <3>1. r \in Requests
      BY <1>1, <2>1, <2>3 DEF PostDecode, AfterNew
    <3>2. /\ seen' = [seen EXCEPT ![r] = Append(@, landed[r])] /\ req' = req
      BY <2>1, <2>3 DEF PostDecode, Goto, workerVars
    <3>3. /\ seen'[r] # <<>> /\ \A q \in Requests : q # r => seen'[q] = seen[q]
      <4>1. seen[r] \in Seq(0 .. AllWrites)
        BY <1>1, <3>1
      <4>2. Append(seen[r], landed[r]) # <<>>
        <5>1. landed[r] \in 0 .. AllWrites
          BY <3>1 DEF IInv, TypeOK
        <5>2. PICK t : t = Append(seen[r], landed[r])
          OBVIOUS
        <5>3. t # <<>>
          BY <4>1, <5>1, <5>2, AppendHolds
        <5> QED BY <5>2, <5>3
      <4> QED BY <1>1, <3>1, <3>2, <4>2
    <3>4. \A v \in Workers : pc'[v] \in Answering => v = w \/ (pc[v] \in Answering /\ req[v] \in Requests)
      BY <1>1, <2>2 DEF AfterNew, Answering
    <3> QED BY <2>1, <3>2, <3>3, <3>4 DEF AnswersDecoded
  <2>4. CASE ~PostDecode(w)
    <3>1. seen' = seen
      BY <1>3, <2>4 DEF WorkerThread, Handle, ProcessEvent, AddRequest, SetWaiting, GetRequest,
         SetDecoding, SetFailed, SetCompleted, SendDecodeComplete, RemoveRequest, resultVars
    <3>2. pc'[w] \in Answering => pc[w] \in Answering /\ req'[w] = req[w]
      BY <1>1, <1>3, <2>4 DEF WorkerThread, Handle, ProcessEvent, AddRequest, SetWaiting,
         GetRequest, SetDecoding, SetFailed, SetCompleted, SendDecodeComplete, RemoveRequest,
         Goto, Finish, workerVars, Answering
    <3> QED BY <2>2, <3>1, <3>2 DEF AnswersDecoded
  <2> QED BY <2>3, <2>4
<1>4. CASE PollThread
  BY <1>2, <1>4 DEF PollThread, Poll, Resolve, MarkLayerReceived, Notify, workerVars, resultVars
<1>5. CASE \/ \E r \in Requests, s \in Slots : SendPrepare(r, s)
           \/ \E r \in Requests, p \in {"assigned", "aborted"} : AfterPrepare(r, p)
           \/ \E r \in Requests : Write(r) \/ WriteFails(r)
  BY <1>2, <1>5 DEF SendPrepare, AfterPrepare, Write, WriteFails, workerVars, resultVars
<1> QED BY <1>2, <1>3, <1>4, <1>5 DEF Next, vars, workerVars, resultVars

\* A completion with an error status is a failure; polls only take completions away.
LEMMA ErrorsStep ==
  ASSUME IInv, ErrorsCounted, [Next]_vars
  PROVE  ErrorsCounted' /\ errors' >= errors /\ errors \in Nat
<1>1. cq \in Seq(Completions) /\ errors \in 0 .. MaxErrors /\ TypeOK /\ OwnSlots
  BY DEF IInv, TypeOK
<1>2. errors \in Nat
  BY <1>1, DecodeAssumption
<1>3. ASSUME NEW r \in Requests, Write(r)
      PROVE  ErrorsCounted' /\ errors' = errors
  <2>1. PICK c \in Completions : c = Completion(TRUE, r)
    BY <1>1, <1>3, CompletionFits DEF Write
  <2>2. cq' = Append(cq, c) /\ c.ok /\ errors' = errors
    BY <1>3, <2>1 DEF Write, Completion
  <2>3. \A i \in 1 .. Len(cq') : cq'[i] = c \/ (i \in 1 .. Len(cq) /\ cq'[i] = cq[i])
    BY <1>1, <2>2, AppendHolds
  <2> QED BY <2>2, <2>3 DEF ErrorsCounted
<1>4. ASSUME NEW r \in Requests, WriteFails(r)
      PROVE  ErrorsCounted' /\ errors' = errors + 1
  <2>1. errors' = errors + 1
    BY <1>4 DEF WriteFails
  <2>2. errors' > 0
    BY <1>2, <2>1
  <2> QED BY <2>1, <2>2 DEF ErrorsCounted
<1>5. ASSUME Poll
      PROVE  ErrorsCounted' /\ errors' = errors
  <2>1. PICK n \in 1 .. Len(cq) :
          n = (IF Len(cq) < MaxBatch THEN Len(cq) ELSE MaxBatch)
    BY <1>1, <1>5, DecodeAssumption DEF Poll
  <2>2. cq' = SubSeq(cq, n + 1, Len(cq)) /\ errors' = errors
    BY <1>5, <2>1 DEF Poll
  <2>3. \A i \in 1 .. Len(cq') : n + i \in 1 .. Len(cq) /\ cq'[i] = cq[n + i]
    <3>1. PICK q : q = cq
      OBVIOUS
    <3>2. q \in Seq(Completions) /\ n \in 1 .. Len(q)
      BY <1>1, <2>1, <3>1
    <3>3. \A i \in 1 .. Len(SubSeq(q, n + 1, Len(q))) :
             /\ n + i \in 1 .. Len(q)
             /\ SubSeq(q, n + 1, Len(q))[i] = q[n + i]
      BY <3>2, CutHolds
    <3> QED BY <2>2, <3>1, <3>3
  <2> QED BY <2>2, <2>3 DEF ErrorsCounted
<1>6. ASSUME NEW w \in Workers, WorkerThread(w)
      PROVE  cq' = cq /\ errors' \in {errors, errors + 1}
  BY <1>6 DEF WorkerThread, Handle, ProcessEvent, AddRequest, SetWaiting, GetRequest,
     SetDecoding, PostDecode, SetFailed, SetCompleted, SendDecodeComplete, RemoveRequest
<1>7. ASSUME cq' = cq, errors' \in {errors, errors + 1}
       PROVE  ErrorsCounted' /\ errors' >= errors
  BY <1>2, <1>7 DEF ErrorsCounted
<1>8. CASE \E r \in Requests : Write(r) \/ WriteFails(r)
  BY <1>2, <1>3, <1>4, <1>8
<1>9. CASE PollThread
  <2>1. CASE Poll
    BY <1>2, <1>5, <2>1
  <2>2. CASE Resolve \/ MarkLayerReceived \/ Notify
    <3>1. cq' = cq /\ errors' \in {errors, errors + 1}
      BY <2>2 DEF Resolve, MarkLayerReceived, Notify
    <3> QED BY <1>2, <1>7, <3>1
  <2> QED BY <1>9, <2>1, <2>2 DEF PollThread
<1>10. CASE \E w \in Workers : WorkerThread(w)
  BY <1>2, <1>6, <1>7, <1>10
<1>11. CASE \/ \E r \in Requests, s \in Slots : SendPrepare(r, s)
            \/ \E r \in Requests, p \in {"assigned", "aborted"} : AfterPrepare(r, p)
            \/ UNCHANGED vars
  <2>1. cq' = cq /\ errors' = errors
    BY <1>11 DEF SendPrepare, AfterPrepare, vars
  <2> QED BY <1>2, <1>7, <2>1
<1> QED BY <1>8, <1>9, <1>10, <1>11 DEF Next

\* The poll thread polls when it is through with its batch.
LEMMA PollsStep ==
  ASSUME PollsEmptyHanded, [Next]_vars
  PROVE  PollsEmptyHanded'
<1>1. CASE UNCHANGED pollVars
  BY <1>1 DEF PollsEmptyHanded, pollVars
<1>2. CASE NextCompletion
  BY <1>2 DEF PollsEmptyHanded, NextCompletion
<1>3. CASE Poll
  <2>1. UNCHANGED <<batch, poll_pc>> \/ poll_pc' = "resolve"
    BY <1>3 DEF Poll
  <2> QED BY <2>1 DEF PollsEmptyHanded
<1>4. CASE Resolve
  <2>1. NextCompletion \/ poll_pc' = "mark"
    BY <1>4 DEF Resolve
  <2> QED BY <1>2, <2>1 DEF PollsEmptyHanded
<1>5. CASE MarkLayerReceived
  <2>1. NextCompletion \/ poll_pc' = "notify"
    BY <1>5 DEF MarkLayerReceived
  <2> QED BY <1>2, <2>1 DEF PollsEmptyHanded
<1>6. CASE Notify
  BY <1>2, <1>6 DEF Notify
<1>7. CASE \E w \in Workers : WorkerThread(w)
  BY <1>1, <1>7 DEF WorkerThread, Handle, ProcessEvent, AddRequest, SetWaiting, GetRequest,
     SetDecoding, PostDecode, SetFailed, SetCompleted, SendDecodeComplete, RemoveRequest
<1>8. CASE \/ \E r \in Requests, s \in Slots : SendPrepare(r, s)
           \/ \E r \in Requests, p \in {"assigned", "aborted"} : AfterPrepare(r, p)
           \/ \E r \in Requests : Write(r) \/ WriteFails(r)
           \/ UNCHANGED vars
  BY <1>1, <1>8 DEF SendPrepare, AfterPrepare, Write, WriteFails, vars
<1> QED BY <1>3, <1>4, <1>5, <1>6, <1>7, <1>8 DEF Next, PollThread

\* The request is where it was, and what was to be counted or decided still is.
LEMMA StillWaiting ==
  ASSUME NEW r \in Requests, Waiting(r),
         phase'[r] = phase[r], landed'[r] = landed[r], seen'[r] = seen[r],
         received'[r] = received[r], r \in tracked',
         \A l \in Layers : l \notin received[r] /\ Underway(r, l) => Underway(r, l)',
         Deciding(r) => Deciding(r)'
  PROVE  Waiting(r)'
BY DEF Waiting

\* A step that moves no completion.
LEMMA UnderwayKept ==
  ASSUME NEW r \in Requests, slot_of'[r] = slot_of[r],
         UNCHANGED <<cq, batch, poll_pc, poll_req>>, NEW l, Underway(r, l)
  PROVE  Underway(r, l)'
BY DEF Underway, Names, StillCounts

\* A step that moves no event.
LEMMA DecidingKept ==
  ASSUME NEW r \in Requests, UNCHANGED <<event_queue, poll_pc, poll_req>>, Deciding(r),
         \A v \in Workers : Holds(v, Decoding, r) => Holds(v, Decoding, r)'
  PROVE  Deciding(r)'
<1>1. InQueue("KV_TRANSFER_COMPLETE", r) => InQueue("KV_TRANSFER_COMPLETE", r)'
  BY DEF InQueue, IsAt, Positions
<1>2. Notifying(r) => Notifying(r)'
  BY DEF Notifying
<1> QED BY <1>1, <1>2 DEF Deciding, Somewhere

\* A push moves no event.
LEMMA DecidingKeptByPush ==
  ASSUME event_queue \in Seq(Events), NEW e \in Events,
         event_queue' = Append(event_queue, e), UNCHANGED pc, UNCHANGED req,
         NEW r \in Requests, Somewhere("KV_TRANSFER_COMPLETE", Decoding, r)
  PROVE  Somewhere("KV_TRANSFER_COMPLETE", Decoding, r)'
<1>1. \A i \in Positions : i \in Positions' /\ event_queue'[i] = event_queue[i]
  BY QueueGrows
<1>2. InQueue("KV_TRANSFER_COMPLETE", r) => InQueue("KV_TRANSFER_COMPLETE", r)'
  BY <1>1 DEF InQueue, IsAt
<1>3. \A v \in Workers : Holds(v, Decoding, r) => Holds(v, Decoding, r)'
  BY DEF Holds
<1> QED BY <1>2, <1>3 DEF Somewhere

\* What the orchestrator and the writers do to a waiting request.
LEMMA WaitingOutside ==
  ASSUME IInv, NEW r \in Requests, Waiting(r), Healthy', errors \in Nat,
         \/ \E q \in Requests, s \in Slots : SendPrepare(q, s)
         \/ \E q \in Requests, p \in {"assigned", "aborted"} : AfterPrepare(q, p)
         \/ \E q \in Requests : Write(q) \/ WriteFails(q)
  PROVE  Waiting(r)'
<1>1. /\ TypeOK /\ OwnSlots /\ event_queue \in Seq(Events) /\ cq \in Seq(Completions)
      /\ landed \in [Requests -> 0 .. AllWrites]
  BY DEF IInv, TypeOK
<1>2. ASSUME NEW q \in Requests, NEW s \in Slots, SendPrepare(q, s)
      PROVE  Waiting(r)'
  <2>1. /\ UNCHANGED <<landed, seen, received, tracked, cq, batch, poll_pc, poll_req, pc, req>>
        /\ phase'[r] = phase[r] /\ slot_of'[r] = slot_of[r]
    BY <1>1, <1>2 DEF SendPrepare, pollVars, trackerVars, workerVars, resultVars, Waiting, TypeOK
  <2>2. PICK e \in Events : event_queue' = Append(event_queue, e)
    BY <1>2 DEF SendPrepare, Event, Events
  <2>3. Deciding(r) => Deciding(r)'
    <3>1. Notifying(r) => Notifying(r)'
      BY <2>1 DEF Notifying
    <3> QED BY <1>1, <2>1, <2>2, <3>1, DecidingKeptByPush DEF Deciding
  <2>4. \A l \in Layers : Underway(r, l) => Underway(r, l)'
    BY <2>1, UnderwayKept
  <2>5. r \in tracked'
    BY <2>1 DEF Waiting
  <2> QED BY <2>1, <2>3, <2>4, <2>5, StillWaiting
<1>3. ASSUME NEW q \in Requests, NEW p \in {"assigned", "aborted"}, AfterPrepare(q, p)
      PROVE  Waiting(r)'
  <2>1. /\ UNCHANGED <<landed, seen, received, tracked, cq, batch, poll_pc, poll_req, pc, req,
                       event_queue>>
        /\ phase'[r] = phase[r] /\ slot_of'[r] = slot_of[r]
    BY <1>1, <1>3 DEF AfterPrepare, pollVars, trackerVars, workerVars, resultVars, Waiting, TypeOK
  <2>2. Deciding(r) => Deciding(r)'
    BY <2>1, DecidingKept DEF Holds
  <2>3. \A l \in Layers : Underway(r, l) => Underway(r, l)'
    BY <2>1, UnderwayKept
  <2>4. r \in tracked'
    BY <2>1 DEF Waiting
  <2> QED BY <2>1, <2>2, <2>3, <2>4, StillWaiting
<1>4. ASSUME NEW q \in Requests, Write(q)
      PROVE  Waiting(r)'
  <2>1. /\ UNCHANGED <<phase, slot_of, seen, received, tracked, batch, poll_pc, poll_req, pc,
                       req, event_queue>>
        /\ phase[q] = "assigned" /\ landed[q] < AllWrites
        /\ landed' = [landed EXCEPT ![q] = @ + 1]
    BY <1>4 DEF Write, pollVars, trackerVars, workerVars, resultVars
  <2>2. PICK c \in Completions : c = Completion(TRUE, q)
    BY <1>1, <2>1, CompletionFits
  <2>3. cq' = Append(cq, c) /\ Names(c, q, landed[q] \div 2)
    BY <1>4, <2>2 DEF Write, Completion, Names
  <2>4. /\ \A i \in 1 .. Len(cq) : i \in 1 .. Len(cq') /\ cq'[i] = cq[i]
        /\ \E i \in 1 .. Len(cq') : cq'[i] = c
    BY <1>1, <2>3, AppendHolds
  <2>5. \A l \in Layers : Underway(r, l) => Underway(r, l)'
    <3> SUFFICES ASSUME NEW l \in Layers, Underway(r, l) PROVE Underway(r, l)'
      OBVIOUS
    <3>1. UNCHANGED <<batch, poll_pc, poll_req, slot_of>>
      BY <2>1
    <3>2. CASE \E i \in 1 .. Len(cq) : Names(cq[i], r, l)
      <4>1. PICK i \in 1 .. Len(cq') : Names(cq'[i], r, l)
        BY <2>4, <3>2
      <4> QED BY <3>1, <4>1 DEF Underway, Names
    <3>3. CASE \E i \in 1 .. Len(batch) : Names(batch[i], r, l) /\ StillCounts(i, r)
      BY <3>1, <3>3 DEF Underway, Names, StillCounts
    <3> QED BY <3>2, <3>3 DEF Underway
  <2>6. Deciding(r) => Deciding(r)'
    BY <2>1, DecidingKept DEF Holds
  <2>7. CASE q # r
    <3>1. landed'[r] = landed[r] /\ r \in tracked'
      BY <1>1, <2>1, <2>7 DEF Waiting
    <3> QED BY <2>1, <2>5, <2>6, <3>1, StillWaiting
  <2>8. CASE q = r
    <3>1. landed[r] \in Nat /\ landed'[r] = landed[r] + 1
      BY <1>1, <2>1, <2>8, SomeLayer
    <3>2. ASSUME NEW l \in Layers, landed'[r] > 2 * l
          PROVE  l \in received'[r] \/ Underway(r, l)'
      <4>1. CASE landed[r] > 2 * l
        BY <2>1, <2>5, <4>1 DEF Waiting
      <4>2. CASE ~(landed[r] > 2 * l)
        <5>1. l \in Nat
          BY DEF Layers
        <5>2. l = landed[r] \div 2
          BY <3>1, <3>2, <4>2, <5>1
        <5> QED BY <2>1, <2>3, <2>4, <2>8, <5>2 DEF Underway, Names
      <4> QED BY <4>1, <4>2
    <3> QED BY <2>1, <2>6, <3>2 DEF Waiting
  <2> QED BY <2>7, <2>8
<1>5. ASSUME NEW q \in Requests, WriteFails(q)
      PROVE  FALSE
  BY <1>5 DEF WriteFails, Healthy
<1> QED BY <1>2, <1>3, <1>4, <1>5

\* On to the next completion: only the first may no longer count.
LEMMA BatchAdvances ==
  ASSUME batch \in Seq(Completions), batch # <<>>, NextCompletion, cq' = cq,
         NEW r \in Requests, slot_of'[r] = slot_of[r], NEW l, Underway(r, l)
  PROVE  Underway(r, l)' \/ (Names(Head(batch), r, l) /\ StillCounts(1, r))
<1>1. PICK s, t : s = batch /\ t = Tail(batch)
  OBVIOUS
<1>2. /\ s \in Seq(Completions) /\ s # <<>> /\ t = Tail(s)
      /\ batch' = t /\ poll_pc' = IF t = <<>> THEN "poll" ELSE "resolve"
  BY <1>1 DEF NextCompletion
<1>3. /\ Head(s) = s[1] /\ \A i \in 1 .. Len(s) : i # 1 => \E j \in 1 .. Len(t) : t[j] = s[i]
      /\ t = <<>> => \A i \in 1 .. Len(s) : i = 1
  <2>1. /\ Head(s) = s[1]
        /\ \A i \in 1 .. Len(s) : i # 1 => \E j \in 1 .. Len(Tail(s)) : Tail(s)[j] = s[i]
        /\ Tail(s) = <<>> => \A i \in 1 .. Len(s) : i = 1
    BY <1>2, TailHolds
  <2> QED BY <1>2, <2>1
<1>4. CASE \E i \in 1 .. Len(cq) : Names(cq[i], r, l)
  BY <1>4 DEF Underway, Names
<1>5. ASSUME NEW i \in 1 .. Len(s), Names(s[i], r, l), i # 1
      PROVE  Underway(r, l)'
  <2>1. PICK j \in 1 .. Len(t) : t[j] = s[i]
    BY <1>3, <1>5
  <2>2. poll_pc' = "resolve"
    BY <1>2, <1>3, <1>5
  <2> QED BY <1>2, <1>5, <2>1, <2>2 DEF Underway, Names, StillCounts
<1>6. ASSUME NEW i \in 1 .. Len(s), Names(s[i], r, l), StillCounts(i, r), i = 1
      PROVE  Names(Head(batch), r, l) /\ StillCounts(1, r)
  BY <1>1, <1>3, <1>6
<1> QED BY <1>1, <1>4, <1>5, <1>6 DEF Underway

\* The orders to decode that are not with the poll thread.
LEMMA PollMovesNoEvent ==
  ASSUME UNCHANGED <<event_queue, pc, req>>, NEW r \in Requests
  PROVE  Somewhere("KV_TRANSFER_COMPLETE", Decoding, r) =>
           Somewhere("KV_TRANSFER_COMPLETE", Decoding, r)'
BY DEF Somewhere, InQueue, IsAt, Positions, Holds

\* poll_recv_cq moves completions from the queue to the batch.
LEMMA WaitingPoll ==
  ASSUME IInv, TInv, Poll, NEW r \in Requests, Waiting(r), errors = 0
  PROVE  Waiting(r)'
<1>1. cq \in Seq(Completions)
  BY DEF IInv, TypeOK
<1>2. PICK n \in 1 .. Len(cq) :
        n = (IF Len(cq) < MaxBatch THEN Len(cq) ELSE MaxBatch)
  BY <1>1, DecodeAssumption DEF Poll
<1>3. PICK q : q = cq
  OBVIOUS
<1>4. PICK a : a = SubSeq(q, 1, n)
  OBVIOUS
<1>5. PICK b : b = SubSeq(q, n + 1, Len(q))
  OBVIOUS
<1>6. q \in Seq(Completions) /\ n \in 1 .. Len(q)
  BY <1>1, <1>2, <1>3
<1>7. /\ Len(a) = n
      /\ \A i \in 1 .. n : i \in 1 .. Len(q) /\ a[i] = q[i]
      /\ \A i \in 1 .. Len(q) : i \in 1 .. n \/ \E j \in 1 .. Len(b) : b[j] = q[i]
  <2>1. /\ Len(SubSeq(q, 1, n)) = n
        /\ \A i \in 1 .. n : i \in 1 .. Len(q) /\ SubSeq(q, 1, n)[i] = q[i]
        /\ \A i \in 1 .. Len(q) :
             \/ i \in 1 .. n
             \/ \E j \in 1 .. Len(SubSeq(q, n + 1, Len(q))) : SubSeq(q, n + 1, Len(q))[j] = q[i]
    BY <1>6, CutHolds
  <2> QED BY <1>4, <1>5, <2>1
<1>8. /\ poll_pc = "poll" /\ cq' = b
      /\ (\A i \in 1 .. n : a[i].ok) => batch' = a /\ poll_pc' = "resolve"
      /\ UNCHANGED <<phase, slot_of, landed, event_queue, tracked, received, pc, req, seen,
                     poll_req>>
  BY <1>2, <1>3, <1>4, <1>5 DEF Poll, envVars, trackerVars, workerVars, resultVars
<1>9. \A i \in 1 .. n : a[i].ok
  BY <1>3, <1>7 DEF TInv, ErrorsCounted
<1>10. batch = <<>> /\ Len(batch) = 0
  <2>1. batch = <<>>
    BY <1>8 DEF TInv, PollsEmptyHanded
  <2>2. Len(<<>>) = 0
    OBVIOUS
  <2> QED BY <2>1, <2>2
<1>11. ASSUME NEW l \in Layers, Underway(r, l)
       PROVE  Underway(r, l)'
  <2>1. PICK i \in 1 .. Len(q) : Names(q[i], r, l)
    BY <1>3, <1>10, <1>11 DEF Underway
  <2>2. CASE i \in 1 .. n
    <3>1. i \in 1 .. Len(batch') /\ batch'[i] = q[i] /\ poll_pc' = "resolve"
      BY <1>7, <1>8, <1>9, <2>2
    <3> QED BY <1>8, <2>1, <3>1 DEF Underway, Names, StillCounts
  <2>3. CASE i \notin 1 .. n
    <3>1. PICK j \in 1 .. Len(b) : b[j] = q[i]
      BY <1>7, <2>3
    <3> QED BY <1>8, <2>1, <3>1 DEF Underway, Names
  <2> QED BY <2>2, <2>3
<1>12. Deciding(r) => Deciding(r)'
  BY <1>8, PollMovesNoEvent DEF Deciding, Notifying
<1>13. r \in tracked'
  BY <1>8 DEF Waiting
<1> QED BY <1>8, <1>11, <1>12, <1>13, StillWaiting

\* A completion for a waiting request resolves to it.
LEMMA WaitingResolve ==
  ASSUME IInv, Resolve, NEW r \in Requests, Waiting(r), big_endian
  PROVE  Waiting(r)'
<1>1. /\ batch \in Seq(Completions) /\ batch # <<>> /\ poll_pc = "resolve"
  BY DEF IInv, TypeOK, PollView, Resolve
<1>2. PICK c : c = Head(batch)
  OBVIOUS
<1>3. Decoded(c).seq = c.slot
  BY DEF Decoded
<1>4. /\ \/ KnownSeq(c.slot) /\ poll_req' = seq_to_request[c.slot] /\ poll_pc' = "mark"
            /\ UNCHANGED batch
         \/ ~KnownSeq(c.slot) /\ NextCompletion
      /\ UNCHANGED <<phase, slot_of, landed, event_queue, tracked, received, pc, req, seen, cq>>
  BY <1>2, <1>3 DEF Resolve, envVars, trackerVars, workerVars, resultVars
<1>5. r \in tracked /\ slot_of[r] \in Slots /\ r # NoReq
  BY DecodeAssumption DEF Waiting, IInv, OwnSlots
<1>6. seq_to_request[slot_of[r]] = r /\ KnownSeq(slot_of[r])
  BY <1>5 DEF IInv, TrackerMapsAgree, KnownSeq
<1>7. ASSUME NEW l \in Layers, Underway(r, l)
      PROVE  Underway(r, l)'
  <2>1. CASE ~KnownSeq(c.slot)
    <3>1. ~Names(c, r, l)
      BY <1>6, <2>1 DEF Names
    <3> QED BY <1>1, <1>2, <1>4, <1>7, <2>1, <3>1, BatchAdvances
  <2>2. CASE KnownSeq(c.slot)
    <3>1. /\ poll_req' = seq_to_request[c.slot] /\ poll_pc' = "mark" /\ batch' = batch
          /\ cq' = cq /\ slot_of' = slot_of
      BY <1>4, <2>2
    <3>2. c = batch[1]
      BY <1>1, <1>2
    <3>3. CASE \E i \in 1 .. Len(cq) : Names(cq[i], r, l)
      BY <3>1, <3>3 DEF Underway, Names
    <3>4. ASSUME NEW i \in 1 .. Len(batch), Names(batch[i], r, l)
          PROVE  Underway(r, l)'
      <4>1. StillCounts(i, r)'
        BY <1>6, <3>1, <3>2, <3>4 DEF StillCounts, Names
      <4> QED BY <3>1, <3>4, <4>1 DEF Underway, Names
    <3> QED BY <1>7, <3>3, <3>4 DEF Underway
  <2> QED BY <2>1, <2>2
<1>8. Deciding(r) => Deciding(r)'
  BY <1>1, <1>4, PollMovesNoEvent DEF Deciding, Notifying
<1>9. r \in tracked'
  BY <1>4, <1>5
<1> QED BY <1>4, <1>7, <1>8, <1>9, StillWaiting

\* mark_layer_received counts the layer for the request that was looked up.
LEMMA WaitingMark ==
  ASSUME IInv, MarkLayerReceived, NEW r \in Requests, Waiting(r), big_endian
  PROVE  Waiting(r)'
<1>1. /\ batch \in Seq(Completions) /\ batch # <<>> /\ poll_pc = "mark"
      /\ poll_req \in Requests
  BY DEF IInv, TypeOK, PollView, MarkLayerReceived
<1>2. PICK c : c = Head(batch)
  OBVIOUS
<1>3. PICK p \in Requests : p = poll_req
  BY <1>1
<1>4. Decoded(c).layer = c.layer
  BY DEF Decoded
<1>5. /\ \/ ~NewLayer(p, c.layer) /\ NextCompletion /\ UNCHANGED received
         \/ /\ NewLayer(p, c.layer)
            /\ received' = [received EXCEPT ![p] = @ \cup {c.layer}]
            /\ \/ /\ received'[p] = Layers
                  /\ poll_pc' = "notify" /\ UNCHANGED <<batch, poll_req>>
               \/ received'[p] # Layers /\ NextCompletion
      /\ UNCHANGED <<phase, slot_of, landed, event_queue, tracked, pc, req, seen, cq>>
  BY <1>2, <1>3, <1>4 DEF MarkLayerReceived, envVars, workerVars, resultVars
<1>6. r \in tracked /\ received \in [Requests -> SUBSET Layers]
  BY DEF Waiting, IInv, TypeOK
<1>7. ASSUME NEW l \in Layers, Underway(r, l)
      PROVE  Underway(r, l)' \/ (p = r /\ c.layer = l)
  <2>1. CASE NextCompletion
    <3>1. Underway(r, l)' \/ (Names(c, r, l) /\ StillCounts(1, r))
      BY <1>1, <1>2, <1>5, <1>7, <2>1, BatchAdvances
    <3> QED BY <1>1, <1>3, <3>1 DEF Names, StillCounts
  <2>2. CASE UNCHANGED <<batch, poll_req>>
    <3>1. c = batch[1] /\ batch' = batch /\ cq' = cq /\ slot_of' = slot_of
      BY <1>1, <1>2, <1>5, <2>2
    <3>2. CASE \E i \in 1 .. Len(cq) : Names(cq[i], r, l)
      BY <3>1, <3>2 DEF Underway, Names
    <3>3. ASSUME NEW i \in 1 .. Len(batch), Names(batch[i], r, l), i # 1
          PROVE  Underway(r, l)'
      BY <3>1, <3>3 DEF Underway, Names, StillCounts
    <3>4. ASSUME Names(batch[1], r, l), StillCounts(1, r)
          PROVE  p = r /\ c.layer = l
      BY <1>1, <1>3, <3>1, <3>4 DEF Names, StillCounts
    <3> QED BY <1>7, <3>2, <3>3, <3>4 DEF Underway
  <2> QED BY <1>5, <2>1, <2>2
<1>8. ~Notifying(r) /\ (Deciding(r) => Deciding(r)')
  <2>1. ~Notifying(r)
    BY <1>1 DEF Notifying
  <2> QED BY <1>5, <2>1, PollMovesNoEvent DEF Deciding
<1>9. CASE received'[r] = received[r]
  <2>1. ASSUME NEW l \in Layers, l \notin received[r], Underway(r, l)
        PROVE  Underway(r, l)'
    <3>1. SUFFICES ASSUME p = r, c.layer = l PROVE FALSE
      BY <1>7, <2>1
    <3>2. NewLayer(p, c.layer)
      BY <1>6, <2>1, <3>1 DEF NewLayer
    <3>3. received' = [received EXCEPT ![p] = @ \cup {c.layer}]
      BY <1>5, <3>2
    <3>4. l \in received'[r]
      BY <1>6, <3>1, <3>3
    <3> QED BY <1>9, <2>1, <3>4
  <2> QED BY <1>5, <1>6, <1>8, <1>9, <2>1, StillWaiting
<1>10. CASE received'[r] # received[r]
  <2>1. /\ p = r /\ NewLayer(p, c.layer)
        /\ received'[r] = received[r] \cup {c.layer}
        /\ received'[r] = Layers => poll_pc' = "notify" /\ poll_req' = poll_req
    BY <1>5, <1>6, <1>10
  <2>2. received'[r] = Layers => Deciding(r)'
    BY <1>3, <2>1 DEF Deciding, Notifying
  <2>3. \A l \in Layers : landed[r] > 2 * l => l \in received'[r] \/ Underway(r, l)'
    BY <1>7, <2>1 DEF Waiting
  <2> QED BY <1>5, <2>2, <2>3 DEF Waiting
<1> QED BY <1>9, <1>10

\* KV_TRANSFER_COMPLETE takes over from the poll thread.
LEMMA WaitingNotify ==
  ASSUME IInv, Notify, NEW r \in Requests, Waiting(r), errors' = 0, errors \in Nat
  PROVE  Waiting(r)'
<1>1. /\ batch \in Seq(Completions) /\ batch # <<>> /\ poll_pc = "notify"
      /\ event_queue \in Seq(Events)
  BY DEF IInv, TypeOK, PollView, Notify
<1>2. PICK p \in Requests : p = poll_req
  BY DEF IInv, PollView, Notify
<1>3. PICK e : e = Event("KV_TRANSFER_COMPLETE", p)
  OBVIOUS
<1>4. e \in Events /\ e.type = "KV_TRANSFER_COMPLETE" /\ e.req = p
  BY <1>3 DEF Event, Events
<1>5. /\ event_queue' = Append(event_queue, e) /\ NextCompletion
      /\ UNCHANGED <<phase, slot_of, landed, tracked, received, pc, req, seen, cq>>
  BY <1>2, <1>3 DEF Notify, envVars, trackerVars, workerVars, resultVars
<1>6. \A l \in Layers : Underway(r, l) => Underway(r, l)'
  <2>1. ~StillCounts(1, r)
    BY <1>1 DEF StillCounts
  <2> QED BY <1>1, <1>5, <2>1, BatchAdvances
<1>7. Deciding(r) => Deciding(r)'
  <2>1. CASE Notifying(r)
    <3>1. /\ Len(event_queue) + 1 \in Positions'
          /\ event_queue'[Len(event_queue) + 1] = e
      BY <1>1, <1>4, <1>5, QueueGrows DEF Positions
    <3>2. InQueue("KV_TRANSFER_COMPLETE", r)'
      BY <1>2, <1>4, <2>1, <3>1 DEF Notifying, InQueue, IsAt
    <3> QED BY <3>2 DEF Deciding, Somewhere
  <2>2. CASE Somewhere("KV_TRANSFER_COMPLETE", Decoding, r)
    BY <1>1, <1>4, <1>5, <2>2, DecidingKeptByPush DEF Deciding
  <2> QED BY <2>1, <2>2 DEF Deciding
<1>8. r \in tracked'
  BY <1>5 DEF Waiting
<1> QED BY <1>5, <1>6, <1>7, <1>8, StillWaiting

\* A worker takes an event: the order to decode is then with the worker.
LEMMA WaitingProcess ==
  ASSUME IInv, NEW w \in Workers, ProcessEvent(w), NEW r \in Requests, Waiting(r)
  PROVE  Waiting(r)'
<1>1. /\ event_queue \in Seq(Events) /\ event_queue # <<>> /\ pc[w] = "idle"
      /\ pc \in [Workers -> PCs] /\ req \in [Workers -> Requests \cup {NoReq}]
  BY DEF IInv, TypeOK, ProcessEvent
<1>2. PICK q, e : q = event_queue /\ e = Head(event_queue)
  OBVIOUS
<1>3. /\ event_queue' = Tail(q)
      /\ pc' = [pc EXCEPT ![w] = IF e.type = "PREPARE_DECODE_SLOT" THEN "add" ELSE "get"]
      /\ req' = [req EXCEPT ![w] = e.req]
      /\ UNCHANGED <<phase, slot_of, landed, cq, tracked, received, batch, poll_pc, poll_req,
                     seen>>
  BY <1>1, <1>2 DEF ProcessEvent, envVars, trackerVars, pollVars, resultVars
<1>4. q \in Seq(Events) /\ q # <<>>
  BY <1>1, <1>2
<1>5. /\ Head(q) = q[1]
      /\ \A i \in 1 .. Len(q) : i # 1 => \E j \in 1 .. Len(Tail(q)) : Tail(q)[j] = q[i]
  BY <1>4, TailHolds
<1>6. ASSUME NEW i \in 1 .. Len(q), IsAt(i, "KV_TRANSFER_COMPLETE", r)
      PROVE  Somewhere("KV_TRANSFER_COMPLETE", Decoding, r)'
  <2>1. CASE i = 1
    <3>1. e.type = "KV_TRANSFER_COMPLETE" /\ e.req = r
      BY <1>2, <1>5, <1>6, <2>1 DEF IsAt
    <3>2. Holds(w, Decoding, r)'
      BY <1>1, <1>3, <3>1 DEF Holds, Decoding
    <3> QED BY <3>2 DEF Somewhere
  <2>2. CASE i # 1
    <3>1. PICK j \in 1 .. Len(Tail(q)) : Tail(q)[j] = q[i]
      BY <1>5, <2>2
    <3>2. InQueue("KV_TRANSFER_COMPLETE", r)'
      BY <1>2, <1>3, <1>6, <3>1 DEF InQueue, IsAt, Positions
    <3> QED BY <3>2 DEF Somewhere
  <2> QED BY <2>1, <2>2
<1>7. ASSUME NEW v \in Workers, Holds(v, Decoding, r)
      PROVE  Holds(v, Decoding, r)'
  <2>1. v # w
    BY <1>1, <1>7 DEF Holds, Decoding
  <2> QED BY <1>1, <1>3, <1>7, <2>1 DEF Holds
<1>8. Deciding(r) => Deciding(r)'
  <2>1. Notifying(r) => Notifying(r)'
    BY <1>3 DEF Notifying
  <2>2. Somewhere("KV_TRANSFER_COMPLETE", Decoding, r) =>
          Somewhere("KV_TRANSFER_COMPLETE", Decoding, r)'
    <3>1. InQueue("KV_TRANSFER_COMPLETE", r) => Somewhere("KV_TRANSFER_COMPLETE", Decoding, r)'
      BY <1>2, <1>6 DEF InQueue, Positions
    <3>2. (\E v \in Workers : Holds(v, Decoding, r)) =>
            Somewhere("KV_TRANSFER_COMPLETE", Decoding, r)'
      BY <1>7 DEF Somewhere
    <3> QED BY <3>1, <3>2 DEF Somewhere
  <2> QED BY <2>1, <2>2 DEF Deciding
<1>9. \A l \in Layers : Underway(r, l) => Underway(r, l)'
  BY <1>3, UnderwayKept
<1>10. r \in tracked'
  BY <1>3 DEF Waiting
<1> QED BY <1>3, <1>8, <1>9, <1>10, StillWaiting

\* A handler forgets no layer and no order of a waiting request; one that has the order
\* goes on to the decode call.
LEMMA WaitingHandle ==
  ASSUME IInv, TInv, NEW w \in Workers, Handle(w), NEW r \in Requests, Waiting(r), Healthy'
  PROVE  Waiting(r)' \/ seen'[r] # <<>>
<1>1. /\ pc \in [Workers -> PCs] /\ req \in [Workers -> Requests \cup {NoReq}]
      /\ received \in [Requests -> SUBSET Layers] /\ AfterNew /\ PreparesOnce
      /\ seen \in [Requests -> Seq(0 .. AllWrites)] /\ landed \in [Requests -> 0 .. AllWrites]
  BY DEF IInv, TypeOK
<1>2. r \in tracked /\ seen[r] = <<>>
  BY DEF Waiting
<1>3. UNCHANGED <<phase, slot_of, landed, cq, batch, poll_pc, poll_req, event_queue>>
  BY DEF Handle, AddRequest, SetWaiting, GetRequest, SetDecoding, PostDecode, SetFailed,
     SetCompleted, SendDecodeComplete, RemoveRequest, envVars, pollVars
<1>4. \A v \in Workers : v # w => pc'[v] = pc[v] /\ req'[v] = req[v]
  BY <1>1 DEF Handle, AddRequest, SetWaiting, GetRequest, SetDecoding, PostDecode, SetFailed,
     SetCompleted, SendDecodeComplete, RemoveRequest, Goto, Finish, workerVars
<1>5. received'[r] = received[r]
  <2>1. CASE AddRequest(w)
    <3>1. pc[w] = "add" /\ req[w] \in Requests
      BY <1>1, <2>1 DEF AddRequest, AfterNew
    <3>2. PICK q \in Requests : q = req[w]
      BY <3>1
    <3>3. Holds(w, Adding, q)
      BY <3>1, <3>2 DEF Holds, Adding
    <3>4. q # r
      BY <1>1, <1>2, <3>3 DEF PreparesOnce, Somewhere
    <3>5. received' = received \/ received' = [received EXCEPT ![q] = {}]
      BY <2>1, <3>2 DEF AddRequest, trackerVars
    <3> QED BY <1>1, <3>4, <3>5
  <2>2. CASE ~AddRequest(w)
    BY <2>2 DEF Handle, SetWaiting, GetRequest, SetDecoding, PostDecode, SetFailed,
       SetCompleted, SendDecodeComplete, RemoveRequest, UpdateState, trackerVars
  <2> QED BY <2>1, <2>2
<1>6. r \in tracked'
  <2>1. CASE RemoveRequest(w)
    <3>1. pc[w] = "remove" /\ tracked' = tracked \ {req[w]}
      BY <2>1 DEF RemoveRequest
    <3>2. seen[req[w]] # <<>>
      BY <3>1 DEF TInv, AnswersDecoded, Answering
    <3> QED BY <1>2, <3>1, <3>2
  <2>2. CASE ~RemoveRequest(w)
    <3>1. tracked \subseteq tracked'
      BY <2>2 DEF Handle, AddRequest, SetWaiting, GetRequest, SetDecoding, PostDecode,
         SetFailed, SetCompleted, SendDecodeComplete, UpdateState, trackerVars
    <3> QED BY <1>2, <3>1
  <2> QED BY <2>1, <2>2
<1>7. CASE PostDecode(w) /\ req[w] = r
  <2>1. seen' = [seen EXCEPT ![r] = Append(@, landed[r])]
    BY <1>7 DEF PostDecode
  <2>2. PICK s, n : s = seen[r] /\ n = landed[r]
    OBVIOUS
  <2>3. s \in Seq(0 .. AllWrites) /\ n \in 0 .. AllWrites
    BY <1>1, <2>2
  <2>4. PICK t : t = Append(s, n)
    OBVIOUS
  <2>5. t # <<>>
    BY <2>3, <2>4, AppendHolds
  <2> QED BY <1>1, <2>1, <2>2, <2>4, <2>5
<1>8. CASE ~(PostDecode(w) /\ req[w] = r)
  <2>1. seen'[r] = seen[r]
    <3>1. CASE PostDecode(w)
      <4>1. seen' = [seen EXCEPT ![req[w]] = Append(@, landed[req[w]])] /\ req[w] # r
        BY <1>8, <3>1 DEF PostDecode
      <4> QED BY <1>1, <4>1
    <3>2. CASE ~PostDecode(w)
      BY <3>2 DEF Handle, AddRequest, SetWaiting, GetRequest, SetDecoding, SetFailed,
         SetCompleted, SendDecodeComplete, RemoveRequest, resultVars
    <3> QED BY <3>1, <3>2
  <2>2. Holds(w, Decoding, r) => Holds(w, Decoding, r)'
    <3> SUFFICES ASSUME pc[w] \in Decoding, req[w] = r
                 PROVE  pc'[w] \in Decoding /\ req'[w] = r
      BY DEF Holds
    <3>1. GetRequest(w) \/ SetDecoding(w)
      BY <1>8 DEF Decoding, Handle, AddRequest, SetWaiting, SetFailed, SetCompleted,
         SendDecodeComplete, RemoveRequest
    <3> QED BY <1>1, <1>2, <3>1 DEF GetRequest, SetDecoding, Goto, Decoding
  <2>3. \A v \in Workers : Holds(v, Decoding, r) => Holds(v, Decoding, r)'
    BY <1>4, <2>2 DEF Holds
  <2>4. Deciding(r) => Deciding(r)'
    BY <1>3, <2>3, DecidingKept
  <2>5. \A l \in Layers : Underway(r, l) => Underway(r, l)'
    BY <1>3, UnderwayKept
  <2> QED BY <1>3, <1>5, <1>6, <2>1, <2>4, <2>5, StillWaiting
<1> QED BY <1>7, <1>8

\* No step but the decode call ends the wait.
LEMMA WaitingStep ==
  ASSUME IInv, TInv, [Next]_vars, NEW r \in Requests, big_endian, Waiting(r), Healthy'
  PROVE  Waiting(r)' \/ seen'[r] # <<>>
<1>1. errors \in Nat /\ errors' >= errors /\ errors' = 0
  BY ErrorsStep DEF TInv, Healthy
<1>2. errors = 0
  BY <1>1
<1>3. CASE \/ \E q \in Requests, s \in Slots : SendPrepare(q, s)
           \/ \E q \in Requests, p \in {"assigned", "aborted"} : AfterPrepare(q, p)
           \/ \E q \in Requests : Write(q) \/ WriteFails(q)
  BY <1>1, <1>3, WaitingOutside
<1>4. CASE PollThread
  BY <1>1, <1>2, <1>4, WaitingPoll, WaitingResolve, WaitingMark, WaitingNotify DEF PollThread
<1>5. ASSUME NEW w \in Workers, WorkerThread(w)
      PROVE  Waiting(r)' \/ seen'[r] # <<>>
  BY <1>5, WaitingProcess, WaitingHandle DEF WorkerThread
<1>6. CASE UNCHANGED vars
  <2>1. UNCHANGED <<phase, slot_of, landed, cq, batch, poll_pc, poll_req, event_queue, tracked,
                    received, seen, pc, req>>
    BY <1>6 DEF vars, envVars, trackerVars, pollVars, workerVars, resultVars
  <2>2. Deciding(r) => Deciding(r)'
    BY <2>1, DecidingKept DEF Holds
  <2>3. \A l \in Layers : Underway(r, l) => Underway(r, l)'
    BY <2>1, UnderwayKept
  <2>4. r \in tracked'
    BY <2>1 DEF Waiting
  <2> QED BY <2>1, <2>2, <2>3, <2>4, StillWaiting
<1> QED BY <1>3, <1>4, <1>5, <1>6 DEF Next

\* A transfer whose slot was prepared in time waits for its decode, and one that waits
\* has something to wait for: a write to come, a completion or an event to be taken,
\* or a worker.
WaitsForSomething ==
  \A r \in Requests :
    /\ Expected(r) => Waiting(r)
    /\ Waiting(r) => \/ landed[r] < AllWrites \/ cq # <<>> \/ batch # <<>>
                     \/ event_queue # <<>> \/ \E w \in Workers : Holds(w, Decoding, r)

LEMMA WaitsForIt ==
  ASSUME IInv PROVE WaitsForSomething
<1> SUFFICES ASSUME NEW r \in Requests
             PROVE  /\ Expected(r) => Waiting(r)
                    /\ Waiting(r) =>
                         \/ landed[r] < AllWrites \/ cq # <<>> \/ batch # <<>>
                         \/ event_queue # <<>> \/ \E w \in Workers : Holds(w, Decoding, r)
  BY DEF WaitsForSomething
<1>1. /\ LayerComesFromItsWrite /\ DecidesOnce /\ PollView
      /\ received[r] \subseteq Layers /\ landed[r] \in 0 .. AllWrites
  BY DEF IInv, TypeOK
<1>2. ASSUME Expected(r)
      PROVE  Waiting(r)
  <2>1. phase[r] = "assigned" /\ r \in tracked /\ landed[r] = 0
    BY <1>2 DEF Expected
  <2>2. \A l \in Layers : ~(landed[r] > 2 * l)
    BY <2>1 DEF Layers
  <2>3. received[r] # Layers
    BY <1>1, <2>1, <2>2, SomeLayer DEF LayerComesFromItsWrite, OwnLayersOnly
  <2>4. seen[r] = <<>>
    BY <1>1, <2>3 DEF DecidesOnce
  <2> QED BY <2>1, <2>2, <2>3, <2>4 DEF Waiting
<1>3. ASSUME Waiting(r), landed[r] = AllWrites, cq = <<>>, batch = <<>>
      PROVE  event_queue # <<>> \/ \E w \in Workers : Holds(w, Decoding, r)
  <2>1. Len(<<>>) = 0
    OBVIOUS
  <2>2. \A l : ~Underway(r, l)
    BY <1>3, <2>1 DEF Underway
  <2>3. \A l \in Layers : landed[r] > 2 * l
    BY <1>3, DecodeAssumption DEF AllWrites, Layers
  <2>4. received[r] = Layers
    BY <1>1, <1>3, <2>2, <2>3 DEF Waiting
  <2>5. ~Notifying(r)
    BY <1>1, <1>3 DEF Notifying, PollView
  <2>6. Somewhere("KV_TRANSFER_COMPLETE", Decoding, r)
    BY <1>3, <2>4, <2>5 DEF Waiting, Deciding
  <2>7. event_queue = <<>> => Positions = {}
    BY <2>1 DEF Positions
  <2> QED BY <2>6, <2>7 DEF Somewhere, InQueue
<1>4. landed[r] # AllWrites => landed[r] < AllWrites
  BY <1>1, SomeLayer
<1> QED BY <1>2, <1>3, <1>4

LEMMA TransferInvariance == Spec => []TInv
<1>1. ASSUME IInv, TInv, [Next]_vars
      PROVE  TInv'
  BY <1>1, AnswersStep, ErrorsStep, PollsStep DEF TInv
<1> QED BY <1>1, InitTInv, Invariance, PTL DEF Spec

\* poll_recv_cq, mark_layer_received, the events and the workers of other requests
\* lose nothing of a transfer under way: what TransferStartsDecode adds is fairness.
THEOREM TransfersGoOn == Spec => TransferGoesOn
<1>1. ASSUME IInv, TInv, [Next]_vars
      PROVE  [\A r \in Requests : big_endian /\ Waiting(r) /\ Healthy' =>
                Waiting(r)' \/ seen'[r] # <<>>]_vars
  BY <1>1, WaitingStep
<1> QED BY <1>1, TransferInvariance, Invariance, PTL DEF Spec, TransferGoesOn

\* A transfer expected in time begins to wait, and while it waits for its decode a writer,
\* the poll thread or a worker has something to do for it.
THEOREM TransfersWaitForSomething == Spec => []WaitsForSomething
BY WaitsForIt, Invariance, PTL
=============================================================================
