----------------------------- MODULE SlotLayout -----------------------------
(***************************************************************************)
(* Where a key-value cache lies in the staging buffer of a decode node.    *)
(* Four parties compute it, each from a configuration of its own: the      *)
(* router (a struct of defaults), the prefill node that posts the writes,  *)
(* the Python connector with the values it assumes when it is told none,   *)
(* as nobody tells it any, and the tracker of the decode node.  The        *)
(* prefill connector starts from the router's base and the decode          *)
(* connector from the tracker's; both look the base up by the token ids of *)
(* the request.                                                            *)
(*                                                                         *)
(* Requests are named by the slot they were given.  Ranges are half open,  *)
(* [from, to), in bytes.                                                   *)
(***************************************************************************)
EXTENDS Naturals, Sequences, SequencesExt

CONSTANTS MaxSlots,           \* max_slots_per_node of the router
          RouterLayers,       \* num_layers of the router
          RouterLayerSize,    \* its layer_size_mb, in bytes
          ConnectorLayers,    \* num_layers the connector assumes
          ConnectorLayerSize, \* layer_size the connector assumes
          ConnectorBuffer,    \* buffer_size_mb the connector assumes, in bytes
          ElementSize,        \* bytes of a tensor element
          NodeConfigs,        \* the memory configurations nodes may have
          Prompts,            \* the token ids of a request
          CacheSize,          \* elements in the keys of one layer, of each prompt
          LayerNames,         \* the names of layers: their number, or
          NoNumber            \* a name without one

ASSUME LayoutAssumption ==
  /\ MaxSlots \in Nat /\ RouterLayers \in Nat /\ RouterLayerSize \in Nat
  /\ ConnectorLayers \in Nat /\ ConnectorLayerSize \in Nat /\ ConnectorBuffer \in Nat
  /\ ElementSize \in Nat
  /\ NodeConfigs \subseteq [num_layers : Nat, layer_size : Nat, buffer : Nat, max_requests : Nat]
  /\ CacheSize \in [Prompts -> Nat]
  /\ LayerNames \subseteq Nat \cup {NoNumber}
  /\ 0 \notin LayerNames \/ NoNumber \notin LayerNames \* no two layers have one number

Slots == 0 .. MaxSlots - 1

Stride == RouterLayers * RouterLayerSize

\* Mutant: slots are counted from one.
RouterBaseFromOne(s) == (s + 1) * Stride

\* The router's idea of a slot.
RouterBase(s) == s * Stride

\* A node's idea of a slot and of a layer in it.
RequestSize(c) == c.num_layers * c.layer_size
TrackerBase(c, s) == s * RequestSize(c)
TrackerOffset(c, s, l) == TrackerBase(c, s) + l * c.layer_size

\* A node only starts when its slots fit into its buffer.
Valid(c) == c.buffer >= RequestSize(c) * c.max_requests

LayerId(n) == IF n = NoNumber THEN 0 ELSE n

\* The connector's offset, from the base it was given and the layer size it assumes.
ConnectorOffset(base, l) == base + l * ConnectorLayerSize

SlotEnd(base) == base + ConnectorLayers * ConnectorLayerSize

\* Mutant: one layer less is accepted.
InSlotButLast(base, l) == ConnectorOffset(base, l) + ConnectorLayerSize < SlotEnd(base)

\* Only the start is compared with the end of the slot and with that of the buffer.
InSlot(base, l) == ConnectorOffset(base, l) < SlotEnd(base)

InBuffer(base, l) == ConnectorOffset(base, l) < ConnectorBuffer

\* The engine compares the end of a write with the buffer size of its own node.
Posts(c, from, length) == from + length <= c.buffer

VARIABLES
  decode,   \* configuration of the decode node
  assigned, \* slots that were given to a request
  writer,   \* the prefill node that serves the request: its configuration
  prompt,   \* the token ids of the request
  metadata, \* the requests of the step in which vLLM stores the cache of this one, if any
  tracked,  \* slots with an entry in the tracker of the decode node
  saved,    \* <<slot, layer>>: save_kv_layer has come to the request
  written,  \* the writes that were posted
  refused,  \* <<slot, layer>>: save_kv_layer raised an error
  lost,     \* history: for lack of a slot in the metadata or of registered memory
  loaded    \* the view of the buffer that was made last

given == <<decode, assigned, writer, prompt, tracked>>
transfer == <<saved, written, refused, lost>>
vars == <<given, metadata, transfer, loaded>>

Init ==
  /\ decode \in {c \in NodeConfigs : Valid(c)}
  /\ assigned = {} /\ tracked = {}
  /\ writer = <<>> /\ prompt = <<>>
  /\ metadata = [s \in Slots |-> <<>>]
  /\ saved = {} /\ written = {} /\ refused = {} /\ lost = {} /\ loaded = {}

\* The map f with an entry for x.
Extended(f, x, v) == [y \in DOMAIN f \cup {x} |-> IF y = x THEN v ELSE f[y]]

\* Mutant: the tracker takes every slot.
AssignUnchecked(s, c, p) ==
  /\ s \notin assigned /\ Valid(c)
  /\ assigned' = assigned \cup {s}
  /\ writer' = Extended(writer, s, c) /\ prompt' = Extended(prompt, s, p)
  /\ tracked' = tracked \cup {s}
  /\ UNCHANGED <<decode, metadata, transfer, loaded>>

\* The router gives a slot to a request, a prefill node of some configuration is told to
\* fill it and the decode node to prepare it; add_request throws when it has no such slot.
Assign(s, c, p) ==
  /\ s \notin assigned /\ Valid(c)
  /\ assigned' = assigned \cup {s}
  /\ writer' = Extended(writer, s, c) /\ prompt' = Extended(prompt, s, p)
  /\ tracked' = IF s < decode.max_requests THEN tracked \cup {s} ELSE tracked
  /\ UNCHANGED <<decode, metadata, transfer, loaded>>

\* vLLM on a prefill node binds the metadata of a step, the requests whose caches it
\* stores, in the order of q.
StartStep(q) ==
  /\ q # <<>> /\ IsInjective(q)
  /\ \A i \in DOMAIN q :
       q[i] \in assigned /\ metadata[q[i]] = <<>> /\ writer[q[i]] = writer[q[1]]
  /\ metadata' = [s \in Slots |-> IF s \in ToSet(q) THEN q ELSE metadata[s]]
  /\ UNCHANGED <<given, transfer, loaded>>

\* The request whose slot the connector takes for request s is t: the first of the step
\* with the same token ids.
Found(s, t) ==
  \E i \in DOMAIN metadata[s] :
    /\ metadata[s][i] = t /\ prompt[t] = prompt[s]
    /\ \A j \in 1 .. i - 1 : prompt[metadata[s][j]] # prompt[s]

\* One of the two writes of a layer, for request s into slot t.
Part(s, t, l, part, from, length) ==
  [slot |-> s, into |-> t, layer |-> l, part |-> part, from |-> from, to |-> from + length]

Elements(s) == CacheSize[prompt[s]]
Bytes(s) == Elements(s) * ElementSize

\* Mutant: elements are taken for bytes.
VOffsetInElements(s, from) == from + Elements(s)

\* The values come right after the keys.
VOffset(s, from) == from + Bytes(s)

\* save_kv_layer goes through the requests of the step; an error ends it.
ComesTo(s, l) ==
  \E i \in DOMAIN metadata[s] :
    /\ metadata[s][i] = s
    /\ \A j \in 1 .. i - 1 : <<metadata[s][j], l>> \in saved \ refused

\* save_kv_layer for one request: keys, then values.  It raises an error, and writes no
\* more, when the metadata has no slot, when the offset is refused, when the gathered
\* tensor is not in registered memory or when the engine refuses the write.
Save(s, t, n, known, registered) ==
  LET l  == LayerId(n)
      at == ConnectorOffset(RouterBase(t), l)
      ok == known /\ InSlot(RouterBase(t), l) /\ InBuffer(RouterBase(t), l) /\ registered
      k  == ok /\ Posts(writer[s], at, Bytes(s))
      v  == k /\ Posts(writer[s], VOffset(s, at), Bytes(s))
  IN  /\ Found(s, t) /\ ComesTo(s, l) /\ <<s, l>> \notin saved
      /\ saved' = saved \cup {<<s, l>>}
      /\ written' = IF Bytes(s) = 0 THEN written
                    ELSE written
                           \cup (IF k THEN {Part(s, t, l, "k", at, Bytes(s))} ELSE {})
                           \cup (IF v THEN {Part(s, t, l, "v", VOffset(s, at), Bytes(s))} ELSE {})
      /\ refused' = IF v THEN refused ELSE refused \cup {<<s, l>>}
      /\ lost' = IF known /\ registered THEN lost ELSE lost \cup {<<s, l>>}
      /\ UNCHANGED <<given, metadata, loaded>>

\* The slice of a tensor of elements, from an index on; it is cut off at the end of the
\* buffer, and then cannot be given its shape.
Slice(index, count) == [from |-> index * ElementSize, to |-> (index + count) * ElementSize]
SliceFits(index, count) == (index + count) * ElementSize <= decode.buffer

\* start_load_kv of one layer, in a connector told to receive: the base is the tracker's,
\* of request s or of another, t, that the decode node has with the same token ids; the
\* offset is used as the index of an element.
Load(s, t, n) ==
  LET l  == LayerId(n)
      at == ConnectorOffset(TrackerBase(decode, t), l)
  IN  /\ s \in tracked /\ t \in tracked /\ prompt[t] = prompt[s]
      /\ InSlot(TrackerBase(decode, t), l) /\ InBuffer(TrackerBase(decode, t), l)
      /\ SliceFits(at, 2 * Elements(s))
      /\ loaded' = {[slot |-> s, into |-> t, layer |-> l, view |-> Slice(at, 2 * Elements(s))]}
      /\ UNCHANGED <<given, metadata, transfer>>

Next ==
  \/ \E s \in Slots, c \in NodeConfigs, p \in Prompts : Assign(s, c, p)
  \/ \E q \in SeqOf(Slots, MaxSlots) : StartStep(q)
  \/ \E s, t \in Slots, n \in LayerNames, known, registered \in BOOLEAN :
       Save(s, t, n, known, registered)
  \/ \E s, t \in Slots, n \in LayerNames : Load(s, t, n)

Spec == Init /\ [][Next]_vars

-----------------------------------------------------------------------------
(* Properties *)

ByteRange == [from : Nat, to : Nat]
Writes == [slot : Slots, into : Slots, layer : Nat, part : {"k", "v"}, from : Nat, to : Nat]

\* Every location holds a value of its type; the tracker has only slots of its node.
TypeOK ==
  /\ decode \in NodeConfigs
  /\ assigned \subseteq Slots
  /\ tracked \subseteq {s \in assigned : s < decode.max_requests}
  /\ writer \in [assigned -> NodeConfigs] /\ prompt \in [assigned -> Prompts]
  /\ metadata \in [Slots -> Seq(assigned)]
  /\ saved \subseteq Slots \X Nat
  /\ written \subseteq Writes
  /\ refused \subseteq saved /\ lost \subseteq saved
  /\ loaded \subseteq [slot : Slots, into : Slots, layer : Nat, view : ByteRange]

\* Keys and values fit into a layer of the connector, and its layers into a slot of the
\* router; nothing in the code checks either.
FitsIn(s) == /\ 2 * Bytes(s) <= ConnectorLayerSize
             /\ ConnectorLayers * ConnectorLayerSize <= Stride

Apart(a, b) == a.to <= b.from \/ b.to <= a.from

\* Requests of one step with the same token ids, which the connector cannot tell apart.
Alike(s, t) == s # t /\ metadata[s] = metadata[t] /\ prompt[s] = prompt[t]

\* Two writes of caches that fit, of whatever requests, layers and prefill nodes, share a
\* byte only when they are the same part of the same layer of two requests of one step
\* with the same token ids.  (_calculate_rdma_offset, allocate_slot_for_request)
SlotsKeptApart ==
  \A a, b \in written :
    a # b /\ FitsIn(a.slot) /\ FitsIn(b.slot) /\ ~Apart(a, b)
      => Alike(a.slot, b.slot) /\ a.layer = b.layer /\ a.part = b.part

\* The keys of a layer are written where the tracker of the decode node has the layer of
\* the request, if the decode node has the geometry of the router and of the connector and
\* no earlier request of the step has the same token ids.  (allocate_slot_for_request,
\* get_layer_offset)
WriterMeetsTracker ==
  \A w \in written :
    (/\ w.part = "k" /\ w.slot \in tracked
     /\ RequestSize(decode) = Stride /\ decode.layer_size = ConnectorLayerSize
     /\ Found(w.slot, w.slot))
      => w.from = TrackerOffset(decode, w.slot, w.layer)

\* A slot that lies within the buffer of the prefill node and within the one that the
\* connector assumes takes every layer of a cache that fits.  (The slots of the
\* defaults lie beyond it from the fifth on.)
SlotServed ==
  \A x \in refused \ lost, t \in Slots :
    LET s == x[1] IN
    Found(s, t) /\ FitsIn(s) /\ ConnectorLayerSize > 0 /\ x[2] < ConnectorLayers
      => \/ RouterBase(t) + Stride > ConnectorBuffer
         \/ RouterBase(t) + Stride > writer[s].buffer

\* rdma_connector.py:388: "RDMA data has already arrived in staging buffer. We create
\* tensor views": a view of a layer is made of the bytes that were written for it.
LoadsWhatWasSaved ==
  \A v \in loaded, w \in written :
    (/\ v.slot = w.slot /\ v.into = w.into /\ v.layer = w.layer
     /\ RequestSize(decode) = Stride)
      => v.view.from <= w.from /\ w.to <= v.view.to
=============================================================================
