-------------------------- MODULE SlotLayoutProofs --------------------------
(***************************************************************************)
(* Proofs about SlotLayout, for any geometry of the router, the connector  *)
(* and the nodes, any sizes of caches and any number of slots, layers and  *)
(* requests in a step.                                                     *)
(***************************************************************************)
EXTENDS SlotLayout, TLAPS

(***************************************************************************)
(* The inductive invariant.  A write is posted for a request whose token   *)
(* ids, step and prefill node do not change any more, so the slot that is  *)
(* found for it, and from it the range of the write, stay known; an error  *)
(* of save_kv_layer has one of three reasons.  The requests of a step all  *)
(* have the metadata of that step.                                         *)
(***************************************************************************)
LayerFrom(t, l) == ConnectorOffset(RouterBase(t), l)

Placed(w) ==
  /\ w.slot \in assigned /\ w.layer < ConnectorLayers
  /\ Found(w.slot, w.into)
  /\ w.from = LayerFrom(w.into, w.layer) + (IF w.part = "k" THEN 0 ELSE Bytes(w.slot))
  /\ w.to = w.from + Bytes(w.slot)

OutOfReach(s, t, l) ==
  \/ ~InSlot(RouterBase(t), l)
  \/ ~InBuffer(RouterBase(t), l)
  \/ LayerFrom(t, l) + Bytes(s) + Bytes(s) > writer[s].buffer

Excused(x) ==
  /\ x[1] \in assigned /\ metadata[x[1]] # <<>>
  /\ \A t \in Slots : Found(x[1], t) => OutOfReach(x[1], t, x[2])

StepsShared ==
  \A s \in Slots : \A i \in DOMAIN metadata[s] : metadata[metadata[s][i]] = metadata[s]

IInv ==
  /\ TypeOK
  /\ StepsShared
  /\ \A w \in written : Placed(w)
  /\ \A x \in refused \ lost : Excused(x)

-----------------------------------------------------------------------------
(* Arithmetic *)

\* Multiples of a size are at least one size apart.
LEMMA NextMultiple ==
  ASSUME NEW a \in Nat, NEW b \in Nat, NEW d \in Nat, a < b
  PROVE  a * d + d <= b * d
<1> DEFINE c == b - (a + 1)
<1>1. c \in Nat /\ b = a + 1 + c
  OBVIOUS
<1>2. c * d \in Nat
  BY <1>1
<1>3. (a + 1 + c) * d = a * d + d + c * d
  BY <1>1
<1> HIDE DEF c
<1> QED  BY <1>1, <1>2, <1>3

\* The smaller multiple is the multiple of the smaller number.
LEMMA SmallerMultiple ==
  ASSUME NEW a \in Nat, NEW b \in Nat, NEW d \in Nat, a * d < b * d
  PROVE  a < b
<1>1. a * d \in Nat /\ b * d \in Nat
  OBVIOUS
<1>2. CASE b = a
  BY <1>1, <1>2
<1>3. CASE b < a
  BY <1>1, <1>3, NextMultiple
<1> QED  BY <1>2, <1>3

\* A node configuration is made of natural numbers.
LEMMA ConfigTyped ==
  ASSUME NEW c \in NodeConfigs
  PROVE  /\ c.num_layers \in Nat /\ c.layer_size \in Nat
         /\ c.buffer \in Nat /\ c.max_requests \in Nat
  BY LayoutAssumption

LEMMA LayerIdTyped ==
  ASSUME NEW n \in LayerNames
  PROVE  LayerId(n) \in Nat
  BY LayoutAssumption DEF LayerId

LEMMA RouterTyped ==
  /\ Stride \in Nat
  /\ \A s \in Slots : s \in Nat /\ RouterBase(s) \in Nat
<1>1. Stride \in Nat
  BY LayoutAssumption DEF Stride
<1> QED  BY <1>1, LayoutAssumption DEF Slots, RouterBase

\* Where a layer of a slot begins.
LEMMA OffsetsTyped ==
  ASSUME NEW t \in Slots, NEW l \in Nat
  PROVE  LayerFrom(t, l) \in Nat
<1>1. l * ConnectorLayerSize \in Nat
  BY LayoutAssumption
<1> QED  BY <1>1, RouterTyped DEF LayerFrom, ConnectorOffset

\* How long a half of a layer is.
LEMMA BytesTyped ==
  ASSUME TypeOK, NEW s \in assigned
  PROVE  Elements(s) \in Nat /\ Bytes(s) \in Nat
<1>1. Elements(s) \in Nat
  BY LayoutAssumption DEF TypeOK, Elements
<1> QED  BY <1>1, LayoutAssumption DEF Bytes

-----------------------------------------------------------------------------
(* The slot that is found for a request *)

\* It is the slot of a request of the step, and vLLM stores the cache of s in a step.
LEMMA FoundAssigned ==
  ASSUME TypeOK, NEW s \in Slots, NEW t, Found(s, t)
  PROVE  t \in assigned /\ t \in Slots /\ metadata[s] # <<>>
<1>1. metadata[s] \in Seq(assigned) /\ assigned \subseteq Slots
  BY DEF TypeOK
<1>2. PICK i \in DOMAIN metadata[s] : metadata[s][i] = t
  BY DEF Found
<1> QED  BY <1>1, <1>2

\* There is only one first match.
LEMMA FoundOnce ==
  ASSUME TypeOK, NEW s \in Slots, NEW t, NEW u, Found(s, t), Found(s, u)
  PROVE  t = u
<1>1. metadata[s] \in Seq(assigned)
  BY DEF TypeOK
<1>2. PICK i \in DOMAIN metadata[s] :
         /\ metadata[s][i] = t /\ prompt[t] = prompt[s]
         /\ \A j \in 1 .. i - 1 : prompt[metadata[s][j]] # prompt[s]
  BY DEF Found
<1>3. PICK k \in DOMAIN metadata[s] :
         /\ metadata[s][k] = u /\ prompt[u] = prompt[s]
         /\ \A j \in 1 .. k - 1 : prompt[metadata[s][j]] # prompt[s]
  BY DEF Found
<1>4. i \in Nat /\ k \in Nat /\ i >= 1 /\ k >= 1
  BY <1>1
<1>5. ~(i < k) /\ ~(k < i)
  BY <1>2, <1>3, <1>4
<1> QED  BY <1>2, <1>3, <1>4, <1>5

\* It stays found as long as the step and the token ids stay.
LEMMA FoundStable ==
  ASSUME TypeOK, NEW s \in assigned, metadata'[s] = metadata[s],
         \A x \in assigned : prompt'[x] = prompt[x]
  PROVE  \A t : Found(s, t)' <=> Found(s, t)
<1>1. metadata[s] \in Seq(assigned)
  BY DEF TypeOK
<1>2. \A i \in DOMAIN metadata[s] : metadata[s][i] \in assigned
  BY <1>1
<1>3. ASSUME NEW i \in DOMAIN metadata[s], NEW j \in 1 .. i - 1
      PROVE  j \in DOMAIN metadata[s]
  BY <1>1
<1>4. \A i \in DOMAIN metadata[s] : prompt'[metadata[s][i]] = prompt[metadata[s][i]]
  BY <1>2
<1>5. \A i \in DOMAIN metadata[s] :
         \A j \in 1 .. i - 1 : prompt'[metadata[s][j]] = prompt[metadata[s][j]]
  BY <1>3, <1>4
<1> QED  BY <1>4, <1>5 DEF Found

\* Writes stay placed and errors excused as long as what they come from stays.
LEMMA TransferStable ==
  ASSUME IInv, assigned \subseteq assigned',
         \A x \in assigned : prompt'[x] = prompt[x] /\ writer'[x] = writer[x],
         \A x \in assigned : metadata[x] # <<>> => metadata'[x] = metadata[x]
  PROVE  /\ \A w \in written : Placed(w)'
         /\ \A x \in refused \ lost : Excused(x)'
<1>1. ASSUME NEW w \in written PROVE Placed(w)'
  <2>1. Placed(w) /\ w.slot \in assigned /\ w.slot \in Slots
    BY DEF IInv, TypeOK, Placed
  <2>2. metadata[w.slot] # <<>>
    BY <2>1, FoundAssigned DEF IInv, Placed
  <2>3. Found(w.slot, w.into)'
    BY <2>1, <2>2, FoundStable DEF IInv, Placed
  <2>4. prompt'[w.slot] = prompt[w.slot] /\ w.slot \in assigned'
    BY <2>1
  <2> QED  BY <2>1, <2>3, <2>4 DEF Placed, LayerFrom, Bytes, Elements
<1>2. ASSUME NEW x \in refused \ lost PROVE Excused(x)'
  <2>1. Excused(x) /\ x[1] \in assigned /\ metadata'[x[1]] = metadata[x[1]]
    BY DEF IInv, Excused
  <2>2. \A t : Found(x[1], t)' <=> Found(x[1], t)
    BY <2>1, FoundStable DEF IInv
  <2>3. /\ prompt'[x[1]] = prompt[x[1]] /\ writer'[x[1]] = writer[x[1]]
        /\ x[1] \in assigned'
    BY <2>1
  <2>4. \A t : OutOfReach(x[1], t, x[2])' <=> OutOfReach(x[1], t, x[2])
    BY <2>3 DEF OutOfReach, LayerFrom, Bytes, Elements
  <2> QED  BY <2>1, <2>2, <2>3, <2>4 DEF Excused
<1> QED  BY <1>1, <1>2

-----------------------------------------------------------------------------
(* The invariant holds in every reachable state *)

LEMMA InitIInv == Init => IInv
<1> SUFFICES ASSUME Init PROVE IInv
  OBVIOUS
<1>1. /\ writer \in [assigned -> NodeConfigs] /\ prompt \in [assigned -> Prompts]
      /\ metadata \in [Slots -> Seq(assigned)]
  BY DEF Init
<1>2. TypeOK
  BY <1>1 DEF Init, TypeOK
<1>3. StepsShared
  BY DEF Init, StepsShared
<1> QED  BY <1>2, <1>3 DEF Init, IInv

\* A slot is assigned when no step has its request and nothing has been written for it.
LEMMA AssignIInv ==
  ASSUME IInv, NEW s \in Slots, NEW c \in NodeConfigs, NEW p \in Prompts, Assign(s, c, p)
  PROVE  IInv'
<1>1. /\ s \notin assigned /\ assigned' = assigned \cup {s}
      /\ writer' = Extended(writer, s, c) /\ prompt' = Extended(prompt, s, p)
      /\ tracked' = IF s < decode.max_requests THEN tracked \cup {s} ELSE tracked
      /\ UNCHANGED <<decode, metadata, saved, written, refused, lost, loaded>>
  BY DEF Assign, transfer
<1>2. writer' \in [assigned' -> NodeConfigs] /\ prompt' \in [assigned' -> Prompts]
  BY <1>1 DEF IInv, TypeOK, Extended
<1>3. \A x \in assigned : prompt'[x] = prompt[x] /\ writer'[x] = writer[x]
  BY <1>1 DEF IInv, TypeOK, Extended
<1>4. metadata' \in [Slots -> Seq(assigned')]
  <2>1. Seq(assigned) \subseteq Seq(assigned')
    BY <1>1
  <2> QED  BY <1>1, <2>1 DEF IInv, TypeOK
<1>5. tracked' \subseteq {x \in assigned' : x < decode'.max_requests}
  BY <1>1 DEF IInv, TypeOK
<1>6. TypeOK'
  BY <1>1, <1>2, <1>4, <1>5 DEF IInv, TypeOK
<1>7. StepsShared'
  BY <1>1 DEF IInv, StepsShared
<1>8. /\ \A w \in written : Placed(w)'
      /\ \A x \in refused \ lost : Excused(x)'
  BY <1>1, <1>3, TransferStable
<1> QED  BY <1>1, <1>6, <1>7, <1>8 DEF IInv

\* Only requests that are in no step yet come into the new one.
LEMMA StartStepIInv ==
  ASSUME IInv, NEW q \in SeqOf(Slots, MaxSlots), StartStep(q)
  PROVE  IInv'
<1>1. /\ \A i \in DOMAIN q : q[i] \in assigned /\ metadata[q[i]] = <<>>
      /\ metadata' = [s \in Slots |-> IF s \in ToSet(q) THEN q ELSE metadata[s]]
      /\ UNCHANGED <<decode, assigned, writer, prompt, tracked>>
      /\ UNCHANGED <<saved, written, refused, lost, loaded>>
  BY DEF StartStep, given, transfer
<1>2. q \in Seq(assigned)
  <2>1. PICK m \in 0 .. MaxSlots : q \in [1 .. m -> Slots]
    BY DEF SeqOf
  <2>2. m \in Nat
    BY LayoutAssumption
  <2>3. q \in [1 .. m -> assigned]
    BY <1>1, <2>1
  <2> QED  BY <2>2, <2>3
<1>3. \A s \in Slots : s \in ToSet(q) => metadata[s] = <<>> /\ metadata'[s] = q
  BY <1>1 DEF ToSet
<1>4. \A s \in Slots : s \notin ToSet(q) => metadata'[s] = metadata[s]
  BY <1>1
<1>5. metadata' \in [Slots -> Seq(assigned)]
  BY <1>1, <1>2 DEF IInv, TypeOK
<1>6. TypeOK'
  BY <1>1, <1>5 DEF IInv, TypeOK
<1>7. StepsShared'
  <2> SUFFICES ASSUME NEW s \in Slots, NEW i \in DOMAIN metadata'[s]
               PROVE  metadata'[metadata'[s][i]] = metadata'[s]
    BY DEF StepsShared
  <2>1. CASE s \in ToSet(q)
    <3>1. metadata'[s] = q /\ q[i] \in ToSet(q) /\ q[i] \in Slots
      BY <1>1, <1>3, <2>1 DEF ToSet, IInv, TypeOK
    <3> QED  BY <1>3, <3>1
  <2>2. CASE s \notin ToSet(q)
    <3>1. metadata'[s] = metadata[s] /\ metadata[s] \in Seq(assigned)
      BY <1>4, <2>2 DEF IInv, TypeOK
    <3>2. metadata[s] # <<>> /\ metadata[s][i] \in Slots
      BY <3>1 DEF IInv, TypeOK
    <3>3. metadata[metadata[s][i]] = metadata[s]
      BY <3>1 DEF IInv, StepsShared
    <3> QED  BY <1>3, <1>4, <3>1, <3>2, <3>3
  <2> QED  BY <2>1, <2>2
<1>8. \A x \in assigned : metadata[x] # <<>> => metadata'[x] = metadata[x]
  BY <1>3, <1>4 DEF IInv, TypeOK
<1>9. /\ \A w \in written : Placed(w)'
      /\ \A x \in refused \ lost : Excused(x)'
  BY <1>1, <1>8, TransferStable
<1> QED  BY <1>1, <1>6, <1>7, <1>9 DEF IInv

\* A part is written where the layer is, and only of a layer the slot has.
LEMMA SaveIInv ==
  ASSUME IInv, NEW s \in Slots, NEW t \in Slots, NEW n \in LayerNames,
         NEW known \in BOOLEAN, NEW registered \in BOOLEAN, Save(s, t, n, known, registered)
  PROVE  IInv'
<1> DEFINE l  == LayerId(n)
           at == LayerFrom(t, l)
           in == InSlot(RouterBase(t), l) /\ InBuffer(RouterBase(t), l)
           ok == known /\ in /\ registered
           k  == ok /\ Posts(writer[s], at, Bytes(s))
           v  == k /\ Posts(writer[s], VOffset(s, at), Bytes(s))
           kPart == Part(s, t, l, "k", at, Bytes(s))
           vPart == Part(s, t, l, "v", VOffset(s, at), Bytes(s))
<1>1. /\ Found(s, t) /\ saved' = saved \cup {<<s, l>>}
      /\ written' \subseteq written \cup (IF k THEN {kPart} ELSE {})
                                   \cup (IF v THEN {vPart} ELSE {})
      /\ refused' = IF v THEN refused ELSE refused \cup {<<s, l>>}
      /\ lost' = IF known /\ registered THEN lost ELSE lost \cup {<<s, l>>}
  BY DEF Save, LayerFrom
<1>2. UNCHANGED <<decode, assigned, writer, prompt, tracked, metadata, loaded>>
  BY DEF Save, given
<1>3. s \in assigned /\ metadata[s] # <<>>
  <2>1. metadata[s] # <<>> /\ t \in assigned
    BY <1>1, FoundAssigned DEF IInv
  <2>2. PICK i \in DOMAIN metadata[s] : metadata[s][i] = s
    BY DEF Save, ComesTo
  <2>3. metadata[s] \in Seq(assigned)
    BY DEF IInv, TypeOK
  <2> QED  BY <2>1, <2>2, <2>3
<1>4. /\ writer[s].buffer \in Nat /\ l \in Nat /\ Bytes(s) \in Nat /\ at \in Nat
  BY <1>3, ConfigTyped, LayerIdTyped, OffsetsTyped, BytesTyped DEF IInv, TypeOK
<1>5. kPart \in Writes /\ vPart \in Writes
  BY <1>4 DEF Part, VOffset, Writes
<1>6. /\ kPart.slot = s /\ kPart.into = t /\ kPart.layer = l /\ kPart.part = "k"
      /\ kPart.from = at /\ kPart.to = at + Bytes(s)
      /\ vPart.slot = s /\ vPart.into = t /\ vPart.layer = l /\ vPart.part = "v"
      /\ vPart.from = at + Bytes(s) /\ vPart.to = at + Bytes(s) + Bytes(s)
  BY DEF Part, VOffset
<1>7. k => l < ConnectorLayers
  <2> SUFFICES ASSUME k PROVE l < ConnectorLayers
    OBVIOUS
  <2>1. RouterBase(t) + l * ConnectorLayerSize
          < RouterBase(t) + ConnectorLayers * ConnectorLayerSize
    BY DEF InSlot, ConnectorOffset, SlotEnd
  <2>2. /\ l * ConnectorLayerSize \in Nat /\ ConnectorLayers * ConnectorLayerSize \in Nat
        /\ RouterBase(t) \in Nat
    BY <1>4, LayoutAssumption, RouterTyped
  <2>3. l * ConnectorLayerSize < ConnectorLayers * ConnectorLayerSize
    BY <2>1, <2>2
  <2> QED  BY <2>3, <1>4, SmallerMultiple, LayoutAssumption
<1>8. ~v => ~(known /\ registered) \/ OutOfReach(s, t, l)
  <2> SUFFICES ASSUME ok, ~v PROVE at + Bytes(s) + Bytes(s) > writer[s].buffer
    BY DEF OutOfReach
  <2>1. \/ ~(at + Bytes(s) <= writer[s].buffer)
        \/ ~((at + Bytes(s)) + Bytes(s) <= writer[s].buffer)
    BY DEF Posts, VOffset
  <2> HIDE DEF ok, k, v, at, l
  <2> QED  BY <2>1, <1>4
<1>9. v => k
  OBVIOUS
<1>10. LayerFrom(t, l) = at
  OBVIOUS
<1> HIDE DEF in, ok, k, v, at, l, kPart, vPart
<1>11. TypeOK'
  <2>1. saved' \subseteq Slots \X Nat
    BY <1>1, <1>4 DEF IInv, TypeOK
  <2>2. written' \subseteq Writes
    BY <1>1, <1>5 DEF IInv, TypeOK
  <2>3. refused' \subseteq saved' /\ lost' \subseteq saved'
    BY <1>1 DEF IInv, TypeOK
  <2> QED  BY <1>2, <2>1, <2>2, <2>3 DEF IInv, TypeOK
<1>12. StepsShared'
  BY <1>2 DEF IInv, StepsShared
<1>13. /\ \A w \in written : Placed(w)'
       /\ \A x \in refused \ lost : Excused(x)'
  BY <1>2, TransferStable
<1>14. \A w : Placed(w)' <=> Placed(w)
  BY <1>2 DEF Placed, Found, LayerFrom, Bytes, Elements
<1>15. ASSUME NEW w \in written' PROVE Placed(w)'
  <2>1. CASE w \in written
    BY <2>1, <1>13
  <2>2. CASE k /\ w = kPart
    <3>1. w.from = at + 0 /\ w.layer < ConnectorLayers
      BY <2>2, <1>4, <1>6, <1>7
    <3>2. Placed(w)
      BY <2>2, <1>1, <1>3, <1>6, <1>10, <3>1 DEF Placed
    <3> QED  BY <1>14, <3>2
  <2>3. CASE k /\ w = vPart
    <3>1. w.layer < ConnectorLayers
      BY <2>3, <1>6, <1>7
    <3>2. Placed(w)
      BY <2>3, <1>1, <1>3, <1>6, <1>10, <3>1 DEF Placed
    <3> QED  BY <1>14, <3>2
  <2> QED  BY <1>1, <1>9, <1>15, <2>1, <2>2, <2>3
<1>16. ASSUME NEW x \in (refused \ lost)' PROVE Excused(x)'
  <2>1. CASE x \in refused \ lost
    BY <2>1, <1>13
  <2>2. CASE x \notin refused \ lost
    <3>1. ~v /\ x = <<s, l>> /\ known /\ registered
      BY <1>1, <1>16, <2>2
    <3>2. OutOfReach(s, t, l)
      BY <3>1, <1>8
    <3>3. \A u \in Slots : Found(s, u) => u = t
      BY <1>1, FoundOnce DEF IInv
    <3>4. Excused(x)
      BY <1>3, <3>1, <3>2, <3>3 DEF Excused
    <3> QED  BY <3>4, <1>2 DEF Excused, OutOfReach, Found, LayerFrom, Bytes, Elements
  <2> QED  BY <2>1, <2>2
<1> QED  BY <1>11, <1>12, <1>15, <1>16 DEF IInv

\* A view changes nothing but loaded.
LEMMA LoadIInv ==
  ASSUME IInv, NEW s \in Slots, NEW t \in Slots, NEW n \in LayerNames, Load(s, t, n)
  PROVE  IInv'
<1> DEFINE l  == LayerId(n)
           at == ConnectorOffset(TrackerBase(decode, t), l)
<1>1. /\ l \in Nat /\ decode.layer_size \in Nat /\ decode.num_layers \in Nat /\ t \in Nat
  BY ConfigTyped, LayerIdTyped, RouterTyped DEF IInv, TypeOK
<1>2. decode.num_layers * decode.layer_size \in Nat /\ l * ConnectorLayerSize \in Nat
  BY <1>1, LayoutAssumption
<1>3. t * (decode.num_layers * decode.layer_size) \in Nat
  BY <1>1, <1>2
<1>4. at \in Nat
  BY <1>2, <1>3 DEF ConnectorOffset, TrackerBase, RequestSize
<1>5. 2 * Elements(s) \in Nat
  BY BytesTyped DEF IInv, TypeOK, Load
<1> HIDE DEF at, l
<1>6. Slice(at, 2 * Elements(s)) \in ByteRange
  <2>1. at * ElementSize \in Nat
    BY <1>4, LayoutAssumption
  <2>2. at + 2 * Elements(s) \in Nat
    BY <1>4, <1>5
  <2>3. (at + 2 * Elements(s)) * ElementSize \in Nat
    BY <2>2, LayoutAssumption
  <2> QED  BY <2>1, <2>3 DEF Slice, ByteRange
<1>7. loaded' = {[slot |-> s, into |-> t, layer |-> l, view |-> Slice(at, 2 * Elements(s))]}
  BY DEF Load, at, l
<1>8. loaded' \subseteq [slot : Slots, into : Slots, layer : Nat, view : ByteRange]
  BY <1>1, <1>6, <1>7
<1>9. /\ UNCHANGED <<decode, assigned, writer, prompt, tracked, metadata>>
      /\ UNCHANGED <<saved, written, refused, lost>>
  BY DEF Load, given, transfer
<1>10. TypeOK'
  BY <1>8, <1>9 DEF IInv, TypeOK
<1>11. StepsShared'
  BY <1>9 DEF IInv, StepsShared
<1>12. /\ \A w \in written : Placed(w)'
       /\ \A x \in refused \ lost : Excused(x)'
  BY <1>9, TransferStable
<1> QED  BY <1>9, <1>10, <1>11, <1>12 DEF IInv

LEMMA NextIInv == IInv /\ [Next]_vars => IInv'
<1> SUFFICES ASSUME IInv, [Next]_vars PROVE IInv'
  OBVIOUS
<1>1. ASSUME NEW s \in Slots, NEW c \in NodeConfigs, NEW p \in Prompts, Assign(s, c, p)
      PROVE IInv'
  BY <1>1, AssignIInv
<1>2. ASSUME NEW q \in SeqOf(Slots, MaxSlots), StartStep(q)
      PROVE IInv'
  BY <1>2, StartStepIInv
<1>3. ASSUME NEW s \in Slots, NEW t \in Slots, NEW n \in LayerNames,
             NEW known \in BOOLEAN, NEW registered \in BOOLEAN,
             Save(s, t, n, known, registered)
      PROVE IInv'
  BY <1>3, SaveIInv
<1>4. ASSUME NEW s \in Slots, NEW t \in Slots, NEW n \in LayerNames, Load(s, t, n)
      PROVE IInv'
  BY <1>4, LoadIInv
<1>5. CASE UNCHANGED vars
  <2>1. /\ UNCHANGED <<decode, assigned, writer, prompt, tracked, metadata>>
        /\ UNCHANGED <<saved, written, refused, lost, loaded>>
    BY <1>5 DEF vars, given, transfer
  <2>2. TypeOK' /\ StepsShared'
    BY <2>1 DEF IInv, TypeOK, StepsShared
  <2>3. /\ \A w \in written : Placed(w)'
        /\ \A x \in refused \ lost : Excused(x)'
    BY <2>1, TransferStable
  <2> QED  BY <2>1, <2>2, <2>3 DEF IInv
<1> QED  BY <1>1, <1>2, <1>3, <1>4, <1>5 DEF Next

\* The inductive invariant holds in every reachable state: what was written lies where the
\* slot found by the token ids and the layer size of the connector put it, and what was
\* refused has a reason.  (save_kv_layer, _calculate_rdma_offset, add_request)
THEOREM Invariance == Spec => []IInv
<1> QED  BY InitIInv, NextIInv, PTL DEF Spec

\* Every reachable state is well typed, and the tracker has only slots of its node.
\* (add_request)
THEOREM Typing == Spec => []TypeOK
<1>1. IInv => TypeOK
  BY DEF IInv
<1> QED  BY <1>1, Invariance, PTL

-----------------------------------------------------------------------------
(* What the invariant gives *)

\* The keys are written where the tracker of the decode node has the layer, if the slot
\* that is found is the request's own.  (allocate_slot_for_request, get_layer_offset)
THEOREM WritersMeetTracker == Spec => []WriterMeetsTracker
<1>1. ASSUME IInv PROVE WriterMeetsTracker
  <2> SUFFICES ASSUME NEW w \in written, w.part = "k", Found(w.slot, w.slot),
                      RequestSize(decode) = Stride, decode.layer_size = ConnectorLayerSize
               PROVE  w.from = TrackerOffset(decode, w.slot, w.layer)
    BY DEF WriterMeetsTracker
  <2>1. w \in Writes /\ Placed(w)
    BY <1>1 DEF IInv, TypeOK
  <2>2. w.slot \in Slots /\ w.into = w.slot
    BY <1>1, <2>1, FoundOnce DEF IInv, Placed, Writes
  <2>3. LayerFrom(w.slot, w.layer) \in Nat
    BY <2>1, <2>2, OffsetsTyped DEF Writes
  <2>4. w.from = LayerFrom(w.slot, w.layer)
    BY <2>1, <2>2, <2>3 DEF Placed
  <2> QED  BY <2>4 DEF LayerFrom, ConnectorOffset, RouterBase, TrackerOffset, TrackerBase
<1> QED  BY <1>1, Invariance, PTL

\* What a cache that fits leaves of a slot: every layer lies inside, with both halves.
LEMMA LayerInSlot ==
  ASSUME TypeOK, NEW s \in assigned, NEW t \in Slots, NEW l \in Nat,
         FitsIn(s), l < ConnectorLayers
  PROVE  /\ RouterBase(t) <= LayerFrom(t, l)
         /\ LayerFrom(t, l) + ConnectorLayerSize <= RouterBase(t) + Stride
         /\ Bytes(s) + Bytes(s) <= ConnectorLayerSize
<1>1. /\ ConnectorLayerSize \in Nat /\ Bytes(s) \in Nat /\ Stride \in Nat
      /\ RouterBase(t) \in Nat
  BY BytesTyped, RouterTyped, LayoutAssumption
<1>2. l * ConnectorLayerSize + ConnectorLayerSize <= ConnectorLayers * ConnectorLayerSize
  BY <1>1, NextMultiple, LayoutAssumption
<1>3. /\ l * ConnectorLayerSize \in Nat /\ ConnectorLayers * ConnectorLayerSize \in Nat
      /\ ConnectorLayers * ConnectorLayerSize <= Stride
  BY <1>1, LayoutAssumption DEF FitsIn
<1>4. LayerFrom(t, l) = RouterBase(t) + l * ConnectorLayerSize
  BY DEF LayerFrom, ConnectorOffset
<1>5. Bytes(s) + Bytes(s) <= ConnectorLayerSize
  BY <1>1 DEF FitsIn
<1>6. RouterBase(t) + l * ConnectorLayerSize + ConnectorLayerSize <= RouterBase(t) + Stride
  BY <1>1, <1>2, <1>3
<1> QED  BY <1>1, <1>3, <1>4, <1>5, <1>6

\* A slot within both buffers takes every layer of a cache that fits.  (save_kv_layer,
\* _calculate_rdma_offset, post_write_external)
THEOREM SlotsServed == Spec => []SlotServed
<1>1. ASSUME IInv PROVE SlotServed
  <2> SUFFICES ASSUME NEW x \in refused \ lost, NEW t \in Slots, Found(x[1], t),
                      FitsIn(x[1]), ConnectorLayerSize > 0, x[2] < ConnectorLayers
               PROVE  \/ RouterBase(t) + Stride > ConnectorBuffer
                      \/ RouterBase(t) + Stride > writer[x[1]].buffer
    BY DEF SlotServed
  <2>1. /\ x[1] \in assigned /\ x[2] \in Nat
        /\ OutOfReach(x[1], t, x[2])
    BY <1>1 DEF IInv, TypeOK, Excused
  <2>2. PICK s \in assigned, l \in Nat : s = x[1] /\ l = x[2]
    BY <2>1
  <2>3. PICK at \in Nat, top \in Nat, base \in Nat :
          at = LayerFrom(t, l) /\ top = RouterBase(t) + Stride /\ base = RouterBase(t)
    BY OffsetsTyped, RouterTyped
  <2>4. /\ writer[s].buffer \in Nat /\ Bytes(s) \in Nat
        /\ ConnectorLayerSize \in Nat /\ ConnectorBuffer \in Nat /\ ConnectorLayers \in Nat
    BY <1>1, ConfigTyped, BytesTyped, LayoutAssumption DEF IInv, TypeOK
  <2>5. at + ConnectorLayerSize <= top /\ Bytes(s) + Bytes(s) <= ConnectorLayerSize
    BY <1>1, <2>2, <2>3, LayerInSlot DEF IInv
  <2>6. InSlot(base, l)
    <3>1. l * ConnectorLayerSize + ConnectorLayerSize <= ConnectorLayers * ConnectorLayerSize
      BY <2>2, <2>4, NextMultiple
    <3>2. l * ConnectorLayerSize \in Nat /\ ConnectorLayers * ConnectorLayerSize \in Nat
      BY <2>4
    <3>3. base + l * ConnectorLayerSize < base + ConnectorLayers * ConnectorLayerSize
      BY <2>4, <3>1, <3>2
    <3> QED  BY <3>3 DEF InSlot, ConnectorOffset, SlotEnd
  <2>7. CASE ~InBuffer(base, l)
    <3>1. ~(at < ConnectorBuffer)
      BY <2>3, <2>7 DEF InBuffer, LayerFrom
    <3>2. top > ConnectorBuffer
      BY <2>4, <2>5, <3>1
    <3> QED  BY <2>3, <3>2
  <2>8. CASE at + Bytes(s) + Bytes(s) > writer[s].buffer
    <3>1. top > writer[s].buffer
      BY <2>4, <2>5, <2>8
    <3> QED  BY <2>2, <2>3, <3>1
  <2> QED  BY <2>1, <2>2, <2>3, <2>6, <2>7, <2>8 DEF OutOfReach
<1> QED  BY <1>1, Invariance, PTL

\* A write of a cache that fits stays in its layer, and its layer in its slot.
LEMMA WriteInLayer ==
  ASSUME IInv, NEW w \in written, FitsIn(w.slot)
  PROVE  /\ w.into \in Slots /\ w.layer \in Nat /\ w.from \in Nat /\ w.to \in Nat
         /\ LayerFrom(w.into, w.layer) \in Nat
         /\ LayerFrom(w.into, w.layer) <= w.from
         /\ w.to <= LayerFrom(w.into, w.layer) + ConnectorLayerSize
         /\ RouterBase(w.into) <= w.from /\ w.to <= RouterBase(w.into) + Stride
<1>1. w \in Writes /\ Placed(w)
  BY DEF IInv, TypeOK
<1>2. PICK s \in assigned, t \in Slots, l \in Nat : w.slot = s /\ w.into = t /\ w.layer = l
  BY <1>1 DEF Writes, Placed
<1>3. w.from \in Nat /\ w.to \in Nat
  BY <1>1 DEF Writes
<1>4. /\ l < ConnectorLayers
      /\ w.from = LayerFrom(t, l) + (IF w.part = "k" THEN 0 ELSE Bytes(s))
      /\ w.to = w.from + Bytes(s)
  BY <1>1, <1>2 DEF Placed
<1>5. /\ RouterBase(t) <= LayerFrom(t, l)
      /\ LayerFrom(t, l) + ConnectorLayerSize <= RouterBase(t) + Stride
      /\ Bytes(s) + Bytes(s) <= ConnectorLayerSize
  BY <1>2, <1>4, LayerInSlot DEF IInv
<1>6. /\ LayerFrom(t, l) \in Nat /\ Bytes(s) \in Nat /\ ConnectorLayerSize \in Nat
      /\ RouterBase(t) \in Nat /\ Stride \in Nat
  BY OffsetsTyped, BytesTyped, RouterTyped, LayoutAssumption DEF IInv
<1>7. LayerFrom(t, l) <= w.from /\ w.to <= LayerFrom(t, l) + ConnectorLayerSize
  BY <1>3, <1>4, <1>5, <1>6
<1>8. RouterBase(t) <= w.from /\ w.to <= RouterBase(t) + Stride
  BY <1>3, <1>5, <1>6, <1>7
<1> QED  BY <1>2, <1>3, <1>6, <1>7, <1>8

\* A write into a lower slot, or into a lower layer of the same slot, ends before another
\* begins.
LEMMA LowerEndsBefore ==
  ASSUME IInv, NEW a \in written, NEW b \in written, FitsIn(a.slot), FitsIn(b.slot),
         a.into < b.into \/ (a.into = b.into /\ a.layer < b.layer)
  PROVE  a.to <= b.from
<1>1. /\ a.into \in Slots /\ b.into \in Slots /\ a.to \in Nat /\ b.from \in Nat
      /\ ConnectorLayerSize \in Nat
  BY WriteInLayer, LayoutAssumption
<1>2. CASE a.into < b.into
  <2>1. a.to <= RouterBase(a.into) + Stride /\ RouterBase(b.into) <= b.from
    BY WriteInLayer
  <2>2. a.into \in Nat /\ b.into \in Nat /\ Stride \in Nat
    BY <1>1, RouterTyped
  <2>3. a.into * Stride + Stride <= b.into * Stride
    BY <1>2, <2>2, NextMultiple
  <2>4. RouterBase(a.into) + Stride <= RouterBase(b.into)
    BY <2>3 DEF RouterBase
  <2>5. RouterBase(a.into) \in Nat /\ RouterBase(b.into) \in Nat
    BY <1>1, RouterTyped
  <2> QED  BY <1>1, <2>1, <2>2, <2>4, <2>5
<1>3. CASE a.into = b.into /\ a.layer < b.layer
  <2>1. PICK t \in Slots, i \in Nat, j \in Nat :
          t = a.into /\ t = b.into /\ i = a.layer /\ j = b.layer
    BY <1>1, <1>3, WriteInLayer
  <2>2. /\ RouterBase(t) \in Nat /\ LayerFrom(t, i) \in Nat /\ LayerFrom(t, j) \in Nat
        /\ a.to <= LayerFrom(t, i) + ConnectorLayerSize /\ LayerFrom(t, j) <= b.from
    BY <2>1, WriteInLayer, RouterTyped
  <2>3. i * ConnectorLayerSize + ConnectorLayerSize <= j * ConnectorLayerSize
    BY <1>1, <1>3, <2>1, NextMultiple
  <2>4. i * ConnectorLayerSize \in Nat /\ j * ConnectorLayerSize \in Nat
    BY <1>1
  <2>5. /\ LayerFrom(t, i) = RouterBase(t) + i * ConnectorLayerSize
        /\ LayerFrom(t, j) = RouterBase(t) + j * ConnectorLayerSize
    BY DEF LayerFrom, ConnectorOffset
  <2> QED  BY <1>1, <2>2, <2>3, <2>4, <2>5
<1> QED  BY <1>2, <1>3

\* Two writes into the same layer of the same slot are of one request or of two that the
\* connector cannot tell apart.
LEMMA SameLayer ==
  ASSUME IInv, NEW a \in written, NEW b \in written, a # b, ~Apart(a, b),
         a.into = b.into, a.layer = b.layer
  PROVE  Alike(a.slot, b.slot) /\ a.part = b.part
<1>1. a \in Writes /\ b \in Writes /\ Placed(a) /\ Placed(b)
  BY DEF IInv, TypeOK
<1>2. PICK s \in assigned, u \in assigned, t \in Slots, l \in Nat :
        /\ s = a.slot /\ u = b.slot /\ t = a.into /\ t = b.into /\ l = a.layer /\ l = b.layer
        /\ Found(s, t) /\ Found(u, t)
  BY <1>1 DEF Writes, Placed
<1>3. s \in Slots /\ u \in Slots
  BY <1>2 DEF IInv, TypeOK
<1>4. prompt[s] = prompt[t] /\ prompt[u] = prompt[t]
  BY <1>2 DEF Found
<1>5. metadata[s] = metadata[t] /\ metadata[u] = metadata[t]
  BY <1>2, <1>3 DEF IInv, StepsShared, Found
<1>6. PICK at \in Nat, size \in Nat : at = LayerFrom(t, l) /\ size = Bytes(s) /\ size = Bytes(u)
  <2>1. Bytes(s) = Bytes(u)
    BY <1>4 DEF Bytes, Elements
  <2> QED  BY <2>1, OffsetsTyped, BytesTyped DEF IInv
<1>7. /\ a.from = at + (IF a.part = "k" THEN 0 ELSE size) /\ a.to = a.from + size
      /\ b.from = at + (IF b.part = "k" THEN 0 ELSE size) /\ b.to = b.from + size
  BY <1>1, <1>2, <1>6 DEF Placed
<1>8. a.part \in {"k", "v"} /\ b.part \in {"k", "v"}
  BY <1>1 DEF Writes
<1>9. a.part = b.part
  BY <1>7, <1>8 DEF Apart
<1>10. s # u
  <2> SUFFICES ASSUME s = u PROVE FALSE
    OBVIOUS
  <2>1. a.from = b.from /\ a.to = b.to
    BY <1>7, <1>9
  <2>2. a.slot = b.slot /\ a.into = b.into /\ a.layer = b.layer
    BY <1>2
  <2>3. a \in Writes /\ b \in Writes
    BY <1>1
  <2>4. a = b
    BY <1>9, <2>1, <2>2, <2>3 DEF Writes
  <2> QED  BY <2>4
<1> QED  BY <1>2, <1>4, <1>5, <1>9, <1>10 DEF Alike

\* Writes of caches that fit share bytes only if their requests have the same token ids
\* and are in the same step.  (_calculate_rdma_offset, allocate_slot_for_request)
THEOREM WritesKeptApart == Spec => []SlotsKeptApart
<1>1. ASSUME IInv PROVE SlotsKeptApart
  <2> SUFFICES ASSUME NEW a \in written, NEW b \in written, a # b, ~Apart(a, b),
                      FitsIn(a.slot), FitsIn(b.slot)
               PROVE  Alike(a.slot, b.slot) /\ a.layer = b.layer /\ a.part = b.part
    BY DEF SlotsKeptApart
  <2>1. a.into \in Nat /\ b.into \in Nat /\ a.layer \in Nat /\ b.layer \in Nat
    BY <1>1, WriteInLayer, RouterTyped
  <2>2. ~(a.into < b.into \/ (a.into = b.into /\ a.layer < b.layer))
    BY <1>1, LowerEndsBefore DEF Apart
  <2>3. ~(b.into < a.into \/ (b.into = a.into /\ b.layer < a.layer))
    BY <1>1, LowerEndsBefore DEF Apart
  <2>4. a.into = b.into /\ a.layer = b.layer
    BY <2>1, <2>2, <2>3
  <2> QED  BY <1>1, <2>4, SameLayer
<1> QED  BY <1>1, Invariance, PTL
=============================================================================
