----------------------------- MODULE EpollProofs -----------------------------
(***************************************************************************)
(* Proofs about EpollIO, for any sets of connections, descriptors, workers *)
(* and kinds of messages, any number of messages of each peer and any      *)
(* capacity of the event queue.                                            *)
(***************************************************************************)
EXTENDS EpollIO, SequenceTheorems, TLAPS

(***************************************************************************)
(* The inductive invariant.  A descriptor and its connection name each     *)
(* other while the connection is open.  The events that the epoll thread   *)
(* still has to look at are of open connections, one each, and not of the  *)
(* one it is busy with: only this thread closes a descriptor, and it       *)
(* closes no other than the current one.  An event of the queue, or in the *)
(* hands of a worker, has the descriptor that its sender was given.        *)
(***************************************************************************)
FdsAgree == \A f \in Fds : Open(f) => fd_of[connections[f]] = f

\* Nothing has been exchanged with a peer before it is accepted.
FreshUntilAccepted ==
  \A c \in Conns : fd_of[c] = ListenFd =>
    received[c] = 0 /\ handed[c] = <<>> /\ queued[c] = <<>> /\ wire[c] = <<>>

BatchOpen ==
  /\ \A e \in batch : e.fd # ListenFd => Open(e.fd)
  /\ \A d, e \in batch : d.fd = e.fd => d = e
  /\ epc \in {"parse", "write", "disarm"} =>
       cur.fd # ListenFd /\ \A e \in batch : e.fd # cur.fd
  /\ epc \in {"parse", "disarm"} => Open(cur.fd)

\* What was handed to the workers had been parsed.
HandedParsed ==
  \A f \in Fds : Open(f) =>
    /\ Len(input_buffer[f]) <= received[connections[f]]
    /\ \A i \in 1 .. Len(handed[connections[f]]) : 2 * handed[connections[f]][i] <= Parsed(f)

EventsNameSenders ==
  /\ \A i \in 1 .. Len(event_queue) : fd_of[event_queue[i].msg[1]] = event_queue[i].fd
  /\ \A w \in Workers : pc[w] # NoEvent => fd_of[pc[w].msg[1]] = pc[w].fd

IInv == /\ TypeOK /\ OutputIntact /\ FramesInStep /\ StrayOnlyByReuse
        /\ FdsAgree /\ FreshUntilAccepted /\ BatchOpen /\ HandedParsed /\ EventsNameSenders

-----------------------------------------------------------------------------
(* Sequences *)

\* What a sequence is followed by may be moved to its end piece by piece.
LEMMA MovePrefix ==
  ASSUME NEW S, NEW s \in Seq(S), NEW t \in Seq(S), NEW n \in 0 .. Len(t)
  PROVE  /\ s \o SubSeq(t, 1, n) \in Seq(S) /\ SubSeq(t, n + 1, Len(t)) \in Seq(S)
         /\ (s \o SubSeq(t, 1, n)) \o SubSeq(t, n + 1, Len(t)) = s \o t
<1>1. SubSeq(t, 1, n) \in Seq(S) /\ SubSeq(t, n + 1, Len(t)) \in Seq(S)
  BY SMT
<1>2. SubSeq(t, 1, n) \o SubSeq(t, n + 1, Len(t)) = SubSeq(t, 1, Len(t))
  <2>1. /\ Len(t) \in Nat /\ 1 \in 1 .. Len(t) + 1 /\ n \in 1 - 1 .. Len(t)
        /\ Len(t) \in n .. Len(t)
    OBVIOUS
  <2> QED BY <2>1, ConcatAdjacentSubSeq, Zenon
<1>3. SubSeq(t, 1, Len(t)) = t
  BY SubSeqFull
<1>4. s \o SubSeq(t, 1, n) \in Seq(S)
  BY <1>1, ConcatProperties
<1>5. (s \o SubSeq(t, 1, n)) \o SubSeq(t, n + 1, Len(t))
        = s \o (SubSeq(t, 1, n) \o SubSeq(t, n + 1, Len(t)))
  <2> DEFINE a == SubSeq(t, 1, n)
             b == SubSeq(t, n + 1, Len(t))
  <2>1. a \in Seq(S) /\ b \in Seq(S)
    BY <1>1
  <2> HIDE DEF a, b
  <2>2. (s \o a) \o b = s \o (a \o b)
    BY <2>1, ConcatAssociative
  <2> QED BY <2>2 DEF a, b
<1> QED BY <1>1, <1>2, <1>3, <1>4, <1>5

LEMMA PrefixOfConcat ==
  ASSUME NEW S, NEW s \in Seq(S), NEW t \in Seq(S)
  PROVE  IsPrefix(s, s \o t)
<1>1. /\ s \o t \in Seq(S) /\ Len(s) \in Nat /\ Len(t) \in Nat
      /\ Len(s \o t) = Len(s) + Len(t)
      /\ \A i \in 1 .. Len(s) : (s \o t)[i] = s[i]
  BY ConcatProperties, LenProperties
<1> DEFINE x == s \o t
           y == SubSeq(x, 1, Len(s))
<1>2. y \in Seq(S) /\ Len(y) = Len(s) /\ \A i \in 1 .. Len(s) : y[i] = x[i]
  <2> HIDE DEF x
  <2>1. x \in Seq(S) /\ Len(s) \in 0 .. Len(x)
    BY <1>1 DEF x
  <2> QED BY <2>1
<1> HIDE DEF x, y
<1>3. \A i \in 1 .. Len(s) : y[i] = s[i]
  BY <1>1, <1>2 DEF x
<1>4. y = s
  BY <1>2, <1>3, SeqEqual
<1> QED BY <1>1, <1>4 DEF IsPrefix, x, y

LEMMA Half ==
  ASSUME NEW n \in Nat, NEW i \in 1 .. 2 * n
  PROVE  (i + 1) \div 2 \in 1 .. n /\ i % 2 \in {0, 1}
OBVIOUS

\* The units of the messages.
LEMMA UnitsOfMessages ==
  ASSUME NEW c \in Conns, NEW k \in 1 .. MaxSends[c]
  PROVE  /\ <<c, k>> \in Messages
         /\ <<c, 2 * k - 1>> \in Units /\ <<c, 2 * k>> \in Units
<1>1. MaxSends[c] \in Nat
  BY EpollAssumption
<1>2. 2 * k - 1 \in 1 .. 2 * MaxSends[c] /\ 2 * k \in 1 .. 2 * MaxSends[c]
  BY <1>1
<1> QED BY <1>2 DEF Messages, Units

LEMMA MessageParts ==
  ASSUME NEW m \in Messages
  PROVE  /\ m[1] \in Conns /\ m[2] \in 1 .. MaxSends[m[1]]
         /\ m = <<m[1], m[2]>> /\ MaxSends[m[1]] \in Nat
BY EpollAssumption DEF Messages

\* A unit of the frames of a sequence of messages.
LEMMA FramesType ==
  ASSUME NEW ms \in Seq(Messages)
  PROVE  /\ FramesOf(ms) \in Seq(Units) /\ Len(FramesOf(ms)) = 2 * Len(ms)
         /\ \A i \in 1 .. 2 * Len(ms) : \A m \in Messages :
              ms[(i + 1) \div 2] = m => FramesOf(ms)[i] = <<m[1], 2 * m[2] - (i % 2)>>
<1>1. Len(ms) \in Nat /\ \A j \in 1 .. Len(ms) : ms[j] \in Messages
  OBVIOUS
<1>2. \A i \in 1 .. 2 * Len(ms) : FramesOf(ms)[i] \in Units
  <2> SUFFICES ASSUME NEW i \in 1 .. 2 * Len(ms) PROVE FramesOf(ms)[i] \in Units
    OBVIOUS
  <2>1. (i + 1) \div 2 \in 1 .. Len(ms) /\ i % 2 \in {0, 1}
    BY <1>1, Half
  <2>2. PICK m \in Messages : m = ms[(i + 1) \div 2]
    BY <1>1, <2>1
  <2>3. FramesOf(ms)[i] = <<m[1], 2 * m[2] - (i % 2)>>
    BY <2>2 DEF FramesOf
  <2>4. /\ m[1] \in Conns /\ m[2] \in 1 .. MaxSends[m[1]] /\ MaxSends[m[1]] \in Nat
    BY MessageParts
  <2>5. <<m[1], 2 * m[2] - 1>> \in Units /\ <<m[1], 2 * m[2]>> \in Units
    BY <2>4, UnitsOfMessages
  <2>6. 2 * m[2] - 0 = 2 * m[2]
    BY <2>4
  <2> QED BY <2>1, <2>3, <2>5, <2>6
<1>3. FramesOf(ms) = [i \in 1 .. 2 * Len(ms) |-> FramesOf(ms)[i]]
  BY DEF FramesOf
<1>4. 2 * Len(ms) \in Nat
  BY <1>1
<1>5. FramesOf(ms) \in [1 .. 2 * Len(ms) -> Units]
  BY <1>2, <1>3
<1>6. FramesOf(ms) \in Seq(Units) /\ Len(FramesOf(ms)) = 2 * Len(ms)
  <2> DEFINE n == 2 * Len(ms)
             s == FramesOf(ms)
  <2> HIDE DEF n, s
  <2>1. n \in Nat /\ s \in [1 .. n -> Units]
    BY <1>4, <1>5 DEF n, s
  <2>2. s \in Seq(Units) /\ Len(s) = n
    BY <2>1
  <2> QED BY <2>2 DEF n, s
<1> QED BY <1>6 DEF FramesOf

LEMMA FramesAppend ==
  ASSUME NEW ms \in Seq(Messages), NEW m \in Messages
  PROVE  /\ FramesOf(<<m>>) \in Seq(Units)
         /\ FramesOf(Append(ms, m)) = FramesOf(ms) \o FramesOf(<<m>>)
<1> DEFINE n == Len(ms)
           A == Append(ms, m)
           F == FramesOf(A)
           H == FramesOf(ms)
           O == <<m>>
           J == FramesOf(O)
           G == H \o J
<1>1. /\ O \in Seq(Messages) /\ A \in Seq(Messages)
      /\ n \in Nat /\ Len(A) = n + 1 /\ Len(O) = 1
      /\ \A j \in 1 .. n : A[j] = ms[j] /\ ms[j] \in Messages
      /\ A[n + 1] = m /\ O[1] = m
  OBVIOUS
<1> HIDE DEF A, O
<1>2. /\ F \in Seq(Units) /\ Len(F) = 2 * Len(A)
      /\ \A i \in 1 .. 2 * Len(A) : \A q \in Messages :
           A[(i + 1) \div 2] = q => F[i] = <<q[1], 2 * q[2] - (i % 2)>>
  BY <1>1, FramesType, Zenon
<1>3. /\ H \in Seq(Units) /\ Len(H) = 2 * n
      /\ \A i \in 1 .. 2 * n : \A q \in Messages :
           ms[(i + 1) \div 2] = q => H[i] = <<q[1], 2 * q[2] - (i % 2)>>
  BY FramesType, Zenon
<1>4. /\ J \in Seq(Units) /\ Len(J) = 2 * Len(O)
      /\ \A i \in 1 .. 2 * Len(O) : \A q \in Messages :
           O[(i + 1) \div 2] = q => J[i] = <<q[1], 2 * q[2] - (i % 2)>>
  BY <1>1, FramesType, Zenon
<1> HIDE DEF n, F, H, J, G
<1>5. Len(F) = 2 * n + 2 /\ Len(J) = 2 /\ Len(H) = 2 * n
  BY <1>1, <1>2, <1>3, <1>4
<1>6. J[1] = <<m[1], 2 * m[2] - 1>> /\ J[2] = <<m[1], 2 * m[2] - 0>>
  <2>1. /\ (1 + 1) \div 2 = 1 /\ (2 + 1) \div 2 = 1 /\ 1 % 2 = 1 /\ 2 % 2 = 0
        /\ 1 \in 1 .. 2 * 1 /\ 2 \in 1 .. 2 * 1
    OBVIOUS
  <2> QED BY <1>1, <1>4, <2>1, ZenonT(30)
<1>7. /\ G \in Seq(Units) /\ Len(G) = 2 * n + 2
      /\ \A i \in 1 .. 2 * n : G[i] = H[i]
      /\ G[2 * n + 1] = J[1] /\ G[2 * n + 2] = J[2]
  <2>1. /\ G \in Seq(Units) /\ Len(G) = Len(H) + Len(J)
        /\ \A i \in 1 .. Len(H) + Len(J) : G[i] = IF i <= Len(H) THEN H[i] ELSE J[i - Len(H)]
    BY <1>3, <1>4, ConcatProperties DEF G
  <2>2. n \in Nat
    BY <1>1
  <2> QED BY <1>5, <2>1, <2>2
<1>8. ASSUME NEW i \in 1 .. 2 * n + 2
      PROVE  F[i] = G[i]
  <2>1. CASE i \in 1 .. 2 * n
    <3>1. (i + 1) \div 2 \in 1 .. n /\ i \in 1 .. 2 * Len(A)
      BY <1>1, <2>1, Half
    <3>2. PICK q \in Messages : q = ms[(i + 1) \div 2] /\ q = A[(i + 1) \div 2]
      BY <1>1, <3>1
    <3>3. F[i] = <<q[1], 2 * q[2] - (i % 2)>>
      BY <1>2, <3>1, <3>2, Zenon
    <3>4. H[i] = <<q[1], 2 * q[2] - (i % 2)>>
      BY <1>3, <2>1, <3>2, Zenon
    <3> QED BY <1>7, <2>1, <3>3, <3>4
  <2>2. CASE i = 2 * n + 1
    <3>1. (i + 1) \div 2 = n + 1 /\ i % 2 = 1 /\ i \in 1 .. 2 * Len(A)
      BY <1>1, <2>2
    <3>2. F[i] = <<m[1], 2 * m[2] - 1>>
      BY <1>1, <1>2, <3>1, Zenon
    <3> QED BY <1>6, <1>7, <2>2, <3>2
  <2>3. CASE i = 2 * n + 2
    <3>1. (i + 1) \div 2 = n + 1 /\ i % 2 = 0 /\ i \in 1 .. 2 * Len(A)
      BY <1>1, <2>3
    <3>2. F[i] = <<m[1], 2 * m[2] - 0>>
      BY <1>1, <1>2, <3>1, Zenon
    <3> QED BY <1>6, <1>7, <2>3, <3>2
  <2>4. n \in Nat
    BY <1>1
  <2>5. i \in 1 .. 2 * n \/ i = 2 * n + 1 \/ i = 2 * n + 2
    BY <2>4
  <2> QED BY <2>1, <2>2, <2>3, <2>5
<1>9. F = G
  <2>1. F \in Seq(Units) /\ G \in Seq(Units)
    BY <1>2, <1>7
  <2>2. Len(F) = 2 * n + 2 /\ Len(G) = 2 * n + 2
    BY <1>5, <1>7
  <2>3. \A i \in 1 .. Len(F) : F[i] = G[i]
    BY <1>8, <2>2, Zenon
  <2> QED BY <2>1, <2>2, <2>3, SeqEqual, Zenon
<1> QED BY <1>4, <1>9 DEF F, G, H, J, A, O

-----------------------------------------------------------------------------
(***************************************************************************)
(* What a step keeps by leaving alone the variables that a part of the     *)
(* invariant speaks of.                                                    *)
(***************************************************************************)
LEMMA KeepsOutput ==
  ASSUME OutputIntact, StrayOnlyByReuse,
         UNCHANGED <<connections, fd_of, wire, output_buffer, queued>>
  PROVE  OutputIntact' /\ StrayOnlyByReuse'
BY DEF OutputIntact, StrayOnlyByReuse, OpenConn

LEMMA KeepsFds ==
  ASSUME FdsAgree, UNCHANGED <<connections, fd_of>>
  PROVE  FdsAgree'
BY DEF FdsAgree, Open

LEMMA KeepsFresh ==
  ASSUME FreshUntilAccepted, UNCHANGED <<fd_of, received, handed, queued, wire>>
  PROVE  FreshUntilAccepted'
BY DEF FreshUntilAccepted

LEMMA KeepsFraming ==
  ASSUME FramesInStep, HandedParsed,
         UNCHANGED <<connections, received, input_buffer, reading_header, handed, kinds>>
  PROVE  FramesInStep' /\ HandedParsed'
BY DEF FramesInStep, HandedParsed, InStep, HandedInOrder, Parsed, Open

LEMMA KeepsBatch ==
  ASSUME BatchOpen, UNCHANGED <<connections, epc, batch, cur>>
  PROVE  BatchOpen'
BY DEF BatchOpen, Open

LEMMA KeepsEvents ==
  ASSUME EventsNameSenders, UNCHANGED <<fd_of, event_queue, pc>>
  PROVE  EventsNameSenders'
BY DEF EventsNameSenders

(* The peers *)

LEMMA PeersStep ==
  ASSUME IInv, NEW c \in Conns,
         Connect(c) \/ SendPayload(c) \/ \E how \in {"closed", "reset"} : Leave(c, how)
  PROVE  IInv'
<1>1. UNCHANGED <<kinds, inVars, connections, fd_of, outVars, running, threadVars, queueVars>>
  BY DEF Connect, SendPayload, Leave, connVars
<1>2. TypeOK'
  <2>1. peer' \in [Conns -> {"new", "connected", "closed", "reset"}] /\ edge' \in BOOLEAN
    BY DEF Connect, SendPayload, Leave, connVars, peerVars, IInv, TypeOK
  <2>2. /\ sent' \in [Conns -> Nat]
        /\ \A d \in Conns : sent'[d] <= 2 * Len(kinds[d]) /\ received[d] <= sent'[d]
    <3>0. /\ sent \in [Conns -> Nat] /\ received \in [Conns -> Nat]
          /\ \A d \in Conns : sent[d] <= 2 * Len(kinds[d]) /\ received[d] <= sent[d]
          /\ \A d \in Conns : Len(kinds[d]) \in Nat
      BY DEF IInv, TypeOK
    <3>1. CASE Connect(c)
      BY <3>0, <3>1 DEF Connect
    <3>2. CASE SendPayload(c)
      BY <3>0, <3>2 DEF SendPayload
    <3>3. CASE \E how \in {"closed", "reset"} : Leave(c, how)
      BY <3>0, <3>3 DEF Leave
    <3> QED BY <3>1, <3>2, <3>3
  <2> QED BY <1>1, <2>1, <2>2 DEF IInv, TypeOK, inVars, outVars, threadVars, queueVars
<1> QED
  BY <1>1, <1>2, KeepsOutput, KeepsFds, KeepsFresh, KeepsFraming, KeepsBatch, KeepsEvents
     DEF IInv, inVars, outVars, threadVars, queueVars

LEMMA SendHeaderStep ==
  ASSUME IInv, NEW c \in Conns, NEW k \in KindsSent, SendHeader(c, k)
  PROVE  IInv'
<1>1. UNCHANGED <<peer, inVars, connVars, outVars, running, threadVars, queueVars>>
  BY DEF SendHeader
<1>2. /\ kinds \in [Conns -> Seq(Kinds)] /\ k \in Kinds
      /\ \A d \in Conns : kinds[d] \in Seq(Kinds) /\ Len(kinds[d]) \in Nat
      /\ sent \in [Conns -> Nat] /\ received \in [Conns -> Nat]
      /\ handed \in [Conns -> Seq(Nat \ {0})]
      /\ \A d \in Conns : /\ Len(kinds[d]) <= MaxSends[d]
                          /\ sent[d] <= 2 * Len(kinds[d]) /\ received[d] <= sent[d]
      /\ MaxSends[c] \in Nat
  BY EpollAssumption, SMTT(30) DEF IInv, TypeOK
<1>3. /\ kinds' = [kinds EXCEPT ![c] = Append(@, k)] /\ sent' = [sent EXCEPT ![c] = @ + 1]
      /\ sent[c] = 2 * Len(kinds[c]) /\ Len(kinds[c]) < MaxSends[c]
  BY DEF SendHeader
<1>4. /\ Append(kinds[c], k) \in Seq(Kinds) /\ Len(Append(kinds[c], k)) = Len(kinds[c]) + 1
      /\ \A j \in 1 .. Len(kinds[c]) : Append(kinds[c], k)[j] = kinds[c][j]
  BY <1>2
<1>5. /\ kinds'[c] = Append(kinds[c], k) /\ sent'[c] = sent[c] + 1
      /\ \A d \in Conns : d # c => kinds'[d] = kinds[d] /\ sent'[d] = sent[d]
  BY <1>2, <1>3
<1>6. TypeOK'
  <2>1. kinds' \in [Conns -> Seq(Kinds)] /\ sent' \in [Conns -> Nat]
    BY <1>2, <1>3, <1>4
  <2>2. \A d \in Conns : /\ Len(kinds'[d]) <= MaxSends[d]
                         /\ sent'[d] <= 2 * Len(kinds'[d]) /\ received[d] <= sent'[d]
    BY <1>2, <1>3, <1>4, <1>5
  <2> QED BY <1>1, <2>1, <2>2
          DEF IInv, TypeOK, connVars, inVars, outVars, threadVars, queueVars
<1>7. FramesInStep'
  <2>1. ASSUME NEW d \in Conns PROVE HandedInOrder(d)'
    <3>1. HandedInOrder(d)
      BY DEF IInv, FramesInStep
    <3>2. ASSUME NEW i \in 1 .. Len(handed[d])
          PROVE  kinds'[d][handed[d][i]] = "good"
      <4>0. handed[d] \in Seq(Nat \ {0})
        BY <1>2
      <4>1. PICK h \in Nat \ {0} : h = handed[d][i]
        BY <4>0
      <4>2. kinds[d][h] = "good" /\ 2 * h <= received[d]
        BY <3>1, <4>1 DEF HandedInOrder
      <4>3. h \in 1 .. Len(kinds[d])
        BY <1>2, <4>2
      <4>4. kinds'[d][h] = kinds[d][h]
        BY <1>4, <1>5, <4>3
      <4> QED BY <4>1, <4>2, <4>4
    <3> QED BY <1>1, <3>1, <3>2 DEF HandedInOrder, inVars, queueVars
  <2>2. \A f \in Fds : Open(f)' => InStep(f)'
    BY <1>1 DEF IInv, FramesInStep, InStep, Parsed, Open, connVars, inVars
  <2> QED BY <2>1, <2>2 DEF FramesInStep
<1>8. HandedParsed'
  BY <1>1 DEF IInv, HandedParsed, Parsed, Open, connVars, inVars, queueVars
<1> QED
  BY <1>1, <1>6, <1>7, <1>8, KeepsOutput, KeepsFds, KeepsFresh, KeepsBatch, KeepsEvents
     DEF IInv, connVars, inVars, outVars, threadVars, queueVars

-----------------------------------------------------------------------------
(* The epoll thread *)

LEMMA ListenFdIsNone == ListenFd \notin Fds /\ ListenFd = 0
BY EpollAssumption DEF ListenFd

LEMMA IdleReady == Idle \in Ready /\ Idle.fd = ListenFd
BY DEF Idle, Ready

\* A step that only moves the epoll thread, arms or disarms.
LEMMA ControlStep ==
  ASSUME IInv,
         UNCHANGED <<peerVars, inVars, connections, fd_of, output_buffer, wire, queued, queueVars>>,
         edge' \in BOOLEAN, running' \in BOOLEAN, armed' \in [Fds -> BOOLEAN],
         disarmed' \subseteq Conns,
         epc' \in {"loop", "accept", "parse", "write", "disarm", "exited"},
         batch' \subseteq Ready, cur' \in Ready, BatchOpen'
  PROVE  IInv'
<1>1. TypeOK'
  BY DEF IInv, TypeOK, peerVars, inVars, queueVars
<1> QED
  BY <1>1, KeepsOutput, KeepsFds, KeepsFresh, KeepsFraming, KeepsEvents
     DEF IInv, peerVars, inVars, queueVars

LEMMA ReadyNowOpen ==
  ASSUME IInv
  PROVE  /\ ReadyNow \subseteq Ready
         /\ \A e \in ReadyNow : e.fd # ListenFd => Open(e.fd)
         /\ \A d, e \in ReadyNow : d.fd = e.fd => d = e
<1> DEFINE In(f) == \/ received[connections[f]] < sent[connections[f]]
                    \/ peer[connections[f]] = "closed"
           R(f) == [fd |-> f, in |-> In(f), out |-> armed[f],
                    err |-> peer[connections[f]] = "reset"]
<1>1. armed \in [Fds -> BOOLEAN]
  BY DEF IInv, TypeOK
<1>2. ASSUME NEW f \in Fds
      PROVE  R(f) \in Ready /\ R(f).fd = f
  BY <1>1 DEF Ready
<1>3. [Idle EXCEPT !.in = TRUE] \in Ready /\ [Idle EXCEPT !.in = TRUE].fd = ListenFd
  BY DEF Idle, Ready
<1>4. ASSUME NEW e \in ReadyNow
      PROVE  \/ \E f \in Fds : Open(f) /\ e = R(f)
             \/ e = [Idle EXCEPT !.in = TRUE]
  BY DEF ReadyNow
<1> HIDE DEF R
<1>5. ASSUME NEW e \in ReadyNow
      PROVE  \/ e.fd \in Fds /\ Open(e.fd) /\ e = R(e.fd)
             \/ e.fd = ListenFd /\ e = [Idle EXCEPT !.in = TRUE]
  BY <1>2, <1>3, <1>4
<1> QED BY <1>2, <1>3, <1>5, ListenFdIsNone

LEMMA EpollWaitStep ==
  ASSUME IInv, EpollWait
  PROVE  IInv'
<1>1. /\ batch' = ReadyNow /\ epc = "loop" /\ edge' = FALSE
      /\ UNCHANGED <<peerVars, inVars, connections, fd_of, outVars, running, epc, cur, queueVars>>
  BY DEF EpollWait
<1>2. BatchOpen'
  BY <1>1, ReadyNowOpen DEF BatchOpen, Open
<1> QED
  BY <1>1, <1>2, ControlStep, ReadyNowOpen DEF IInv, TypeOK, outVars

\* The current event and the ones after it are of different descriptors.
LEMMA TakesOne ==
  ASSUME IInv, NEW e \in batch, Takes(e)
  PROVE  /\ e \in Ready /\ batch' \subseteq Ready /\ batch' \subseteq batch
         /\ \A d \in batch' : d.fd # e.fd
         /\ e.fd # ListenFd => e.fd \in Fds /\ Open(e.fd)
BY DEF IInv, TypeOK, BatchOpen, Takes, Ready

LEMMA StartStep ==
  ASSUME IInv, NEW e \in batch, StartAccepting(e) \/ StartWriting(e)
  PROVE  IInv'
<1>1. /\ Takes(e) /\ cur' = e
      /\ epc' = "accept" \/ (epc' = "write" /\ e.fd # ListenFd)
      /\ UNCHANGED <<peerVars, inVars, connVars, outVars, running, queueVars>>
  BY DEF StartAccepting, StartWriting
<1>2. BatchOpen'
  BY <1>1, TakesOne DEF IInv, BatchOpen, Open, connVars
<1> QED
  BY <1>1, <1>2, TakesOne, ControlStep DEF IInv, TypeOK, connVars, outVars

\* What follows the reading half of an event.
LEMMA AfterReadOpen ==
  ASSUME NEW e \in Ready, e.fd # ListenFd, AfterRead(e) \/ NextEvent,
         batch' \subseteq Ready, \A d \in batch' : d.fd # e.fd,
         \A d \in batch' : d.fd # ListenFd => Open(d.fd)',
         \A c, d \in batch' : c.fd = d.fd => c = d
  PROVE  /\ epc' \in {"loop", "write"} /\ cur' \in Ready /\ BatchOpen'
BY IdleReady DEF AfterRead, NextEvent, BatchOpen

LEMMA ThreadStep ==
  ASSUME IInv, AcceptNothing \/ ParseEnd \/ WriteUnknown \/ Disarm
  PROVE  IInv'
<1>1. /\ NextEvent \/ (AfterRead(cur) /\ epc = "parse")
      /\ UNCHANGED <<peerVars, inVars, connVars, output_buffer, wire, queued, running,
                     batch, queueVars>>
  BY DEF AcceptNothing, ParseEnd, WriteUnknown, Disarm, outVars
<1>2. /\ epc' \in {"loop", "write"} /\ cur' \in Ready /\ BatchOpen'
  <2>1. CASE NextEvent
    BY <1>1, <2>1, IdleReady DEF NextEvent, IInv, BatchOpen, Open, connVars
  <2>2. CASE AfterRead(cur) /\ epc = "parse"
    <3>1. /\ cur \in Ready /\ cur.fd # ListenFd /\ batch \subseteq Ready
          /\ \A d \in batch : d.fd # cur.fd
          /\ \A d \in batch : d.fd # ListenFd => Open(d.fd)
          /\ \A c, d \in batch : c.fd = d.fd => c = d
      BY <2>2 DEF IInv, TypeOK, BatchOpen
    <3> QED BY <1>1, <2>2, <3>1, AfterReadOpen DEF Open, connVars
  <2> QED BY <1>1, <2>1, <2>2
<1>3. armed' \in [Fds -> BOOLEAN] /\ disarmed' \subseteq Conns
  <2>1. CASE Disarm
    <3>1. cur \in Ready /\ cur.fd # ListenFd /\ Open(cur.fd) /\ cur.fd \in Fds
      BY <2>1 DEF Disarm, IInv, TypeOK, BatchOpen, Ready
    <3>2. connections[cur.fd] \in Conns
      BY <3>1 DEF IInv, TypeOK, Open
    <3> QED BY <2>1, <3>1, <3>2 DEF Disarm, IInv, TypeOK
  <2>2. CASE AcceptNothing \/ ParseEnd \/ WriteUnknown
    BY <2>2 DEF AcceptNothing, ParseEnd, WriteUnknown, IInv, TypeOK, outVars
  <2> QED BY <2>1, <2>2
<1> QED
  BY <1>1, <1>2, <1>3, ControlStep DEF IInv, TypeOK, connVars

LEMMA StopStep ==
  ASSUME IInv, Stop
  PROVE  IInv'
<1>1. /\ running' = FALSE
      /\ UNCHANGED <<peerVars, inVars, connVars, outVars, threadVars, queueVars>>
  BY DEF Stop
<1>2. BatchOpen'
  BY <1>1, KeepsBatch DEF IInv, connVars, threadVars
<1> QED
  BY <1>1, <1>2, ControlStep DEF IInv, TypeOK, connVars, outVars, threadVars

-----------------------------------------------------------------------------
(* Closing *)

\* The connection of an open descriptor.
LEMMA ConnOf ==
  ASSUME IInv, NEW f \in Fds, Open(f)
  PROVE  \E c \in Conns :
           /\ connections[f] = c /\ fd_of[c] = f /\ OpenConn(c) /\ f # ListenFd /\ c # NoConn
           /\ \A g \in Fds : g # f => connections[g] # c
           /\ wire[c] \o output_buffer[f] = FramesOf(queued[c])
           /\ wire[c] \in Seq(Units) /\ output_buffer[f] \in Seq(Units)
           /\ queued[c] \in Seq(Messages)
<1>1. PICK c \in Conns : c = connections[f]
  BY DEF IInv, TypeOK, Open
<1>2. fd_of[c] = f /\ f # ListenFd /\ c # NoConn
  BY <1>1, ListenFdIsNone, EpollAssumption DEF IInv, FdsAgree
<1>3. \A g \in Fds : g # f => connections[g] # c
  BY <1>1, <1>2 DEF IInv, FdsAgree, Open
<1>4. OpenConn(c)
  BY <1>1, <1>2 DEF OpenConn
<1>5. wire[c] \o output_buffer[f] = FramesOf(queued[c])
  BY <1>2, <1>4 DEF IInv, OutputIntact
<1>6. /\ wire[c] \in Seq(Units) /\ output_buffer[f] \in Seq(Units)
      /\ queued[c] \in Seq(Messages)
  BY DEF IInv, TypeOK
<1> QED BY <1>1, <1>2, <1>3, <1>4, <1>5, <1>6

\* When connections go, and nothing is queued or sent.
LEMMA ClosingKeepsOutput ==
  ASSUME IInv, UNCHANGED <<fd_of, wire, queued>>,
         \A f \in Fds : \/ connections'[f] = NoConn
                        \/ connections'[f] = connections[f] /\ output_buffer'[f] = output_buffer[f]
  PROVE  OutputIntact' /\ StrayOnlyByReuse' /\ FdsAgree'
<1>1. ASSUME NEW c \in Conns, OpenConn(c)'
      PROVE  OpenConn(c) /\ output_buffer'[fd_of[c]] = output_buffer[fd_of[c]]
  <2>1. fd_of[c] \in Fds /\ c # NoConn
    BY <1>1, EpollAssumption DEF IInv, TypeOK, OpenConn
  <2> QED BY <1>1, <2>1 DEF OpenConn
<1>2. OutputIntact'
  <2>1. ASSUME NEW c \in Conns, ~OpenConn(c)'
        PROVE  IsPrefix(wire[c], FramesOf(queued[c]))
    <3>1. CASE ~OpenConn(c)
      BY <3>1 DEF IInv, OutputIntact
    <3>2. CASE OpenConn(c)
      <4>1. wire[c] \o output_buffer[fd_of[c]] = FramesOf(queued[c])
        BY <3>2 DEF IInv, OutputIntact
      <4>2. wire[c] \in Seq(Units) /\ output_buffer[fd_of[c]] \in Seq(Units)
        BY <3>2 DEF IInv, TypeOK, OpenConn
      <4>3. IsPrefix(wire[c], wire[c] \o output_buffer[fd_of[c]])
        BY <4>2, PrefixOfConcat
      <4> QED BY <4>1, <4>3
    <3> QED BY <3>1, <3>2
  <2>2. ASSUME NEW c \in Conns, OpenConn(c)'
        PROVE  wire[c] \o output_buffer'[fd_of[c]] = FramesOf(queued[c])
    BY <1>1, <2>2 DEF IInv, OutputIntact
  <2> QED BY <2>1, <2>2 DEF OutputIntact
<1>3. StrayOnlyByReuse'
  <2> SUFFICES ASSUME NEW c \in Conns, NEW i \in 1 .. Len(queued[c]), queued[c][i][1] # c
               PROVE  ~OpenConn(queued[c][i][1])' /\ fd_of[queued[c][i][1]] = fd_of[c]
    BY DEF StrayOnlyByReuse
  <2>1. queued[c] \in Seq(Messages)
    BY DEF IInv, TypeOK
  <2>2. PICK m \in Messages : m = queued[c][i]
    BY <2>1
  <2>3. ~OpenConn(m[1]) /\ fd_of[m[1]] = fd_of[c]
    BY <2>2 DEF IInv, StrayOnlyByReuse
  <2>4. m[1] \in Conns
    BY MessageParts
  <2> QED BY <1>1, <2>2, <2>3, <2>4
<1>4. FdsAgree'
  BY DEF IInv, FdsAgree, Open
<1> QED BY <1>2, <1>3, <1>4

\* Drop, whatever the thread does next and whether or not it had received the rest.
LEMMA DropStep ==
  ASSUME IInv, NEW f \in Fds, Open(f), Drop(f),
         \/ received' = received
         \/ received' = [received EXCEPT ![connections[f]] = sent[connections[f]]],
         epc' \in {"loop", "write"}, batch' \subseteq Ready, cur' \in Ready, BatchOpen'
  PROVE  IInv'
<1>1. PICK c \in Conns :
        /\ connections[f] = c /\ fd_of[c] = f /\ f # ListenFd
        /\ \A g \in Fds : g # f => connections[g] # c
  BY ConnOf
<1>2. /\ connections' = [connections EXCEPT ![f] = NoConn]
      /\ armed' = [armed EXCEPT ![f] = FALSE]
      /\ input_buffer' = [input_buffer EXCEPT ![f] = <<>>]
      /\ output_buffer' = [output_buffer EXCEPT ![f] = <<>>]
      /\ reading_header' = [reading_header EXCEPT ![f] = TRUE]
      /\ UNCHANGED <<peerVars, fd_of, edge, wire, queued, disarmed, running, queueVars>>
  BY DEF Drop
<1>3. /\ received' \in [Conns -> Nat]
      /\ \A d \in Conns : received[d] <= received'[d] /\ received'[d] <= sent[d]
      /\ \A d \in Conns : d # c => received'[d] = received[d]
  <2>1. /\ received \in [Conns -> Nat] /\ sent \in [Conns -> Nat]
        /\ \A d \in Conns : received[d] <= sent[d]
    BY DEF IInv, TypeOK
  <2> QED BY <1>1, <2>1
<1>4. TypeOK'
  <2>1. /\ connections' \in [Fds -> Conns \cup {NoConn}] /\ armed' \in [Fds -> BOOLEAN]
        /\ input_buffer' \in [Fds -> Seq(Units)] /\ output_buffer' \in [Fds -> Seq(Units)]
        /\ reading_header' \in [Fds -> BOOLEAN]
    <3>1. /\ connections \in [Fds -> Conns \cup {NoConn}] /\ armed \in [Fds -> BOOLEAN]
          /\ input_buffer \in [Fds -> Seq(Units)] /\ output_buffer \in [Fds -> Seq(Units)]
          /\ reading_header \in [Fds -> BOOLEAN]
      BY DEF IInv, TypeOK
    <3>2. <<>> \in Seq(Units)
      OBVIOUS
    <3> QED BY <1>2, <3>1, <3>2
  <2>2. UNCHANGED <<peer, kinds, sent, wire, queued, fd_of, edge, running, event_queue, pc,
                    handed, disarmed>>
    BY <1>2 DEF peerVars, queueVars
  <2> QED BY <1>3, <2>1, <2>2 DEF IInv, TypeOK
<1>5. /\ connections \in [Fds -> Conns \cup {NoConn}] /\ output_buffer \in [Fds -> Seq(Units)]
      /\ input_buffer \in [Fds -> Seq(Units)] /\ reading_header \in [Fds -> BOOLEAN]
      /\ NoConn \notin Conns
  BY EpollAssumption DEF IInv, TypeOK
<1>6. \A g \in Fds :
        \/ connections'[g] = NoConn
        \/ /\ g # f /\ connections'[g] = connections[g] /\ output_buffer'[g] = output_buffer[g]
           /\ input_buffer'[g] = input_buffer[g] /\ reading_header'[g] = reading_header[g]
  BY <1>2, <1>5
<1>7. OutputIntact' /\ StrayOnlyByReuse' /\ FdsAgree'
  BY <1>2, <1>6, ClosingKeepsOutput
<1>8. FreshUntilAccepted'
  BY <1>1, <1>2, <1>3 DEF IInv, FreshUntilAccepted, queueVars
<1>9. ASSUME NEW g \in Fds, Open(g)'
      PROVE  /\ g # f /\ connections'[g] = connections[g] /\ Open(g)
             /\ input_buffer'[g] = input_buffer[g] /\ reading_header'[g] = reading_header[g]
             /\ received'[connections[g]] = received[connections[g]]
  <2>1. /\ g # f /\ connections'[g] = connections[g] /\ Open(g)
        /\ input_buffer'[g] = input_buffer[g] /\ reading_header'[g] = reading_header[g]
    BY <1>6, <1>9 DEF Open
  <2>2. connections[g] \in Conns /\ connections[g] # c
    BY <1>1, <1>5, <2>1 DEF Open
  <2> QED BY <1>3, <2>1, <2>2
<1>10. FramesInStep'
  <2>1. ASSUME NEW g \in Fds, Open(g)' PROVE InStep(g)'
    BY <1>9, <2>1 DEF IInv, FramesInStep, InStep, Parsed
  <2>2. ASSUME NEW d \in Conns PROVE HandedInOrder(d)'
    <3>1. /\ handed[d] \in Seq(Nat \ {0}) /\ received \in [Conns -> Nat] /\ HandedInOrder(d)
      BY DEF IInv, TypeOK, FramesInStep
    <3>2. handed' = handed /\ kinds' = kinds
      BY <1>2 DEF queueVars, peerVars
    <3>3. ASSUME NEW i \in 1 .. Len(handed[d]) PROVE 2 * handed[d][i] <= received'[d]
      <4>1. handed[d][i] \in Nat /\ 2 * handed[d][i] <= received[d]
        BY <3>1 DEF HandedInOrder
      <4> QED BY <1>3, <3>1, <4>1
    <3> QED BY <3>1, <3>2, <3>3 DEF HandedInOrder
  <2> QED BY <2>1, <2>2 DEF FramesInStep
<1>11. HandedParsed'
  BY <1>2, <1>9 DEF IInv, HandedParsed, Parsed, queueVars
<1>12. EventsNameSenders'
  BY <1>2, KeepsEvents DEF IInv, queueVars
<1> QED BY <1>4, <1>7, <1>8, <1>10, <1>11, <1>12 DEF IInv

LEMMA DropActions ==
  ASSUME IInv, ParseBadLength \/ WriteError \/ \E e \in batch : HandleError(e) \/ HandleReadEnd(e)
  PROVE  IInv'
<1>1. ASSUME NEW e \in batch, HandleError(e) \/ HandleReadEnd(e)
      PROVE  IInv'
  <2>1. /\ Takes(e) /\ e.fd # ListenFd /\ Drop(e.fd) /\ (NextEvent \/ AfterRead(e))
        /\ \/ received' = received
           \/ received' = [received EXCEPT ![connections[e.fd]] = sent[connections[e.fd]]]
    BY <1>1 DEF HandleError, HandleReadEnd, Readable
  <2>2. /\ e \in Ready /\ batch' \subseteq Ready /\ batch' \subseteq batch
        /\ \A d \in batch' : d.fd # e.fd
        /\ e.fd \in Fds /\ Open(e.fd)
    BY <2>1, TakesOne
  <2>3. \A d \in batch' : d.fd # ListenFd => Open(d.fd)'
    BY <2>1, <2>2 DEF IInv, TypeOK, BatchOpen, Drop, Open, Ready
  <2>4. \A c, d \in batch' : c.fd = d.fd => c = d
    BY <2>2 DEF IInv, BatchOpen
  <2>5. epc' \in {"loop", "write"} /\ cur' \in Ready /\ BatchOpen'
    BY <2>1, <2>2, <2>3, <2>4, AfterReadOpen
  <2> QED BY <2>1, <2>2, <2>5, DropStep
<1>2. CASE ParseBadLength \/ WriteError
  <2>1. /\ epc \in {"parse", "write"} /\ Drop(cur.fd) /\ (NextEvent \/ AfterRead(cur))
        /\ UNCHANGED <<received, batch>>
        /\ epc = "write" => Open(cur.fd)
    BY <1>2 DEF ParseBadLength, WriteError
  <2>2. /\ cur \in Ready /\ cur.fd # ListenFd /\ batch \subseteq Ready /\ Open(cur.fd)
        /\ \A d \in batch : d.fd # cur.fd
        /\ \A d \in batch : d.fd # ListenFd => Open(d.fd)
        /\ \A c, d \in batch : c.fd = d.fd => c = d
    BY <2>1 DEF IInv, TypeOK, BatchOpen
  <2>3. cur.fd \in Fds
    BY <2>2 DEF Ready
  <2>4. \A d \in batch : d.fd # ListenFd => Open(d.fd)'
    BY <2>1, <2>2, <2>3 DEF IInv, TypeOK, Drop, Open, Ready
  <2>5. epc' \in {"loop", "write"} /\ cur' \in Ready /\ BatchOpen'
    BY <2>1, <2>2, <2>4, AfterReadOpen
  <2> QED BY <2>1, <2>2, <2>3, <2>5, DropStep
<1> QED BY <1>1, <1>2

LEMMA CloseAllStep ==
  ASSUME IInv, JoinAndClose \/ WriteKills
  PROVE  IInv'
<1>1. /\ CloseAll /\ UNCHANGED <<peerVars, received, fd_of, edge, wire, queued, disarmed, handed>>
      /\ running' \in BOOLEAN
      /\ \/ UNCHANGED <<event_queue, pc>>
         \/ event_queue' = <<>> /\ pc' = [w \in Workers |-> NoEvent]
  BY DEF JoinAndClose, WriteKills, queueVars, IInv, TypeOK
<1>2. \A f \in Fds : connections'[f] = NoConn
  BY <1>1 DEF CloseAll
<1>3. event_queue' \in Seq(Events) /\ Len(event_queue') <= MaxQueueSize
  <2>1. <<>> \in Seq(Events) /\ Len(<<>>) <= MaxQueueSize
    BY EpollAssumption
  <2> QED BY <1>1, <2>1 DEF IInv, TypeOK
<1>4. pc' \in [Workers -> Events \cup {NoEvent}]
  BY <1>1 DEF IInv, TypeOK
<1>5. TypeOK'
  <2>1. /\ connections' \in [Fds -> Conns \cup {NoConn}] /\ armed' \in [Fds -> BOOLEAN]
        /\ input_buffer' \in [Fds -> Seq(Units)] /\ output_buffer' \in [Fds -> Seq(Units)]
        /\ reading_header' \in [Fds -> BOOLEAN]
    <3>1. <<>> \in Seq(Units)
      OBVIOUS
    <3> QED BY <1>1, <3>1 DEF CloseAll
  <2>2. UNCHANGED <<peer, kinds, sent, received, wire, queued, fd_of, edge, handed, disarmed>>
    BY <1>1 DEF peerVars
  <2>3. epc' = "exited" /\ batch' = {} /\ cur' \in Ready
    BY <1>1, IdleReady DEF CloseAll
  <2> QED BY <1>1, <1>3, <1>4, <2>1, <2>2, <2>3 DEF IInv, TypeOK
<1>6. OutputIntact' /\ StrayOnlyByReuse' /\ FdsAgree'
  BY <1>1, <1>2, ClosingKeepsOutput
<1>7. FreshUntilAccepted'
  BY <1>1 DEF IInv, FreshUntilAccepted
<1>8. FramesInStep' /\ HandedParsed'
  BY <1>1, <1>2 DEF IInv, FramesInStep, HandedInOrder, HandedParsed, Open, peerVars
<1>9. BatchOpen'
  BY <1>1 DEF CloseAll, BatchOpen
<1>10. EventsNameSenders'
  BY <1>1 DEF IInv, EventsNameSenders
<1> QED BY <1>5, <1>6, <1>7, <1>8, <1>9, <1>10 DEF IInv

-----------------------------------------------------------------------------
(* Reading and parsing *)

\* Units of a connection that follow each other.
LEMMA RunOfUnits ==
  ASSUME NEW s \in Seq(Units), NEW c \in Conns, NEW p \in Nat, \A i \in 1 .. Len(s) : s[i] = <<c, p + i>>
  PROVE  s = [i \in 1 .. Len(s) |-> <<c, p + i>>]
<1>1. s = [i \in 1 .. Len(s) |-> s[i]]
  OBVIOUS
<1>2. [i \in 1 .. Len(s) |-> s[i]] = [i \in 1 .. Len(s) |-> <<c, p + i>>]
  OBVIOUS
<1> QED BY <1>1, <1>2

LEMMA HandleReadStep ==
  ASSUME IInv, NEW e \in batch, HandleRead(e)
  PROVE  IInv'
<1>1. /\ Takes(e) /\ e.fd # ListenFd
      /\ received' = [received EXCEPT ![connections[e.fd]] = sent[connections[e.fd]]]
      /\ input_buffer' = [input_buffer EXCEPT ![e.fd] = @ \o
           [i \in 1 .. sent[connections[e.fd]] - received[connections[e.fd]] |->
              <<connections[e.fd], received[connections[e.fd]] + i>>]]
      /\ epc' = "parse" /\ cur' = e
      /\ UNCHANGED <<peerVars, connVars, reading_header, outVars, running, queueVars>>
  BY DEF HandleRead, Readable
<1>2. /\ e \in Ready /\ batch' \subseteq Ready /\ batch' \subseteq batch
      /\ \A d \in batch' : d.fd # e.fd
      /\ e.fd \in Fds /\ Open(e.fd)
  BY <1>1, TakesOne
<1>3. PICK f \in Fds : f = e.fd
  BY <1>2
<1>4. PICK c \in Conns :
        /\ connections[f] = c /\ fd_of[c] = f /\ f # ListenFd
        /\ \A g \in Fds : g # f => connections[g] # c
  BY <1>2, <1>3, ConnOf
<1>5. PICK r \in Nat, t \in Nat : r = received[c] /\ t = sent[c] /\ r <= t /\ t <= 2 * MaxSends[c]
  <2>1. /\ received[c] \in Nat /\ sent[c] \in Nat /\ received[c] <= sent[c]
        /\ kinds[c] \in Seq(Kinds) /\ Len(kinds[c]) <= MaxSends[c] /\ sent[c] <= 2 * Len(kinds[c])
    BY DEF IInv, TypeOK
  <2>2. Len(kinds[c]) \in Nat /\ MaxSends[c] \in Nat
    BY <2>1, EpollAssumption
  <2> QED BY <2>1, <2>2
<1>0. PICK s : s = input_buffer[f]
  OBVIOUS
<1> DEFINE news == [i \in 1 .. t - r |-> <<c, r + i>>]
<1>6. news \in Seq(Units) /\ Len(news) = t - r /\ \A i \in 1 .. t - r : news[i] = <<c, r + i>>
  <2>1. \A i \in 1 .. t - r : <<c, r + i>> \in Units
    <3> SUFFICES ASSUME NEW i \in 1 .. t - r PROVE <<c, r + i>> \in Units
      OBVIOUS
    <3>1. MaxSends[c] \in Nat
      BY EpollAssumption
    <3>2. r + i \in 1 .. 2 * MaxSends[c]
      BY <1>5, <3>1
    <3> QED BY <3>2 DEF Units
  <2>2. t - r \in Nat
    BY <1>5
  <2> QED BY <2>1, <2>2
<1>7. /\ s \in Seq(Units) /\ Len(s) \in Nat /\ Len(s) <= r
      /\ \A i \in 1 .. Len(s) : s[i] = <<c, r - Len(s) + i>>
      /\ reading_header[f] = ((r - Len(s)) % 2 = 0)
  <2>1. s \in Seq(Units) /\ Len(s) <= received[connections[f]]
    BY <1>0, <1>2, <1>3 DEF IInv, TypeOK, HandedParsed
  <2>2. InStep(f)
    BY <1>2, <1>3 DEF IInv, FramesInStep
  <2> QED BY <1>0, <1>4, <1>5, <2>1, <2>2 DEF InStep, Parsed
<1> HIDE DEF news
<1>8. /\ s \o news \in Seq(Units) /\ Len(s \o news) = Len(s) + (t - r)
      /\ \A i \in 1 .. Len(s) + (t - r) :
           (s \o news)[i] = IF i <= Len(s) THEN s[i] ELSE news[i - Len(s)]
  <2>1. /\ s \o news \in Seq(Units) /\ Len(s \o news) = Len(s) + Len(news)
        /\ \A i \in 1 .. Len(s) + Len(news) :
             (s \o news)[i] = IF i <= Len(s) THEN s[i] ELSE news[i - Len(s)]
    BY <1>6, <1>7, ConcatProperties
  <2> QED BY <1>6, <2>1
<1>9. /\ received' = [received EXCEPT ![c] = t]
      /\ input_buffer' = [input_buffer EXCEPT ![f] = s \o news]
  BY <1>0, <1>1, <1>3, <1>4, <1>5 DEF news
<1>10. /\ received \in [Conns -> Nat] /\ input_buffer \in [Fds -> Seq(Units)]
       /\ connections \in [Fds -> Conns \cup {NoConn}]
  BY DEF IInv, TypeOK
<1>11. /\ received' \in [Conns -> Nat] /\ received'[c] = t
       /\ \A d \in Conns : d # c => received'[d] = received[d]
       /\ \A d \in Conns : received[d] <= received'[d]
       /\ input_buffer' \in [Fds -> Seq(Units)] /\ input_buffer'[f] = s \o news
       /\ \A g \in Fds : g # f => input_buffer'[g] = input_buffer[g]
  BY <1>5, <1>8, <1>9, <1>10
<1>12. TypeOK'
  <2>1. \A d \in Conns : received'[d] <= sent[d]
    <3>1. \A d \in Conns : received[d] <= sent[d]
      BY DEF IInv, TypeOK
    <3> QED BY <1>5, <1>11, <3>1
  <2> QED BY <1>1, <1>2, <1>11, <2>1
          DEF IInv, TypeOK, peerVars, connVars, outVars, queueVars
<1>13. FreshUntilAccepted'
  BY <1>1, <1>4, <1>11 DEF IInv, FreshUntilAccepted, connVars, outVars, queueVars
<1>14. BatchOpen'
  BY <1>1, <1>2 DEF IInv, BatchOpen, Open, connVars
<1>15. ASSUME NEW g \in Fds, Open(g)
       PROVE  /\ g # f => received'[connections[g]] = received[connections[g]]
              /\ Len(input_buffer'[g]) <= received'[connections[g]]
              /\ received'[connections[g]] - Len(input_buffer'[g]) = Parsed(g)
  <2>1. connections[g] \in Conns
    BY <1>10, <1>15 DEF Open
  <2>2. CASE g = f
    <3>1. Parsed(g) = r - Len(s)
      BY <1>0, <1>4, <1>5, <2>2 DEF Parsed
    <3>2. received'[connections[g]] = t /\ Len(input_buffer'[g]) = Len(s) + (t - r)
      BY <1>4, <1>8, <1>11, <2>2
    <3>3. Len(s) + (t - r) <= t /\ t - (Len(s) + (t - r)) = r - Len(s)
      BY <1>5, <1>7
    <3> QED BY <2>2, <3>1, <3>2, <3>3
  <2>3. CASE g # f
    BY <1>4, <1>11, <1>15, <2>1, <2>3 DEF Parsed, IInv, HandedParsed
  <2> QED BY <2>2, <2>3
<1>16. HandedParsed'
  BY <1>1, <1>15 DEF IInv, HandedParsed, Parsed, Open, connVars, queueVars
<1>17. FramesInStep'
  <2>1. ASSUME NEW g \in Fds, Open(g) PROVE InStep(g)'
    <3>1. InStep(g)
      BY <2>1 DEF IInv, FramesInStep
    <3>2. CASE g # f
      <4>1. /\ Parsed(g)' = Parsed(g) /\ connections'[g] = connections[g]
            /\ reading_header'[g] = reading_header[g] /\ input_buffer'[g] = input_buffer[g]
        BY <1>1, <1>11, <1>15, <2>1, <3>2 DEF Parsed, connVars
      <4> QED BY <3>1, <4>1 DEF InStep
    <3>3. CASE g = f
      <4>1. /\ Parsed(g)' = Parsed(g) /\ Parsed(g) = r - Len(s) /\ connections'[g] = c
            /\ reading_header'[g] = reading_header[g] /\ input_buffer'[g] = s \o news
        BY <1>0, <1>1, <1>4, <1>5, <1>11, <1>15, <2>1, <3>3 DEF Parsed, connVars
      <4>2. PICK u \in Seq(Units) : u = s \o news
        BY <1>8
      <4>3. PICK p \in Nat : p = r - Len(s)
        BY <1>5, <1>7
      <4>4. ASSUME NEW i \in 1 .. Len(u)
            PROVE  u[i] = <<c, p + i>>
        <5>1. Len(s) \in Nat /\ i \in 1 .. Len(s) + (t - r)
          BY <1>7, <1>8, <4>2
        <5>2. CASE i <= Len(s)
          <6>1. u[i] = s[i] /\ i \in 1 .. Len(s)
            BY <1>8, <4>2, <5>1, <5>2
          <6>2. s[i] = <<c, (r - Len(s)) + i>>
            BY <1>7, <6>1
          <6> QED BY <4>3, <6>1, <6>2, Zenon
        <5>3. CASE i > Len(s)
          <6>1. i - Len(s) \in 1 .. t - r /\ r + (i - Len(s)) = p + i /\ ~(i <= Len(s))
            <7>1. PICK l \in Nat : l = Len(s)
              BY <5>1
            <7>2. i \in 1 .. l + (t - r) /\ i > l /\ p = r - l
              BY <4>3, <5>1, <5>3, <7>1, Zenon
            <7>3. i - l \in 1 .. t - r /\ r + (i - l) = p + i /\ ~(i <= l)
              BY <7>2
            <7> QED BY <7>1, <7>3, Zenon
          <6>2. u[i] = news[i - Len(s)]
            BY <1>8, <4>2, <5>1, <6>1
          <6>3. news[i - Len(s)] = <<c, r + (i - Len(s))>>
            BY <1>6, <6>1
          <6> QED BY <6>1, <6>2, <6>3
        <5> QED BY <5>1, <5>2, <5>3
      <4>5. u = [i \in 1 .. Len(u) |-> <<c, p + i>>]
        BY <4>4, RunOfUnits
      <4>6. /\ Parsed(g)' = p /\ connections'[g] = c /\ input_buffer'[g] = u
            /\ reading_header'[g] = (p % 2 = 0)
        <5>1. reading_header[f] = (p % 2 = 0)
          BY <1>7, <4>3
        <5>2. reading_header'[g] = reading_header[f]
          BY <3>3, <4>1
        <5>3. Parsed(g)' = p /\ connections'[g] = c /\ input_buffer'[g] = u
          BY <3>3, <4>1, <4>2, <4>3
        <5> QED BY <5>1, <5>2, <5>3, Zenon
      <4> QED BY <4>5, <4>6 DEF InStep
    <3> QED BY <3>2, <3>3
  <2>2. ASSUME NEW d \in Conns PROVE HandedInOrder(d)'
    <3>1. handed[d] \in Seq(Nat \ {0}) /\ HandedInOrder(d)
      BY DEF IInv, TypeOK, FramesInStep
    <3>2. handed' = handed /\ kinds' = kinds
      BY <1>1 DEF queueVars, peerVars
    <3>3. ASSUME NEW i \in 1 .. Len(handed[d]) PROVE 2 * handed[d][i] <= received'[d]
      <4>1. handed[d][i] \in Nat /\ 2 * handed[d][i] <= received[d]
        BY <3>1 DEF HandedInOrder
      <4> QED BY <1>10, <1>11, <4>1, SMTT(30)
    <3> QED BY <3>1, <3>2, <3>3 DEF HandedInOrder
  <2> QED BY <1>1, <2>1, <2>2 DEF FramesInStep, Open, connVars
<1> QED
  BY <1>1, <1>12, <1>13, <1>14, <1>16, <1>17, KeepsOutput, KeepsFds, KeepsEvents
     DEF IInv, connVars, outVars, queueVars

\* The unit that is parsed next, the p-th of its connection having been the last.
LEMMA UnitParsed ==
  ASSUME IInv, epc = "parse", Input # <<>>
  PROVE  \E f \in Fds, c \in Conns, p \in Nat :
           /\ cur.fd = f /\ Open(f) /\ connections[f] = c /\ fd_of[c] = f /\ f # ListenFd
           /\ \A g \in Fds : g # f => connections[g] # c
           /\ Parsed(f) = p /\ p + 1 <= received[c]
           /\ Head(Input) = <<c, p + 1>> /\ <<c, p + 1>> \in Units
           /\ reading_header[f] = (p % 2 = 0)
           /\ Tail(Input) \in Seq(Units) /\ Len(Tail(Input)) <= received[c]
           /\ received[c] - Len(Tail(Input)) = p + 1
           /\ Tail(Input) = [i \in 1 .. Len(Tail(Input)) |-> <<c, (p + 1) + i>>]
<1>1. PICK f \in Fds : f = cur.fd /\ Open(f)
  BY DEF IInv, TypeOK, BatchOpen, Ready
<1>2. PICK c \in Conns :
        /\ connections[f] = c /\ fd_of[c] = f /\ f # ListenFd
        /\ \A g \in Fds : g # f => connections[g] # c
  BY <1>1, ConnOf
<1>3. PICK s \in Seq(Units) : s = input_buffer[f] /\ s # <<>>
  BY <1>1 DEF IInv, TypeOK, Input
<1>4. PICK r \in Nat : r = received[c]
  BY DEF IInv, TypeOK
<1>5. Len(s) \in Nat /\ Len(s) >= 1 /\ Len(s) <= r
  <2>1. Len(s) <= r
    BY <1>1, <1>2, <1>3, <1>4 DEF IInv, HandedParsed
  <2> QED BY <1>3, <2>1
<1>6. PICK p \in Nat : p = r - Len(s)
  BY <1>5
<1>7. /\ reading_header[f] = (p % 2 = 0)
      /\ \A i \in 1 .. Len(s) : s[i] = <<c, p + i>>
      /\ Parsed(f) = p
  <2>1. InStep(f)
    BY <1>1 DEF IInv, FramesInStep
  <2>2. Parsed(f) = p
    BY <1>2, <1>3, <1>4, <1>6 DEF Parsed
  <2> QED BY <1>2, <1>3, <2>1, <2>2 DEF InStep
<1>8. /\ Head(s) = <<c, p + 1>> /\ <<c, p + 1>> \in Units
  <2>1. Head(s) = s[1] /\ s[1] \in Units
    BY <1>3, <1>5
  <2>2. 1 \in 1 .. Len(s)
    BY <1>5
  <2>3. s[1] = <<c, p + 1>>
    BY <1>7, <2>2
  <2> QED BY <2>1, <2>3
<1>9. PICK u \in Seq(Units) : u = Tail(s) /\ Len(u) = Len(s) - 1
                              /\ \A i \in 1 .. Len(u) : u[i] = s[i + 1]
  BY <1>3, <1>5, HeadTailProperties, ZenonT(30)
<1>10. ASSUME NEW i \in 1 .. Len(u) PROVE u[i] = <<c, (p + 1) + i>>
  <2>1. i + 1 \in 1 .. Len(s) /\ p + (i + 1) = (p + 1) + i
    BY <1>5, <1>9
  <2> QED BY <1>7, <1>9, <2>1
<1>11. u = [i \in 1 .. Len(u) |-> <<c, (p + 1) + i>>]
  <2>1. PICK q \in Nat : q = p + 1
    OBVIOUS
  <2>2. ASSUME NEW i \in 1 .. Len(u) PROVE u[i] = <<c, q + i>>
    BY <1>10, <2>1
  <2>3. u = [i \in 1 .. Len(u) |-> <<c, q + i>>]
    BY <2>2, RunOfUnits
  <2> QED BY <2>1, <2>3
<1>12. p + 1 <= r /\ Len(u) <= r /\ r - Len(u) = p + 1
  BY <1>5, <1>6, <1>9
<1>13. Input = s
  BY <1>1, <1>3 DEF Input
<1> QED BY <1>1, <1>2, <1>4, <1>7, <1>8, <1>9, <1>11, <1>12, <1>13

\* One unit is parsed, and the framing is in step again.
LEMMA ParsedOne ==
  ASSUME IInv, NEW f \in Fds, NEW c \in Conns, NEW p \in Nat, NEW u \in Seq(Units),
         connections[f] = c, received[c] - Len(u) = p + 1,
         u = [i \in 1 .. Len(u) |-> <<c, (p + 1) + i>>],
         input_buffer' = [input_buffer EXCEPT ![f] = u],
         reading_header' = [reading_header EXCEPT ![f] = ((p + 1) % 2 = 0)],
         UNCHANGED <<connections, received>>
  PROVE  /\ input_buffer' \in [Fds -> Seq(Units)] /\ reading_header' \in [Fds -> BOOLEAN]
         /\ \A g \in Fds : Open(g) => InStep(g)'
         /\ \A g \in Fds : g # f => Parsed(g)' = Parsed(g) /\ input_buffer'[g] = input_buffer[g]
         /\ Parsed(f)' = p + 1 /\ input_buffer'[f] = u
<1>1. input_buffer \in [Fds -> Seq(Units)] /\ reading_header \in [Fds -> BOOLEAN]
  BY DEF IInv, TypeOK
<1>2. /\ input_buffer' \in [Fds -> Seq(Units)] /\ reading_header' \in [Fds -> BOOLEAN]
      /\ input_buffer'[f] = u /\ reading_header'[f] = ((p + 1) % 2 = 0)
      /\ \A g \in Fds : g # f => /\ input_buffer'[g] = input_buffer[g]
                                 /\ reading_header'[g] = reading_header[g]
  BY <1>1
<1>3. Parsed(f)' = p + 1
  BY <1>2 DEF Parsed
<1>4. \A g \in Fds : g # f => Parsed(g)' = Parsed(g)
  BY <1>2 DEF Parsed
<1>5. InStep(f)'
  BY <1>2, <1>3 DEF InStep
<1>6. ASSUME NEW g \in Fds, Open(g), g # f PROVE InStep(g)'
  BY <1>2, <1>4, <1>6 DEF IInv, FramesInStep, InStep
<1> QED BY <1>2, <1>3, <1>4, <1>5, <1>6

LEMMA ParseHeaderStep ==
  ASSUME IInv, ParseHeader
  PROVE  IInv'
<1>1. /\ epc = "parse" /\ reading_header[cur.fd] /\ Input # <<>>
      /\ reading_header' = [reading_header EXCEPT ![cur.fd] = FALSE]
      /\ input_buffer' = [input_buffer EXCEPT ![cur.fd] = Tail(Input)]
      /\ UNCHANGED <<peerVars, received, connVars, outVars, running, threadVars, queueVars>>
  BY DEF ParseHeader, Input
<1>2. PICK f \in Fds, c \in Conns, p \in Nat :
           /\ cur.fd = f /\ Open(f) /\ connections[f] = c
           /\ Parsed(f) = p
           /\ reading_header[f] = (p % 2 = 0)
           /\ Tail(Input) \in Seq(Units) /\ Len(Tail(Input)) <= received[c]
           /\ received[c] - Len(Tail(Input)) = p + 1
           /\ Tail(Input) = [i \in 1 .. Len(Tail(Input)) |-> <<c, (p + 1) + i>>]
  BY <1>1, UnitParsed
<1>3. PICK u \in Seq(Units) : u = Tail(Input)
  BY <1>2
<1>4. FALSE = ((p + 1) % 2 = 0)
  <2>1. p % 2 = 0
    BY <1>1, <1>2
  <2> QED BY <2>1
<1>5. /\ input_buffer' \in [Fds -> Seq(Units)] /\ reading_header' \in [Fds -> BOOLEAN]
      /\ \A g \in Fds : Open(g) => InStep(g)'
      /\ \A g \in Fds : g # f => Parsed(g)' = Parsed(g) /\ input_buffer'[g] = input_buffer[g]
      /\ Parsed(f)' = p + 1 /\ input_buffer'[f] = u
  <2>1. /\ connections[f] = c /\ received[c] - Len(u) = p + 1
        /\ u = [i \in 1 .. Len(u) |-> <<c, (p + 1) + i>>]
        /\ input_buffer' = [input_buffer EXCEPT ![f] = u]
        /\ reading_header' = [reading_header EXCEPT ![f] = FALSE]
        /\ UNCHANGED <<connections, received>>
    BY <1>1, <1>2, <1>3 DEF connVars
  <2>2. reading_header' = [reading_header EXCEPT ![f] = ((p + 1) % 2 = 0)]
    BY <1>4, <2>1
  <2>3. input_buffer' = [input_buffer EXCEPT ![f] = u]
    BY <2>1
  <2>4. u = [i \in 1 .. Len(u) |-> <<c, (p + 1) + i>>]
    BY <2>1
  <2>5. UNCHANGED <<connections, received>> /\ connections[f] = c /\ received[c] - Len(u) = p + 1
    BY <2>1
  <2> QED BY <2>2, <2>3, <2>4, <2>5, ParsedOne, Zenon
<1>6. TypeOK'
  BY <1>1, <1>5 DEF IInv, TypeOK, peerVars, connVars, outVars, threadVars, queueVars
<1>7. FramesInStep'
  BY <1>1, <1>5 DEF IInv, FramesInStep, HandedInOrder, Open, connVars, peerVars, queueVars
<1>8. HandedParsed'
  <2> SUFFICES ASSUME NEW g \in Fds, Open(g)
               PROVE  /\ Len(input_buffer'[g]) <= received[connections[g]]
                      /\ \A i \in 1 .. Len(handed[connections[g]]) :
                           2 * handed[connections[g]][i] <= Parsed(g)'
    BY <1>1 DEF HandedParsed, Open, connVars, queueVars
  <2>1. /\ Len(input_buffer[g]) <= received[connections[g]]
        /\ \A i \in 1 .. Len(handed[connections[g]]) :
             2 * handed[connections[g]][i] <= Parsed(g)
    BY DEF IInv, HandedParsed
  <2>2. CASE g # f
    BY <1>5, <2>1, <2>2
  <2>3. CASE g = f
    <3>1. handed[c] \in Seq(Nat \ {0})
      BY DEF IInv, TypeOK
    <3>2. \A i \in 1 .. Len(handed[c]) : 2 * handed[c][i] <= p
      BY <1>2, <2>1, <2>3
    <3>3. \A i \in 1 .. Len(handed[c]) : handed[c][i] \in Nat
      BY <3>1
    <3>4. \A i \in 1 .. Len(handed[c]) : 2 * handed[c][i] <= p + 1
      BY <3>2, <3>3
    <3> QED BY <1>2, <1>3, <1>5, <2>3, <3>4
  <2> QED BY <2>2, <2>3
<1> QED
  BY <1>1, <1>6, <1>7, <1>8, KeepsOutput, KeepsFds, KeepsFresh, KeepsBatch, KeepsEvents
     DEF IInv, connVars, outVars, threadVars, queueVars

LEMMA ParsePayloadStep ==
  ASSUME IInv, ParsePayload
  PROVE  IInv'
<1>1. /\ epc = "parse" /\ ~reading_header[cur.fd] /\ Input # <<>>
      /\ reading_header' = [reading_header EXCEPT ![cur.fd] = TRUE]
      /\ input_buffer' = [input_buffer EXCEPT ![cur.fd] = Tail(Input)]
      /\ IF KindOf(Message(Head(Input))) = "good" THEN Push(cur.fd, Message(Head(Input)))
         ELSE UNCHANGED <<event_queue, handed>>
      /\ UNCHANGED <<peerVars, received, connVars, outVars, running, threadVars, pc>>
  BY DEF ParsePayload, Input
<1>2. PICK f \in Fds, c \in Conns, p \in Nat :
           /\ cur.fd = f /\ Open(f) /\ connections[f] = c /\ fd_of[c] = f /\ f # ListenFd
           /\ \A g \in Fds : g # f => connections[g] # c
           /\ Parsed(f) = p /\ p + 1 <= received[c]
           /\ Head(Input) = <<c, p + 1>> /\ <<c, p + 1>> \in Units
           /\ reading_header[f] = (p % 2 = 0)
           /\ Tail(Input) \in Seq(Units) /\ Len(Tail(Input)) <= received[c]
           /\ received[c] - Len(Tail(Input)) = p + 1
           /\ Tail(Input) = [i \in 1 .. Len(Tail(Input)) |-> <<c, (p + 1) + i>>]
  BY <1>1, UnitParsed
<1>3. PICK u \in Seq(Units) : u = Tail(Input)
  BY <1>2
<1>4. (p + 1) % 2 = 0
  <2>1. p % 2 # 0
    BY <1>1, <1>2
  <2> QED BY <2>1
<1>5. /\ input_buffer' \in [Fds -> Seq(Units)] /\ reading_header' \in [Fds -> BOOLEAN]
      /\ \A g \in Fds : Open(g) => InStep(g)'
      /\ \A g \in Fds : g # f => Parsed(g)' = Parsed(g) /\ input_buffer'[g] = input_buffer[g]
      /\ Parsed(f)' = p + 1 /\ input_buffer'[f] = u
  <2>1. /\ connections[f] = c /\ received[c] - Len(u) = p + 1
        /\ u = [i \in 1 .. Len(u) |-> <<c, (p + 1) + i>>]
        /\ input_buffer' = [input_buffer EXCEPT ![f] = u]
        /\ reading_header' = [reading_header EXCEPT ![f] = TRUE]
        /\ UNCHANGED <<connections, received>>
    BY <1>1, <1>2, <1>3 DEF connVars
  <2>2. reading_header' = [reading_header EXCEPT ![f] = ((p + 1) % 2 = 0)]
    BY <1>4, <2>1
  <2>3. input_buffer' = [input_buffer EXCEPT ![f] = u]
    BY <2>1
  <2>4. u = [i \in 1 .. Len(u) |-> <<c, (p + 1) + i>>]
    BY <2>1
  <2>5. UNCHANGED <<connections, received>> /\ connections[f] = c /\ received[c] - Len(u) = p + 1
    BY <2>1
  <2> QED BY <2>2, <2>3, <2>4, <2>5, ParsedOne, Zenon
\* The message whose payload this is.
<1>6. PICK k \in Nat \ {0} : 2 * k = p + 1 /\ Message(Head(Input)) = <<c, k>>
  <2>1. PICK k \in Nat : k = (p + 1) \div 2
    OBVIOUS
  <2>2. k # 0 /\ 2 * k = p + 1 /\ ((p + 1) + 1) \div 2 = k
    BY <1>4, <2>1
  <2>3. Message(<<c, p + 1>>) = <<c, k>>
    BY <2>2 DEF Message
  <2>4. Head(Input) = <<c, p + 1>>
    BY <1>2
  <2> QED BY <2>2, <2>3, <2>4
<1>7. <<c, k>> \in Messages
  <2>1. p + 1 \in 1 .. 2 * MaxSends[c] /\ MaxSends[c] \in Nat
    BY <1>2, EpollAssumption DEF Units
  <2>2. k \in 1 .. MaxSends[c]
    BY <1>6, <2>1
  <2> QED BY <2>2, UnitsOfMessages
<1>8. \/ UNCHANGED <<event_queue, handed>>
      \/ /\ kinds[c][k] = "good" /\ Len(event_queue) < MaxQueueSize
         /\ event_queue' = Append(event_queue, [fd |-> f, msg |-> <<c, k>>])
         /\ handed' = [handed EXCEPT ![c] = Append(@, k)]
  <2>1. PICK m : m = <<c, k>> /\ m = Message(Head(Input)) /\ m[1] = c /\ m[2] = k
    BY <1>6
  <2>2. connections[f] = c
    BY <1>1, <1>2
  <2>3. IF kinds[c][k] = "good" THEN Push(f, m) ELSE UNCHANGED <<event_queue, handed>>
    <3>1. cur.fd = f
      BY <1>2
    <3>2. IF KindOf(m) = "good" THEN Push(f, m) ELSE UNCHANGED <<event_queue, handed>>
      BY <1>1, <2>1, <3>1, Zenon
    <3>3. KindOf(m) = kinds[c][k]
      BY <2>1 DEF KindOf
    <3> QED BY <3>2, <3>3, Zenon
  <2>4. CASE kinds[c][k] # "good" \/ ~(Len(event_queue) < MaxQueueSize)
    BY <2>3, <2>4 DEF Push
  <2>5. CASE kinds[c][k] = "good" /\ Len(event_queue) < MaxQueueSize
    BY <2>1, <2>2, <2>3, <2>5, Zenon DEF Push
  <2> QED BY <2>4, <2>5
<1>9. /\ handed \in [Conns -> Seq(Nat \ {0})] /\ event_queue \in Seq(Events)
      /\ \A d \in Conns : handed[d] \in Seq(Nat \ {0})
      /\ received \in [Conns -> Nat] /\ Len(event_queue) <= MaxQueueSize
      /\ fd_of \in [Conns -> Fds \cup {ListenFd}]
  BY DEF IInv, TypeOK
<1>10. PICK ev \in Events : ev = [fd |-> f, msg |-> <<c, k>>]
  BY <1>7 DEF Events
<1>11. /\ event_queue' \in Seq(Events) /\ Len(event_queue') <= MaxQueueSize
       /\ \A i \in 1 .. Len(event_queue') :
            event_queue'[i] = ev \/ (i \in 1 .. Len(event_queue) /\ event_queue'[i] = event_queue[i])
  <2>1. CASE UNCHANGED <<event_queue, handed>>
    BY <1>9, <2>1
  <2>2. CASE /\ Len(event_queue) < MaxQueueSize
             /\ event_queue' = Append(event_queue, [fd |-> f, msg |-> <<c, k>>])
    <3>1. event_queue' = Append(event_queue, ev) /\ MaxQueueSize \in Nat
      BY <1>10, <2>2, EpollAssumption
    <3>2. PICK q \in Seq(Events) : q = event_queue /\ Len(q) < MaxQueueSize
      BY <1>9, <2>2
    <3>3. /\ Append(q, ev) \in Seq(Events) /\ Len(Append(q, ev)) = Len(q) + 1
          /\ \A i \in 1 .. Len(q) : Append(q, ev)[i] = q[i]
          /\ Append(q, ev)[Len(q) + 1] = ev /\ Len(q) \in Nat
      OBVIOUS
    <3>4. Len(q) + 1 <= MaxQueueSize
      BY <3>1, <3>2, <3>3
    <3>5. \A i \in 1 .. Len(q) + 1 : i = Len(q) + 1 \/ i \in 1 .. Len(q)
      BY <3>3
    <3> QED BY <3>1, <3>2, <3>3, <3>4, <3>5
  <2> QED BY <1>8, <2>1, <2>2
\* What is handed for c: nothing new, or one message more.
<1>12. PICK h \in Seq(Nat \ {0}), n \in Nat :
         /\ h = handed[c] /\ n = Len(h)
         /\ \A i \in 1 .. n : 2 * h[i] <= p
  <2>1. /\ handed[c] \in Seq(Nat \ {0}) /\ \A i \in 1 .. Len(handed[c]) : 2 * handed[c][i] <= p
    BY <1>2 DEF IInv, TypeOK, HandedParsed
  <2> QED BY <2>1
<1>13. /\ handed' \in [Conns -> Seq(Nat \ {0})]
       /\ \A d \in Conns : d # c => handed'[d] = handed[d]
       /\ \/ handed'[c] = h
          \/ /\ kinds[c][k] = "good" /\ handed'[c] = Append(h, k)
             /\ Len(handed'[c]) = n + 1 /\ handed'[c][n + 1] = k
             /\ \A i \in 1 .. n : handed'[c][i] = h[i]
  <2>1. CASE handed' = handed
    BY <1>9, <1>12, <2>1
  <2>2. CASE kinds[c][k] = "good" /\ handed' = [handed EXCEPT ![c] = Append(@, k)]
    <3>1. /\ Append(h, k) \in Seq(Nat \ {0}) /\ Len(Append(h, k)) = n + 1
          /\ Append(h, k)[n + 1] = k /\ \A i \in 1 .. n : Append(h, k)[i] = h[i]
      BY <1>12
    <3>2. handed' = [handed EXCEPT ![c] = Append(h, k)]
      BY <1>12, <2>2
    <3>3. /\ handed' \in [Conns -> Seq(Nat \ {0})] /\ handed'[c] = Append(h, k)
          /\ \A d \in Conns : d # c => handed'[d] = handed[d]
      BY <1>9, <3>1, <3>2
    <3> QED BY <2>2, <3>1, <3>3
  <2> QED BY <1>8, <2>1, <2>2
<1>14. /\ \A i \in 1 .. Len(handed'[c]) : 2 * handed'[c][i] <= p + 1
       /\ HandedInOrder(c)'
  <2>1. HandedInOrder(c) /\ kinds' = kinds /\ received' = received
    BY <1>1 DEF IInv, FramesInStep, peerVars
  <2>2. /\ \A i \in 1 .. n : /\ h[i] \in Nat /\ 2 * h[i] <= p /\ kinds[c][h[i]] = "good"
                             /\ 2 * h[i] <= received[c] /\ (i > 1 => h[i - 1] < h[i])
    BY <1>12, <2>1 DEF HandedInOrder
  <2>3. CASE handed'[c] = h
    BY <1>12, <2>1, <2>2, <2>3 DEF HandedInOrder
  <2>4. CASE /\ kinds[c][k] = "good"
             /\ Len(handed'[c]) = n + 1 /\ handed'[c][n + 1] = k
             /\ \A i \in 1 .. n : handed'[c][i] = h[i]
    <3>1. \A i \in 1 .. n : h[i] < k
      BY <1>6, <2>2, SMTT(30)
    <3>2. 2 * k <= received[c]
      BY <1>2, <1>6
    <3>3. ASSUME NEW i \in 1 .. n + 1
          PROVE  /\ 2 * handed'[c][i] <= p + 1 /\ kinds[c][handed'[c][i]] = "good"
                 /\ 2 * handed'[c][i] <= received[c]
                 /\ i > 1 => handed'[c][i - 1] < handed'[c][i]
      <4>1. CASE i = n + 1
        <5>1. i > 1 => i - 1 \in 1 .. n
          BY <4>1
        <5>2. 2 * k <= p + 1
          BY <1>6
        <5>3. handed'[c][i] = k
          BY <2>4, <4>1
        <5>4. i > 1 => handed'[c][i - 1] < k
          BY <2>4, <3>1, <5>1
        <5> QED BY <2>4, <3>2, <5>2, <5>3, <5>4
      <4>2. CASE i \in 1 .. n
        <5>1. i > 1 => i - 1 \in 1 .. n
          BY <4>2
        <5>2. handed'[c][i] = h[i] /\ (i > 1 => handed'[c][i - 1] = h[i - 1])
          BY <2>4, <4>2, <5>1
        <5>3. 2 * h[i] <= p + 1
          BY <2>2, <4>2
        <5> QED BY <2>2, <4>2, <5>2, <5>3
      <4> QED BY <1>12, <4>1, <4>2
    <3> QED BY <2>1, <2>4, <3>3 DEF HandedInOrder
  <2> QED BY <1>13, <2>3, <2>4
<1>15. TypeOK'
  BY <1>1, <1>5, <1>11, <1>13 DEF IInv, TypeOK, peerVars, connVars, outVars, threadVars
<1>16. FramesInStep'
  <2>1. \A d \in Conns : HandedInOrder(d)'
    <3>1. ASSUME NEW d \in Conns, d # c PROVE HandedInOrder(d)'
      <4>1. handed'[d] = handed[d] /\ kinds' = kinds /\ received' = received /\ HandedInOrder(d)
        BY <1>1, <1>13, <3>1 DEF IInv, FramesInStep, peerVars
      <4> QED BY <4>1 DEF HandedInOrder
    <3> QED BY <1>14, <3>1
  <2> QED BY <1>1, <1>5, <2>1 DEF FramesInStep, Open, connVars
<1>17. HandedParsed'
  <2> SUFFICES ASSUME NEW g \in Fds, Open(g)
               PROVE  /\ Len(input_buffer'[g]) <= received[connections[g]]
                      /\ \A i \in 1 .. Len(handed'[connections[g]]) :
                           2 * handed'[connections[g]][i] <= Parsed(g)'
    BY <1>1 DEF HandedParsed, Open, connVars
  <2>1. CASE g # f
    <3>1. connections[g] # c /\ connections[g] \in Conns
      BY <1>2, <2>1 DEF IInv, TypeOK, Open
    <3>2. /\ Len(input_buffer[g]) <= received[connections[g]]
          /\ \A i \in 1 .. Len(handed[connections[g]]) :
               2 * handed[connections[g]][i] <= Parsed(g)
      BY DEF IInv, HandedParsed
    <3> QED BY <1>5, <1>13, <2>1, <3>1, <3>2
  <2>2. CASE g = f
    BY <1>2, <1>3, <1>5, <1>14, <2>2
  <2> QED BY <2>1, <2>2
<1>18. EventsNameSenders'
  <2>1. ASSUME NEW i \in 1 .. Len(event_queue')
        PROVE  fd_of[event_queue'[i].msg[1]] = event_queue'[i].fd
    <3>1. fd_of[ev.msg[1]] = ev.fd
      BY <1>2, <1>10
    <3>2. \A j \in 1 .. Len(event_queue) : fd_of[event_queue[j].msg[1]] = event_queue[j].fd
      BY DEF IInv, EventsNameSenders
    <3> QED BY <1>11, <3>1, <3>2
  <2> QED BY <1>1, <2>1 DEF IInv, EventsNameSenders, connVars
<1>19. FreshUntilAccepted'
  BY <1>1, <1>2, <1>13 DEF IInv, FreshUntilAccepted, connVars, outVars
<1> QED
  BY <1>1, <1>15, <1>16, <1>17, <1>18, <1>19, KeepsOutput, KeepsFds, KeepsBatch
     DEF IInv, connVars, outVars, threadVars

-----------------------------------------------------------------------------
(* Writing *)

LEMMA WriteStep ==
  ASSUME IInv, WriteSome \/ WriteAll
  PROVE  IInv'
<1>1. /\ epc = "write" /\ Open(cur.fd)
      /\ UNCHANGED <<peerVars, inVars, connVars, armed, queued, disarmed, running, batch, queueVars>>
      /\ (epc' = "disarm" /\ cur' = cur) \/ NextEvent
  BY DEF WriteSome, WriteAll
<1>2. cur.fd # ListenFd /\ (\A d \in batch : d.fd # cur.fd) /\ cur \in Ready
  BY <1>1 DEF IInv, TypeOK, BatchOpen
<1>3. PICK f \in Fds : f = cur.fd /\ Open(f)
  BY <1>1, <1>2 DEF Ready
<1>4. PICK c \in Conns :
        /\ connections[f] = c /\ fd_of[c] = f /\ OpenConn(c) /\ f # ListenFd
        /\ \A g \in Fds : g # f => connections[g] # c
        /\ wire[c] \o output_buffer[f] = FramesOf(queued[c])
        /\ wire[c] \in Seq(Units) /\ output_buffer[f] \in Seq(Units)
  BY <1>3, ConnOf
<1>5. PICK s \in Seq(Units), t \in Seq(Units) : s = wire[c] /\ t = output_buffer[f]
  BY <1>4
\* Everything, or something.
<1>6. PICK n \in 0 .. Len(t) :
        /\ wire' = [wire EXCEPT ![c] = s \o SubSeq(t, 1, n)]
        /\ output_buffer' = [output_buffer EXCEPT ![f] = SubSeq(t, n + 1, Len(t))]
  <2>1. Len(t) \in Nat /\ SubSeq(t, Len(t) + 1, Len(t)) = <<>>
    OBVIOUS
  <2>2. CASE WriteAll
    <3>1. /\ wire' = [wire EXCEPT ![c] = s \o SubSeq(t, 1, Len(t))]
          /\ output_buffer' = [output_buffer EXCEPT ![f] = <<>>]
      BY <1>3, <1>4, <1>5, <2>2 DEF WriteAll, Transmit
    <3>2. Len(t) \in 0 .. Len(t)
      BY <2>1
    <3> QED BY <2>1, <3>1, <3>2
  <2>3. CASE WriteSome
    <3>1. PICK n \in 1 .. Len(t) - 1 :
            /\ wire' = [wire EXCEPT ![c] = s \o SubSeq(t, 1, n)]
            /\ output_buffer' = [output_buffer EXCEPT ![f] = SubSeq(t, n + 1, Len(t))]
      BY <1>3, <1>4, <1>5, <2>3 DEF WriteSome, Transmit
    <3>2. n \in 0 .. Len(t)
      BY <2>1
    <3> QED BY <3>1, <3>2
  <2> QED BY <2>2, <2>3
<1>7. PICK v \in Seq(Units), u \in Seq(Units) :
        /\ v = s \o SubSeq(t, 1, n) /\ u = SubSeq(t, n + 1, Len(t)) /\ v \o u = s \o t
  <2>1. /\ s \o SubSeq(t, 1, n) \in Seq(Units) /\ SubSeq(t, n + 1, Len(t)) \in Seq(Units)
        /\ (s \o SubSeq(t, 1, n)) \o SubSeq(t, n + 1, Len(t)) = s \o t
    BY MovePrefix, ZenonT(30)
  <2> QED BY <2>1, Zenon
<1>8. /\ wire \in [Conns -> Seq(Units)] /\ output_buffer \in [Fds -> Seq(Units)]
      /\ connections \in [Fds -> Conns \cup {NoConn}] /\ fd_of \in [Conns -> Fds \cup {ListenFd}]
  BY DEF IInv, TypeOK
<1>9. /\ wire' \in [Conns -> Seq(Units)] /\ output_buffer' \in [Fds -> Seq(Units)]
      /\ wire'[c] = v /\ output_buffer'[f] = u
      /\ \A d \in Conns : d # c => wire'[d] = wire[d]
      /\ \A g \in Fds : g # f => output_buffer'[g] = output_buffer[g]
  BY <1>6, <1>7, <1>8
<1>10. TypeOK'
  <2>1. epc' \in {"loop", "disarm"} /\ cur' \in Ready
    BY <1>1, <1>2, IdleReady DEF NextEvent
  <2> QED BY <1>1, <1>9, <2>1 DEF IInv, TypeOK, peerVars, inVars, connVars, queueVars
<1>11. OutputIntact'
  <2> SUFFICES ASSUME NEW d \in Conns
               PROVE  IF OpenConn(d) THEN wire'[d] \o output_buffer'[fd_of[d]] = FramesOf(queued[d])
                      ELSE IsPrefix(wire'[d], FramesOf(queued[d]))
    BY <1>1 DEF OutputIntact, OpenConn, connVars
  <2>1. CASE d = c
    BY <1>4, <1>5, <1>7, <1>9, <2>1
  <2>2. CASE d # c
    <3>1. OpenConn(d) => fd_of[d] \in Fds /\ fd_of[d] # f
      BY <1>4, <1>8, <2>2 DEF OpenConn
    <3>2. IF OpenConn(d) THEN wire[d] \o output_buffer[fd_of[d]] = FramesOf(queued[d])
          ELSE IsPrefix(wire[d], FramesOf(queued[d]))
      BY DEF IInv, OutputIntact
    <3> QED BY <1>9, <2>2, <3>1, <3>2
  <2> QED BY <2>1, <2>2
<1>12. StrayOnlyByReuse'
  BY <1>1 DEF IInv, StrayOnlyByReuse, OpenConn, connVars
<1>13. FreshUntilAccepted'
  BY <1>1, <1>4, <1>9 DEF IInv, FreshUntilAccepted, inVars, connVars, queueVars
<1>14. BatchOpen'
  <2>1. CASE epc' = "disarm" /\ cur' = cur
    BY <1>1, <1>2, <2>1 DEF IInv, BatchOpen, Open, connVars
  <2>2. CASE NextEvent
    BY <1>1, <2>2 DEF IInv, BatchOpen, Open, connVars, NextEvent
  <2> QED BY <1>1, <2>1, <2>2
<1> QED
  BY <1>1, <1>10, <1>11, <1>12, <1>13, <1>14, KeepsFds, KeepsFraming, KeepsEvents
     DEF IInv, peerVars, inVars, connVars, queueVars

-----------------------------------------------------------------------------
(* Accepting *)

LEMMA AcceptStep ==
  ASSUME IInv, NEW c \in Conns, NEW f \in Fds, Accept(c, f)
  PROVE  IInv'
<1>1. /\ epc = "accept" /\ fd_of[c] = ListenFd /\ ~Open(f)
      /\ connections' = [connections EXCEPT ![f] = c]
      /\ fd_of' = [fd_of EXCEPT ![c] = f]
      /\ reading_header' = [reading_header EXCEPT ![f] = TRUE]
      /\ input_buffer' = [input_buffer EXCEPT ![f] = <<>>]
      /\ output_buffer' = [output_buffer EXCEPT ![f] = <<>>]
      /\ armed' = [armed EXCEPT ![f] = FALSE]
      /\ UNCHANGED <<peerVars, received, edge, wire, queued, disarmed, running, threadVars, queueVars>>
  BY DEF Accept, Pending
<1>2. f # ListenFd /\ c # NoConn
  BY ListenFdIsNone, EpollAssumption
<1>3. /\ connections \in [Fds -> Conns \cup {NoConn}] /\ output_buffer \in [Fds -> Seq(Units)]
      /\ input_buffer \in [Fds -> Seq(Units)] /\ reading_header \in [Fds -> BOOLEAN]
      /\ armed \in [Fds -> BOOLEAN] /\ fd_of \in [Conns -> Fds \cup {ListenFd}]
  BY DEF IInv, TypeOK
<1>4. <<>> \in Seq(Units) /\ Len(<<>>) = 0
  OBVIOUS
<1>5. /\ connections' \in [Fds -> Conns \cup {NoConn}] /\ output_buffer' \in [Fds -> Seq(Units)]
      /\ input_buffer' \in [Fds -> Seq(Units)] /\ reading_header' \in [Fds -> BOOLEAN]
      /\ armed' \in [Fds -> BOOLEAN] /\ fd_of' \in [Conns -> Fds \cup {ListenFd}]
      /\ connections'[f] = c /\ fd_of'[c] = f /\ output_buffer'[f] = <<>>
      /\ input_buffer'[f] = <<>> /\ reading_header'[f] = TRUE
      /\ \A g \in Fds : g # f => /\ connections'[g] = connections[g]
                                 /\ output_buffer'[g] = output_buffer[g]
                                 /\ input_buffer'[g] = input_buffer[g]
                                 /\ reading_header'[g] = reading_header[g]
      /\ \A d \in Conns : d # c => fd_of'[d] = fd_of[d]
  BY <1>1, <1>3, <1>4
<1>6. \A g \in Fds : connections[g] # c
  BY <1>1, <1>2, ListenFdIsNone DEF IInv, FdsAgree, Open
<1>7. received[c] = 0 /\ handed[c] = <<>> /\ queued[c] = <<>> /\ wire[c] = <<>>
  BY <1>1 DEF IInv, FreshUntilAccepted
<1>8. TypeOK'
  BY <1>1, <1>5 DEF IInv, TypeOK, peerVars, threadVars, queueVars
<1>9. FdsAgree'
  BY <1>1, <1>3, <1>5, <1>6 DEF IInv, FdsAgree, Open
<1>10. ASSUME NEW d \in Conns, d # c
       PROVE  /\ OpenConn(d)' <=> OpenConn(d)
              /\ OpenConn(d) => fd_of[d] # f /\ fd_of[d] \in Fds
  <2>1. fd_of'[d] = fd_of[d] /\ (fd_of[d] # ListenFd => fd_of[d] \in Fds) /\ d # NoConn
    BY <1>3, <1>5, <1>10, EpollAssumption
  <2>2. connections[f] = NoConn
    BY <1>1 DEF Open
  <2> QED BY <1>5, <1>10, <2>1, <2>2 DEF OpenConn
<1>11. OutputIntact'
  <2> SUFFICES ASSUME NEW d \in Conns
               PROVE  IF OpenConn(d)' THEN wire[d] \o output_buffer'[fd_of'[d]] = FramesOf(queued[d])
                      ELSE IsPrefix(wire[d], FramesOf(queued[d]))
    BY <1>1 DEF OutputIntact
  <2>1. CASE d = c
    <3>1. OpenConn(c)'
      BY <1>2, <1>5 DEF OpenConn
    <3>2. <<>> \o <<>> = FramesOf(<<>>)
      <4>1. <<>> \in Seq(Messages) /\ Len(<<>>) = 0 /\ 2 * 0 = 0
        OBVIOUS
      <4>2. FramesOf(<<>>) \in Seq(Units) /\ Len(FramesOf(<<>>)) = 2 * Len(<<>>)
        BY <4>1, FramesType
      <4>3. FramesOf(<<>>) = <<>>
        BY <4>1, <4>2, EmptySeq
      <4> QED BY <4>3, <1>4, ConcatEmptySeq
    <3> QED BY <1>5, <1>7, <2>1, <3>1, <3>2
  <2>2. CASE d # c
    <3>1. IF OpenConn(d) THEN wire[d] \o output_buffer[fd_of[d]] = FramesOf(queued[d])
          ELSE IsPrefix(wire[d], FramesOf(queued[d]))
      BY DEF IInv, OutputIntact
    <3>2. fd_of'[d] = fd_of[d] /\ (OpenConn(d)' <=> OpenConn(d))
      BY <1>5, <1>10, <2>2
    <3>3. OpenConn(d) => output_buffer'[fd_of[d]] = output_buffer[fd_of[d]]
      BY <1>5, <1>10, <2>2
    <3>4. CASE OpenConn(d)
      BY <3>1, <3>2, <3>3, <3>4, Zenon
    <3>5. CASE ~OpenConn(d)
      BY <3>1, <3>2, <3>5, Zenon
    <3> QED BY <3>4, <3>5
  <2> QED BY <2>1, <2>2
<1>12. StrayOnlyByReuse'
  <2> SUFFICES ASSUME NEW d \in Conns, NEW i \in 1 .. Len(queued[d]), queued[d][i][1] # d
               PROVE  ~OpenConn(queued[d][i][1])' /\ fd_of'[queued[d][i][1]] = fd_of'[d]
    BY <1>1 DEF StrayOnlyByReuse
  <2>1. queued[d] \in Seq(Messages)
    BY DEF IInv, TypeOK
  <2>2. PICK m \in Messages : m = queued[d][i]
    BY <2>1
  <2>3. m[1] \in Conns /\ ~OpenConn(m[1]) /\ fd_of[m[1]] = fd_of[d]
    BY <2>2, MessageParts DEF IInv, StrayOnlyByReuse
  <2>4. fd_of[d] # ListenFd
    <3>1. queued[d] # <<>>
      BY <2>1
    <3> QED BY <3>1 DEF IInv, FreshUntilAccepted
  <2>5. m[1] # c /\ d # c
    BY <1>1, <2>3, <2>4
  <2>6. fd_of'[m[1]] = fd_of[m[1]] /\ fd_of'[d] = fd_of[d]
    BY <1>5, <2>3, <2>5
  <2>7. ~OpenConn(m[1])'
    BY <1>10, <2>3, <2>5
  <2>8. queued' = queued
    BY <1>1
  <2> QED BY <2>2, <2>3, <2>6, <2>7, <2>8
<1>13. FreshUntilAccepted'
  BY <1>1, <1>2, <1>5 DEF IInv, FreshUntilAccepted, queueVars
<1>14. BatchOpen'
  <2>1. batch \subseteq Ready
    BY DEF IInv, TypeOK
  <2>2. \A g \in Fds : Open(g) => Open(g)'
    BY <1>2, <1>5 DEF Open
  <2>3. \A e \in batch : e.fd # ListenFd => e.fd \in Fds
    BY <2>1 DEF Ready
  <2> QED BY <1>1, <2>2, <2>3 DEF IInv, BatchOpen, threadVars
<1>15. ASSUME NEW g \in Fds, Open(g)', g # f
       PROVE  Open(g) /\ connections'[g] = connections[g] /\ Parsed(g)' = Parsed(g)
  BY <1>1, <1>5, <1>15 DEF Open, Parsed
<1>16. Parsed(f)' = 0
  BY <1>1, <1>4, <1>5, <1>7 DEF Parsed
<1>17. FramesInStep'
  <2>1. InStep(f)'
    <3>1. 0 % 2 = 0
      OBVIOUS
    <3>2. <<>> = [i \in 1 .. Len(<<>>) |-> <<c, 0 + i>>]
      OBVIOUS
    <3> QED BY <1>5, <1>16, <3>1, <3>2 DEF InStep
  <2>2. \A g \in Fds : g # f /\ Open(g)' => InStep(g)'
    <3> SUFFICES ASSUME NEW g \in Fds, g # f, Open(g)' PROVE InStep(g)'
      OBVIOUS
    <3>1. Open(g) /\ connections'[g] = connections[g] /\ Parsed(g)' = Parsed(g)
      BY <1>15
    <3>2. input_buffer'[g] = input_buffer[g] /\ reading_header'[g] = reading_header[g]
      BY <1>5
    <3>3. InStep(g)
      BY <3>1 DEF IInv, FramesInStep
    <3> QED BY <3>1, <3>2, <3>3 DEF InStep
  <2>3. \A d \in Conns : HandedInOrder(d)'
    BY <1>1 DEF IInv, FramesInStep, HandedInOrder, peerVars, queueVars
  <2> QED BY <2>1, <2>2, <2>3 DEF FramesInStep
<1>18. HandedParsed'
  <2> SUFFICES ASSUME NEW g \in Fds, Open(g)'
               PROVE  /\ Len(input_buffer'[g]) <= received[connections'[g]]
                      /\ \A i \in 1 .. Len(handed[connections'[g]]) :
                           2 * handed[connections'[g]][i] <= Parsed(g)'
    BY <1>1 DEF HandedParsed, queueVars
  <2>1. CASE g = f
    BY <1>4, <1>5, <1>7, <2>1
  <2>2. CASE g # f
    <3>1. Open(g) /\ connections'[g] = connections[g] /\ Parsed(g)' = Parsed(g)
      BY <1>15, <2>2
    <3>2. input_buffer'[g] = input_buffer[g]
      BY <1>5, <2>2
    <3> QED BY <3>1, <3>2 DEF IInv, HandedParsed
  <2> QED BY <2>1, <2>2
<1>19. EventsNameSenders'
  <2>1. /\ event_queue \in Seq(Events) /\ pc \in [Workers -> Events \cup {NoEvent}]
    BY DEF IInv, TypeOK
  <2>2. ASSUME NEW e \in Events, fd_of[e.msg[1]] = e.fd
        PROVE  fd_of'[e.msg[1]] = e.fd
    <3>1. e.fd \in Fds /\ e.msg \in Messages
      BY DEF Events
    <3>2. e.msg[1] \in Conns /\ e.msg[1] # c
      BY <1>1, <2>2, <3>1, MessageParts, ListenFdIsNone
    <3> QED BY <1>5, <2>2, <3>2
  <2>3. ASSUME NEW i \in 1 .. Len(event_queue)
        PROVE  fd_of'[event_queue[i].msg[1]] = event_queue[i].fd
    <3>1. event_queue[i] \in Events
      BY <2>1
    <3> QED BY <2>2, <3>1 DEF IInv, EventsNameSenders
  <2>4. ASSUME NEW w \in Workers, pc[w] # NoEvent
        PROVE  fd_of'[pc[w].msg[1]] = pc[w].fd
    <3>1. pc[w] \in Events
      BY <2>1, <2>4
    <3> QED BY <2>2, <2>4, <3>1 DEF IInv, EventsNameSenders
  <2> QED BY <1>1, <2>3, <2>4 DEF EventsNameSenders, queueVars
<1> QED
  BY <1>8, <1>9, <1>11, <1>12, <1>13, <1>14, <1>17, <1>18, <1>19 DEF IInv

-----------------------------------------------------------------------------
(* The workers *)

LEMMA PopStep ==
  ASSUME IInv, NEW w \in Workers, Pop(w)
  PROVE  IInv'
<1>1. /\ event_queue # <<>>
      /\ pc' = [pc EXCEPT ![w] = Head(event_queue)]
      /\ event_queue' = Tail(event_queue)
      /\ UNCHANGED <<peerVars, inVars, connVars, outVars, running, threadVars, handed>>
  BY DEF Pop
<1>2. PICK q \in Seq(Events) : q = event_queue
  BY DEF IInv, TypeOK
<1>3. pc \in [Workers -> Events \cup {NoEvent}] /\ Len(q) <= MaxQueueSize /\ MaxQueueSize \in Nat
  BY <1>2, EpollAssumption DEF IInv, TypeOK
<1>4. /\ Head(q) \in Events /\ Head(q) = q[1] /\ Tail(q) \in Seq(Events)
      /\ Len(Tail(q)) = Len(q) - 1 /\ Len(q) \in Nat /\ 1 \in 1 .. Len(q)
      /\ \A i \in 1 .. Len(Tail(q)) : Tail(q)[i] = q[i + 1]
  BY <1>1, <1>2, HeadTailProperties
<1>5. TypeOK'
  <2>1. pc' \in [Workers -> Events \cup {NoEvent}]
    BY <1>1, <1>2, <1>3, <1>4
  <2>2. event_queue' \in Seq(Events) /\ Len(event_queue') <= MaxQueueSize
    BY <1>1, <1>2, <1>3, <1>4
  <2> QED BY <1>1, <2>1, <2>2 DEF IInv, TypeOK, peerVars, inVars, connVars, outVars, threadVars
<1>6. EventsNameSenders'
  <2>1. \A i \in 1 .. Len(q) : fd_of[q[i].msg[1]] = q[i].fd
    BY <1>2 DEF IInv, EventsNameSenders
  <2>2. ASSUME NEW i \in 1 .. Len(Tail(q))
        PROVE  fd_of[Tail(q)[i].msg[1]] = Tail(q)[i].fd
    <3>1. i + 1 \in 1 .. Len(q)
      BY <1>4
    <3> QED BY <1>4, <2>1, <3>1
  <2>3. ASSUME NEW v \in Workers, pc'[v] # NoEvent
        PROVE  fd_of[pc'[v].msg[1]] = pc'[v].fd
    BY <1>1, <1>2, <1>3, <1>4, <2>1, <2>3 DEF IInv, EventsNameSenders
  <2>4. fd_of' = fd_of /\ event_queue' = Tail(q)
    BY <1>1, <1>2 DEF connVars
  <2> QED BY <2>2, <2>3, <2>4 DEF EventsNameSenders
<1> QED
  BY <1>1, <1>5, <1>6, KeepsOutput, KeepsFds, KeepsFresh, KeepsFraming, KeepsBatch
     DEF IInv, peerVars, inVars, connVars, outVars, threadVars

LEMMA EnqueueResponseStep ==
  ASSUME IInv, NEW w \in Workers, EnqueueResponse(w)
  PROVE  IInv'
<1>1. /\ pc[w] # NoEvent
      /\ pc' = [pc EXCEPT ![w] = NoEvent]
      /\ UNCHANGED <<peerVars, inVars, connVars, wire, disarmed, running, threadVars,
                     event_queue, handed>>
  BY DEF EnqueueResponse
<1>2. pc \in [Workers -> Events \cup {NoEvent}]
  BY DEF IInv, TypeOK
<1>3. PICK e \in Events : e = pc[w]
  BY <1>1, <1>2
<1>4. PICK f \in Fds, m \in Messages : f = e.fd /\ m = e.msg
  BY <1>3 DEF Events
<1>5. m[1] \in Conns /\ fd_of[m[1]] = f
  BY <1>1, <1>3, <1>4, MessageParts DEF IInv, EventsNameSenders
<1>6. pc' \in [Workers -> Events \cup {NoEvent}]
  BY <1>1, <1>2
<1>7. EventsNameSenders'
  BY <1>1, <1>2 DEF IInv, EventsNameSenders, connVars
<1>8. CASE ~Open(f)
  <2>1. UNCHANGED <<output_buffer, armed, queued>>
    BY <1>3, <1>4, <1>8 DEF EnqueueResponse
  <2>2. TypeOK'
    BY <1>1, <1>6, <2>1 DEF IInv, TypeOK, peerVars, inVars, connVars, threadVars
  <2> QED
    BY <1>1, <1>7, <2>1, <2>2, KeepsOutput, KeepsFds, KeepsFresh, KeepsFraming, KeepsBatch
       DEF IInv, peerVars, inVars, connVars, threadVars
<1>9. CASE Open(f)
  <2>1. PICK c \in Conns :
          /\ connections[f] = c /\ fd_of[c] = f /\ OpenConn(c) /\ f # ListenFd
          /\ \A g \in Fds : g # f => connections[g] # c
          /\ wire[c] \o output_buffer[f] = FramesOf(queued[c])
          /\ wire[c] \in Seq(Units) /\ output_buffer[f] \in Seq(Units)
          /\ queued[c] \in Seq(Messages)
    BY <1>9, ConnOf
  <2>2. PICK s \in Seq(Units), t \in Seq(Units), q \in Seq(Messages) :
          s = wire[c] /\ t = output_buffer[f] /\ q = queued[c] /\ s \o t = FramesOf(q)
    BY <2>1
  <2>3. PICK b \in Seq(Units) : b = FramesOf(<<m>>) /\ FramesOf(Append(q, m)) = FramesOf(q) \o b
    BY FramesAppend
  <2>4. t \o b \in Seq(Units) /\ s \o (t \o b) = FramesOf(Append(q, m))
    <3>1. t \o b \in Seq(Units)
      BY ConcatProperties
    <3>2. (s \o t) \o b = s \o (t \o b)
      BY ConcatAssociative, SMTT(30)
    <3> QED BY <2>2, <2>3, <3>1, <3>2
  <2>5. /\ Append(q, m) \in Seq(Messages) /\ Len(Append(q, m)) = Len(q) + 1 /\ Len(q) \in Nat
        /\ \A i \in 1 .. Len(q) : Append(q, m)[i] = q[i]
        /\ Append(q, m)[Len(q) + 1] = m
    OBVIOUS
  <2>6. /\ output_buffer' = [output_buffer EXCEPT ![f] = t \o b]
        /\ armed' = [armed EXCEPT ![f] = @ \/ output_buffer[f] = <<>>]
        /\ queued' = [queued EXCEPT ![c] = Append(q, m)]
    BY <1>3, <1>4, <1>9, <2>1, <2>2, <2>3 DEF EnqueueResponse
  <2>7. /\ output_buffer \in [Fds -> Seq(Units)] /\ armed \in [Fds -> BOOLEAN]
        /\ queued \in [Conns -> Seq(Messages)] /\ fd_of \in [Conns -> Fds \cup {ListenFd}]
    BY DEF IInv, TypeOK
  <2>8. /\ output_buffer' \in [Fds -> Seq(Units)] /\ output_buffer'[f] = t \o b
        /\ \A g \in Fds : g # f => output_buffer'[g] = output_buffer[g]
    BY <2>4, <2>6, <2>7
  <2>9. /\ queued' \in [Conns -> Seq(Messages)] /\ queued'[c] = Append(q, m)
        /\ \A d \in Conns : d # c => queued'[d] = queued[d]
    BY <2>5, <2>6, <2>7
  <2>10. armed' \in [Fds -> BOOLEAN]
    BY <2>6, <2>7
  <2>11. TypeOK'
    BY <1>1, <1>6, <2>8, <2>9, <2>10 DEF IInv, TypeOK, peerVars, inVars, connVars, threadVars
  <2>12. OutputIntact'
    <3> SUFFICES ASSUME NEW d \in Conns
                 PROVE  IF OpenConn(d) THEN wire[d] \o output_buffer'[fd_of[d]] = FramesOf(queued'[d])
                        ELSE IsPrefix(wire[d], FramesOf(queued'[d]))
      BY <1>1 DEF OutputIntact, OpenConn, connVars
    <3>1. CASE d = c
      <4>1. wire[c] \o output_buffer'[f] = FramesOf(queued'[c])
        BY <2>2, <2>4, <2>8, <2>9
      <4> QED BY <2>1, <3>1, <4>1
    <3>2. CASE d # c
      <4>1. IF OpenConn(d) THEN wire[d] \o output_buffer[fd_of[d]] = FramesOf(queued[d])
            ELSE IsPrefix(wire[d], FramesOf(queued[d]))
        BY DEF IInv, OutputIntact
      <4>2. OpenConn(d) => output_buffer'[fd_of[d]] = output_buffer[fd_of[d]]
        BY <2>1, <2>7, <2>8, <3>2 DEF OpenConn
      <4>3. queued'[d] = queued[d]
        BY <2>9, <3>2
      <4>4. CASE OpenConn(d)
        BY <4>1, <4>2, <4>3, <4>4, Zenon
      <4>5. CASE ~OpenConn(d)
        BY <4>1, <4>3, <4>5, Zenon
      <4> QED BY <4>4, <4>5
    <3> QED BY <3>1, <3>2
  <2>13. StrayOnlyByReuse'
    <3> SUFFICES ASSUME NEW d \in Conns, NEW i \in 1 .. Len(queued'[d]), NEW a \in Conns,
                        a = queued'[d][i][1], a # d
                 PROVE  ~OpenConn(a) /\ fd_of[a] = fd_of[d]
      <4>1. \A d \in Conns : \A i \in 1 .. Len(queued'[d]) : queued'[d][i][1] \in Conns
        BY <2>9, MessageParts
      <4>2. UNCHANGED <<connections, fd_of>>
        BY <1>1 DEF connVars
      <4> QED BY <4>1, <4>2 DEF StrayOnlyByReuse, OpenConn
    <3>1. CASE d # c \/ i \in 1 .. Len(q)
      <4>1. i \in 1 .. Len(queued[d]) /\ queued'[d][i] = queued[d][i]
        BY <2>2, <2>5, <2>9, <3>1
      <4> QED BY <4>1 DEF IInv, StrayOnlyByReuse
    <3>2. CASE d = c /\ i = Len(q) + 1
      <4>1. a = m[1]
        BY <2>5, <2>9, <3>2
      <4>2. fd_of[a] = f /\ fd_of[d] = f /\ connections[f] # a
        BY <1>5, <2>1, <3>2, <4>1
      <4> QED BY <4>2 DEF OpenConn
    <3> QED BY <2>5, <2>9, <3>1, <3>2
  <2>14. FreshUntilAccepted'
    BY <1>1, <2>1, <2>9 DEF IInv, FreshUntilAccepted, inVars, connVars
  <2> QED
    BY <1>1, <1>7, <2>11, <2>12, <2>13, <2>14, KeepsFds, KeepsFraming, KeepsBatch
       DEF IInv, peerVars, inVars, connVars, threadVars
<1> QED BY <1>8, <1>9

-----------------------------------------------------------------------------
(* The theorems *)

\* The inductive invariant, for the epoll thread, the workers and the peers of any
\* number of connections.
THEOREM Invariance == Spec => []IInv
<1>1. Init => IInv
  <2> SUFFICES ASSUME Init PROVE IInv
    OBVIOUS
  <2>1. TypeOK
    <3>1. /\ <<>> \in Seq(Kinds) /\ <<>> \in Seq(Units) /\ <<>> \in Seq(Messages)
          /\ <<>> \in Seq(Events) /\ <<>> \in Seq(Nat \ {0}) /\ Len(<<>>) = 0
      OBVIOUS
    <3>2. \A c \in Conns : MaxSends[c] \in Nat
      BY EpollAssumption
    <3>3. MaxQueueSize \in Nat
      BY EpollAssumption
    <3>4. /\ kinds \in [Conns -> Seq(Kinds)]
          /\ sent \in [Conns -> Nat] /\ received \in [Conns -> Nat]
          /\ wire \in [Conns -> Seq(Units)] /\ queued \in [Conns -> Seq(Messages)]
          /\ handed \in [Conns -> Seq(Nat \ {0})]
      BY <3>1 DEF Init
    <3>5. \A c \in Conns : /\ Len(kinds[c]) <= MaxSends[c]
                           /\ sent[c] <= 2 * Len(kinds[c]) /\ received[c] <= sent[c]
      BY <3>1, <3>2 DEF Init
    <3>6. /\ input_buffer \in [Fds -> Seq(Units)] /\ output_buffer \in [Fds -> Seq(Units)]
          /\ reading_header \in [Fds -> BOOLEAN] /\ armed \in [Fds -> BOOLEAN]
          /\ connections \in [Fds -> Conns \cup {NoConn}]
          /\ fd_of \in [Conns -> Fds \cup {ListenFd}]
      BY <3>1 DEF Init
    <3>7. /\ event_queue \in Seq(Events) /\ Len(event_queue) <= MaxQueueSize
          /\ pc \in [Workers -> Events \cup {NoEvent}]
      BY <3>1, <3>3 DEF Init
    <3> QED BY <3>4, <3>5, <3>6, <3>7, IdleReady DEF Init, TypeOK
  <2>2. \A f \in Fds : ~Open(f)
    BY DEF Init, Open
  <2>3. OutputIntact
    <3>1. \A c \in Conns : ~OpenConn(c)
      BY DEF Init, OpenConn
    <3>2. IsPrefix(<<>>, FramesOf(<<>>))
      <4>1. <<>> \in Seq(Messages)
        OBVIOUS
      <4>2. FramesOf(<<>>) \in Seq(Units)
        BY <4>1, FramesType
      <4>3. <<>> \in Seq(Units)
        OBVIOUS
      <4>4. IsPrefix(<<>>, <<>> \o FramesOf(<<>>))
        BY <4>2, <4>3, PrefixOfConcat
      <4> QED BY <4>2, <4>4, ConcatEmptySeq
    <3> QED BY <3>1, <3>2 DEF OutputIntact, Init
  <2>4. StrayOnlyByReuse
    BY DEF Init, StrayOnlyByReuse
  <2>5. FramesInStep /\ FdsAgree /\ HandedParsed
    BY <2>2 DEF Init, FramesInStep, HandedInOrder, FdsAgree, HandedParsed
  <2>6. FreshUntilAccepted /\ BatchOpen /\ EventsNameSenders
    BY DEF Init, FreshUntilAccepted, BatchOpen, EventsNameSenders
  <2> QED BY <2>1, <2>3, <2>4, <2>5, <2>6 DEF IInv
<1>2. IInv /\ [Next]_vars => IInv'
  <2> SUFFICES ASSUME IInv, [Next]_vars PROVE IInv'
    OBVIOUS
  <2>1. CASE Peers
    BY <2>1, PeersStep, SendHeaderStep DEF Peers
  <2>2. CASE EpollThread
    <3>1. CASE EpollWait \/ AcceptNothing \/ ParseEnd \/ WriteUnknown \/ Disarm
      BY <3>1, EpollWaitStep, ThreadStep
    <3>2. CASE JoinAndClose \/ WriteKills
      BY <3>2, CloseAllStep
    <3>3. CASE \E c \in Conns, f \in Fds : Accept(c, f)
      BY <3>3, AcceptStep
    <3>4. CASE \E e \in batch : StartAccepting(e) \/ StartWriting(e)
      BY <3>4, StartStep
    <3>5. CASE ParseBadLength \/ WriteError \/ \E e \in batch : HandleError(e) \/ HandleReadEnd(e)
      BY <3>5, DropActions
    <3>6. CASE \E e \in batch : HandleRead(e)
      BY <3>6, HandleReadStep
    <3>7. CASE ParseHeader \/ ParsePayload
      BY <3>7, ParseHeaderStep, ParsePayloadStep
    <3>8. CASE WriteSome \/ WriteAll
      BY <3>8, WriteStep
    <3> QED BY <2>2, <3>1, <3>2, <3>3, <3>4, <3>5, <3>6, <3>7, <3>8 DEF EpollThread
  <2>3. CASE Stop
    BY <2>3, StopStep
  <2>4. CASE WorkerThread
    BY <2>4, PopStep, EnqueueResponseStep DEF WorkerThread
  <2>5. CASE UNCHANGED vars
    <3>1. UNCHANGED <<peer, kinds, sent, received, wire, fd_of, edge, connections, input_buffer,
                      reading_header, output_buffer, armed, running, epc, batch, cur,
                      event_queue, pc, handed, queued, disarmed>>
      BY <2>5 DEF vars, peerVars, inVars, connVars, outVars, threadVars, queueVars
    <3>2. TypeOK'
      BY <3>1 DEF IInv, TypeOK
    <3> QED
      BY <3>1, <3>2, KeepsOutput, KeepsFds, KeepsFresh, KeepsFraming, KeepsBatch, KeepsEvents
         DEF IInv
  <2> QED BY <2>1, <2>2, <2>3, <2>4, <2>5 DEF Next
<1> QED BY <1>1, <1>2, PTL DEF Spec

\* Every variable has its type; what is received never exceeds what was sent, and
\* the event queue never exceeds its capacity.  (EventQueue::push)
THEOREM TypeCorrect == Spec => []TypeOK
<1>1. IInv => TypeOK
  BY DEF IInv
<1> QED BY <1>1, Invariance, PTL

\* Responses reach the wire whole, in order and once each.  (enqueue_response,
\* handle_write)
THEOREM OutputStaysIntact == Spec => []OutputIntact
<1>1. IInv => OutputIntact
  BY DEF IInv
<1> QED BY <1>1, Invariance, PTL

\* The framing of an open connection is never out of step with its peer, and the
\* workers get whole, well-formed messages in the order sent.  (parse_messages)
THEOREM FramingStaysInStep == Spec => []FramesInStep
<1>1. IInv => FramesInStep
  BY DEF IInv
<1> QED BY <1>1, Invariance, PTL

\* A response reaches a stranger only on a descriptor that the kernel used again.
\* (enqueue_response)
THEOREM StraysOnlyByReuse == Spec => []StrayOnlyByReuse
<1>1. IInv => StrayOnlyByReuse
  BY DEF IInv
<1> QED BY <1>1, Invariance, PTL
=============================================================================
