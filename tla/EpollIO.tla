------------------------------- MODULE EpollIO -------------------------------
(***************************************************************************)
(* The epoll thread of a process and the workers that answer through it.   *)
(* The thread waits for events, accepts connections, reads and frames what *)
(* peers send, and writes the output buffers; a worker takes an event from *)
(* the queue and appends a framed response to the output buffer of the     *)
(* descriptor that the event came from.                                    *)
(*                                                                         *)
(* An action is one critical section of connections_mutex_, or one step    *)
(* that the code makes without it.  A frame is two units, its length       *)
(* header and its payload; TCP delivers any number of units at a time.     *)
(* Connections that peers make are told apart; descriptors are numbers     *)
(* that the kernel uses again.  Peers read what they are sent, so a socket *)
(* takes at least one unit whenever it is reported writable.               *)
(***************************************************************************)
EXTENDS Integers, Sequences, SequencesExt

CONSTANTS Conns,        \* connections that peers make, each once
          Workers,      \* threads of the worker pool
          Fds,          \* descriptors the kernel has for connections
          KindsSent,    \* the kinds of messages that peers send
          MaxSends,     \* bound on the messages of each peer
          MaxQueueSize, \* capacity of the event queue
          NoConn, NoEvent \* model values for "none"

\* A message parses, is refused by deserialize_message, or announces an
\* impossible length.
Kinds == {"good", "garbled", "bad_length"}

ASSUME EpollAssumption ==
  /\ KindsSent \subseteq Kinds
  /\ Fds \subseteq Nat \ {0}
  /\ MaxSends \in [Conns -> Nat] /\ MaxQueueSize \in Nat \ {0}
  /\ NoConn \notin Conns

ListenFd == 0

\* The n-th message of a connection and the response to it have the same name;
\* its frame is the units 2n - 1 (the header) and 2n (the payload).
Messages == UNION {{c} \X (1 .. MaxSends[c]) : c \in Conns}
Units    == UNION {{c} \X (1 .. 2 * MaxSends[c]) : c \in Conns}
Message(u)  == <<u[1], (u[2] + 1) \div 2>>
IsHeader(u) == u[2] % 2 = 1

\* The frames of a sequence of messages, one after the other.
FramesOf(ms) ==
  [i \in 1 .. 2 * Len(ms) |->
     LET m == ms[(i + 1) \div 2] IN <<m[1], 2 * m[2] - (i % 2)>>]

\* What epoll_wait reports of a descriptor.
Ready  == [fd : Fds \cup {ListenFd}, in : BOOLEAN, out : BOOLEAN, err : BOOLEAN]
Events == [fd : Fds, msg : Messages]
Idle   == [fd |-> ListenFd, in |-> FALSE, out |-> FALSE, err |-> FALSE]

VARIABLES
  peer,           \* what the other end of a connection did
  kinds,          \* the kinds of the messages it began to send
  sent,           \* how many units it sent
  received,       \* how many of them the server has received
  wire,           \* units that the server sent to it
  fd_of,          \* the descriptor its connection got, ListenFd before
  edge,           \* the listening socket has an edge to report
  connections,    \* the map: descriptor -> connection
  input_buffer, reading_header, output_buffer,  \* fields of ConnectionState
  armed,          \* epoll watches the descriptor for EPOLLOUT
  running,        \* running_
  epc, batch, cur,\* the epoll thread: where it is, its events, the current one
  event_queue,
  pc,             \* the event a worker is answering
  handed,         \* history: messages given to the event queue, by connection
  queued,         \* history: responses queued for a connection
  disarmed        \* history: connections that were disarmed with data queued

peerVars   == <<peer, kinds, sent>>
inVars     == <<received, input_buffer, reading_header>>
connVars   == <<connections, fd_of, edge>>
outVars    == <<output_buffer, armed, wire, queued, disarmed>>
threadVars == <<epc, batch, cur>>
queueVars  == <<event_queue, pc, handed>>
vars == <<peerVars, inVars, connVars, outVars, running, threadVars, queueVars>>

Open(f) == connections[f] # NoConn

-----------------------------------------------------------------------------
Init ==
  /\ peer = [c \in Conns |-> "new"]
  /\ kinds = [c \in Conns |-> <<>>]
  /\ sent = [c \in Conns |-> 0] /\ received = [c \in Conns |-> 0]
  /\ wire = [c \in Conns |-> <<>>]
  /\ fd_of = [c \in Conns |-> ListenFd]
  /\ edge = FALSE
  /\ connections = [f \in Fds |-> NoConn]
  /\ input_buffer = [f \in Fds |-> <<>>]
  /\ reading_header = [f \in Fds |-> TRUE]
  /\ output_buffer = [f \in Fds |-> <<>>]
  /\ armed = [f \in Fds |-> FALSE]
  /\ running = TRUE
  /\ epc = "loop" /\ batch = {} /\ cur = Idle
  /\ event_queue = <<>>
  /\ pc = [w \in Workers |-> NoEvent]
  /\ handed = [c \in Conns |-> <<>>]
  /\ queued = [c \in Conns |-> <<>>]
  /\ disarmed = {}

-----------------------------------------------------------------------------
(* The peers *)

\* connect: the listening sockets are edge-triggered.
Connect(c) ==
  /\ peer[c] = "new"
  /\ peer' = [peer EXCEPT ![c] = "connected"]
  /\ edge' = TRUE
  /\ UNCHANGED <<kinds, sent, inVars, connections, fd_of, outVars, running,
                 threadVars, queueVars>>

\* send_message: the header of the next message arrives, then its payload.
SendHeader(c, k) ==
  /\ peer[c] = "connected"
  /\ sent[c] = 2 * Len(kinds[c]) /\ Len(kinds[c]) < MaxSends[c]
  /\ kinds' = [kinds EXCEPT ![c] = Append(@, k)]
  /\ sent' = [sent EXCEPT ![c] = @ + 1]
  /\ UNCHANGED <<peer, inVars, connVars, outVars, running, threadVars, queueVars>>

SendPayload(c) ==
  /\ peer[c] = "connected"
  /\ sent[c] < 2 * Len(kinds[c])
  /\ sent' = [sent EXCEPT ![c] = @ + 1]
  /\ UNCHANGED <<peer, kinds, inVars, connVars, outVars, running, threadVars,
                 queueVars>>

\* The peer closes its end, or resets the connection.
Leave(c, how) ==
  /\ peer[c] = "connected"
  /\ peer' = [peer EXCEPT ![c] = how]
  /\ UNCHANGED <<kinds, sent, inVars, connVars, outVars, running, threadVars,
                 queueVars>>

Peers == \E c \in Conns : \/ Connect(c)
                          \/ \E k \in KindsSent : SendHeader(c, k)
                          \/ SendPayload(c)
                          \/ \E how \in {"closed", "reset"} : Leave(c, how)

-----------------------------------------------------------------------------
(* The epoll thread: waiting and accepting *)

\* Descriptors with something to report; data and errors are level-triggered.
ReadyNow ==
  {e \in {[fd  |-> f,
           in  |-> \/ received[connections[f]] < sent[connections[f]]
                   \/ peer[connections[f]] = "closed",
           out |-> armed[f],
           err |-> peer[connections[f]] = "reset"] : f \in {g \in Fds : Open(g)}} :
     e.in \/ e.out \/ e.err}
  \cup {[Idle EXCEPT !.in = TRUE] : x \in {y \in {edge} : y}}

\* epoll_wait returns what is ready.
EpollWait ==
  /\ epc = "loop" /\ batch = {} /\ running
  /\ ReadyNow # {}
  /\ batch' = ReadyNow
  /\ edge' = FALSE
  /\ UNCHANGED <<peerVars, inVars, connections, fd_of, outVars, running, epc, cur,
                 queueVars>>

\* The loop takes an event of the batch; the descriptor is looked up first.
Takes(e) == epc = "loop" /\ e \in batch /\ batch' = batch \ {e}

\* The next event, and what follows the reading half of one.
NextEvent == epc' = "loop" /\ cur' = Idle
AfterRead(e) == IF e.out THEN epc' = "write" /\ cur' = e ELSE NextEvent

\* Connections that nobody has accepted.
Pending == {c \in Conns : peer[c] # "new" /\ fd_of[c] = ListenFd}

\* Mutant: one connection per edge.
AcceptOne(c, f) ==
  /\ epc = "accept" /\ c \in Pending /\ ~Open(f)
  /\ connections' = [connections EXCEPT ![f] = c]
  /\ fd_of' = [fd_of EXCEPT ![c] = f]
  /\ reading_header' = [reading_header EXCEPT ![f] = TRUE]
  /\ input_buffer' = [input_buffer EXCEPT ![f] = <<>>]
  /\ output_buffer' = [output_buffer EXCEPT ![f] = <<>>]
  /\ armed' = [armed EXCEPT ![f] = FALSE]
  /\ NextEvent
  /\ UNCHANGED <<peerVars, received, edge, wire, queued, disarmed, running, batch,
                 queueVars>>

\* The listening socket: handle_client_accept or handle_server_accept.
StartAccepting(e) ==
  /\ Takes(e) /\ e.fd = ListenFd
  /\ epc' = "accept" /\ cur' = e
  /\ UNCHANGED <<peerVars, inVars, connVars, outVars, running, queueVars>>

\* accept, then add_connection: the descriptor is new to epoll and to the map.
Accept(c, f) ==
  /\ epc = "accept" /\ c \in Pending /\ ~Open(f)
  /\ connections' = [connections EXCEPT ![f] = c]
  /\ fd_of' = [fd_of EXCEPT ![c] = f]
  /\ reading_header' = [reading_header EXCEPT ![f] = TRUE]
  /\ input_buffer' = [input_buffer EXCEPT ![f] = <<>>]
  /\ output_buffer' = [output_buffer EXCEPT ![f] = <<>>]
  /\ armed' = [armed EXCEPT ![f] = FALSE]
  /\ UNCHANGED <<peerVars, received, edge, wire, queued, disarmed, running,
                 threadVars, queueVars>>

\* accept fails: nothing is pending, or the kernel has no descriptor left.  The
\* loop ends either way.
AcceptNothing ==
  /\ epc = "accept"
  /\ Pending = {} \/ \A f \in Fds : Open(f)
  /\ NextEvent
  /\ UNCHANGED <<peerVars, inVars, connVars, outVars, running, batch, queueVars>>

-----------------------------------------------------------------------------
(* The epoll thread: reading *)

\* remove_connection: out of epoll, closed, and out of the map with its buffers.
Drop(f) ==
  /\ connections' = [connections EXCEPT ![f] = NoConn]
  /\ armed' = [armed EXCEPT ![f] = FALSE]
  /\ input_buffer' = [input_buffer EXCEPT ![f] = <<>>]
  /\ output_buffer' = [output_buffer EXCEPT ![f] = <<>>]
  /\ reading_header' = [reading_header EXCEPT ![f] = TRUE]
  /\ UNCHANGED <<peerVars, fd_of, edge, wire, queued, disarmed, running, queueVars>>

\* EPOLLERR or EPOLLHUP: handle_error.
HandleError(e) ==
  /\ Takes(e) /\ e.fd # ListenFd /\ e.err
  /\ Drop(e.fd)
  /\ NextEvent
  /\ UNCHANGED received

Readable(e) == e.fd # ListenFd /\ ~e.err /\ e.in

\* handle_read up to EAGAIN: everything that has arrived is in the buffer.
HandleRead(e) ==
  /\ Takes(e) /\ Readable(e)
  /\ LET c == connections[e.fd]
         news == [i \in 1 .. sent[c] - received[c] |-> <<c, received[c] + i>>]
     IN  /\ peer[c] = "connected"
         /\ input_buffer' = [input_buffer EXCEPT ![e.fd] = @ \o news]
         /\ received' = [received EXCEPT ![c] = sent[c]]
  /\ epc' = "parse" /\ cur' = e
  /\ UNCHANGED <<peerVars, connVars, reading_header, outVars, running, queueVars>>

\* handle_read up to the end of the stream or an error: the connection is removed
\* with everything that was received and is not parsed.
HandleReadEnd(e) ==
  /\ Takes(e) /\ Readable(e)
  /\ LET c == connections[e.fd]
     IN  /\ peer[c] # "connected"
         /\ received' = [received EXCEPT ![c] = sent[c]]
  /\ Drop(e.fd)
  /\ AfterRead(e)

\* Mutant: the capacity is not looked at.
PushUnbounded(f, m) ==
  /\ event_queue' = Append(event_queue, [fd |-> f, msg |-> m])
  /\ handed' = [handed EXCEPT ![connections[f]] = Append(@, m[2])]

\* EventQueue::push: dropped when the queue is full.
Push(f, m) ==
  IF Len(event_queue) < MaxQueueSize
  THEN /\ event_queue' = Append(event_queue, [fd |-> f, msg |-> m])
       /\ handed' = [handed EXCEPT ![connections[f]] = Append(@, m[2])]
  ELSE UNCHANGED <<event_queue, handed>>

Input == input_buffer[cur.fd]
KindOf(m) == kinds[m[1]][m[2]]

\* Phase 1: the header is in the buffer.
ParseHeader ==
  /\ epc = "parse" /\ reading_header[cur.fd] /\ Input # <<>>
  /\ KindOf(Message(Head(Input))) # "bad_length"
  /\ reading_header' = [reading_header EXCEPT ![cur.fd] = FALSE]
  /\ input_buffer' = [input_buffer EXCEPT ![cur.fd] = Tail(@)]
  /\ UNCHANGED <<peerVars, received, connVars, outVars, running, threadVars, queueVars>>

\* Its length is 0 or more than MAX_MESSAGE_SIZE.
ParseBadLength ==
  /\ epc = "parse" /\ reading_header[cur.fd] /\ Input # <<>>
  /\ KindOf(Message(Head(Input))) = "bad_length"
  /\ Drop(cur.fd)
  /\ AfterRead(cur)
  /\ UNCHANGED <<received, batch>>

\* Mutant: a garbled message leaves the framing state as it is.
ParsePayloadKeepingState ==
  /\ epc = "parse" /\ ~reading_header[cur.fd] /\ Input # <<>>
  /\ LET m == Message(Head(Input))
     IN  IF KindOf(m) = "good"
         THEN Push(cur.fd, m) /\ reading_header' = [reading_header EXCEPT ![cur.fd] = TRUE]
         ELSE UNCHANGED <<event_queue, handed, reading_header>>
  /\ input_buffer' = [input_buffer EXCEPT ![cur.fd] = Tail(@)]
  /\ UNCHANGED <<peerVars, received, connVars, outVars, running, threadVars, pc>>

\* Phase 2: the payload is in the buffer; it becomes an event unless it is garbled.
ParsePayload ==
  /\ epc = "parse" /\ ~reading_header[cur.fd] /\ Input # <<>>
  /\ LET m == Message(Head(Input))
     IN  IF KindOf(m) = "good" THEN Push(cur.fd, m) ELSE UNCHANGED <<event_queue, handed>>
  /\ reading_header' = [reading_header EXCEPT ![cur.fd] = TRUE]
  /\ input_buffer' = [input_buffer EXCEPT ![cur.fd] = Tail(@)]
  /\ UNCHANGED <<peerVars, received, connVars, outVars, running, threadVars, pc>>

\* Not enough bytes for the next phase.
ParseEnd ==
  /\ epc = "parse" /\ Input = <<>>
  /\ AfterRead(cur)
  /\ UNCHANGED <<peerVars, inVars, connVars, outVars, running, batch, queueVars>>

-----------------------------------------------------------------------------
(* The epoll thread: writing *)

\* EPOLLOUT alone.
StartWriting(e) ==
  /\ Takes(e) /\ e.fd # ListenFd /\ ~e.err /\ ~e.in
  /\ epc' = "write" /\ cur' = e
  /\ UNCHANGED <<peerVars, inVars, connVars, outVars, running, queueVars>>

\* handle_write for a descriptor that is gone.
WriteUnknown ==
  /\ epc = "write" /\ ~Open(cur.fd)
  /\ NextEvent
  /\ UNCHANGED <<peerVars, inVars, connVars, outVars, running, batch, queueVars>>

Transmit(n) ==
  wire' = [wire EXCEPT ![connections[cur.fd]] = @ \o SubSeq(output_buffer[cur.fd], 1, n)]

\* Mutant: what the socket did not take is forgotten.
WriteSomeForgetting ==
  /\ epc = "write" /\ Open(cur.fd)
  /\ \E n \in 1 .. Len(output_buffer[cur.fd]) - 1 : Transmit(n)
  /\ output_buffer' = [output_buffer EXCEPT ![cur.fd] = <<>>]
  /\ NextEvent
  /\ UNCHANGED <<peerVars, inVars, connVars, armed, queued, disarmed, running, batch,
                 queueVars>>

\* Mutant: EPOLLOUT is taken back although the socket was full.
WriteSomeDisarming ==
  /\ epc = "write" /\ Open(cur.fd)
  /\ \E n \in 1 .. Len(output_buffer[cur.fd]) - 1 :
       /\ Transmit(n)
       /\ output_buffer' = [output_buffer EXCEPT ![cur.fd] = SubSeq(@, n + 1, Len(@))]
  /\ armed' = [armed EXCEPT ![cur.fd] = FALSE]
  /\ NextEvent
  /\ UNCHANGED <<peerVars, inVars, connVars, queued, disarmed, running, batch, queueVars>>

\* The socket takes some units and then no more: the rest goes back to the front.
WriteSome ==
  /\ epc = "write" /\ Open(cur.fd)
  /\ \E n \in 1 .. Len(output_buffer[cur.fd]) - 1 :
       /\ Transmit(n)
       /\ output_buffer' = [output_buffer EXCEPT ![cur.fd] = SubSeq(@, n + 1, Len(@))]
  /\ NextEvent
  /\ UNCHANGED <<peerVars, inVars, connVars, armed, queued, disarmed, running, batch,
                 queueVars>>

\* The socket takes everything; the lock is released before EPOLLOUT is.  With an
\* empty buffer nothing is sent, and this is the branch that only disarms.
WriteAll ==
  /\ epc = "write" /\ Open(cur.fd)
  /\ Transmit(Len(output_buffer[cur.fd]))
  /\ output_buffer' = [output_buffer EXCEPT ![cur.fd] = <<>>]
  /\ epc' = "disarm" /\ UNCHANGED cur
  /\ UNCHANGED <<peerVars, inVars, connVars, armed, queued, disarmed, running, batch,
                 queueVars>>

\* send fails: the peer is gone.
WriteError ==
  /\ epc = "write" /\ Open(cur.fd) /\ output_buffer[cur.fd] # <<>>
  /\ peer[connections[cur.fd]] # "connected"
  /\ Drop(cur.fd)
  /\ NextEvent
  /\ UNCHANGED <<received, batch>>

\* Every connection is closed, and the thread is gone.
CloseAll ==
  /\ connections' = [f \in Fds |-> NoConn]
  /\ input_buffer' = [f \in Fds |-> <<>>]
  /\ output_buffer' = [f \in Fds |-> <<>>]
  /\ armed' = [f \in Fds |-> FALSE]
  /\ reading_header' = [f \in Fds |-> TRUE]
  /\ epc' = "exited" /\ cur' = Idle /\ batch' = {}

\* send to a peer that has closed its end raises SIGPIPE, which nobody ignores: the
\* whole process ends.
WriteKills ==
  /\ epc = "write" /\ Open(cur.fd) /\ output_buffer[cur.fd] # <<>>
  /\ peer[connections[cur.fd]] = "closed"
  /\ CloseAll
  /\ running' = FALSE
  /\ event_queue' = <<>> /\ pc' = [w \in Workers |-> NoEvent]
  /\ UNCHANGED <<peerVars, received, fd_of, edge, wire, queued, disarmed, handed>>

\* modify_epoll(fd, EPOLLIN), without the lock.
Disarm ==
  /\ epc = "disarm"
  /\ armed' = [armed EXCEPT ![cur.fd] = FALSE]
  /\ disarmed' = IF output_buffer[cur.fd] = <<>> THEN disarmed
                 ELSE disarmed \cup {connections[cur.fd]}
  /\ NextEvent
  /\ UNCHANGED <<peerVars, inVars, connVars, output_buffer, wire, queued, running, batch,
                 queueVars>>

-----------------------------------------------------------------------------
(* Stopping, and the workers *)

\* stop: the flag is seen at the head of the loop.
Stop ==
  /\ running
  /\ running' = FALSE
  /\ UNCHANGED <<peerVars, inVars, connVars, outVars, threadVars, queueVars>>

\* The thread ends, is joined, and every connection is closed.
JoinAndClose ==
  /\ epc = "loop" /\ batch = {} /\ ~running
  /\ CloseAll
  /\ UNCHANGED <<peerVars, received, fd_of, edge, wire, queued, disarmed, running,
                 queueVars>>

EpollThread ==
  \/ EpollWait \/ AcceptNothing \/ JoinAndClose
  \/ \E c \in Conns, f \in Fds : Accept(c, f)
  \/ \E e \in batch : \/ StartAccepting(e) \/ HandleError(e) \/ HandleRead(e)
                      \/ HandleReadEnd(e) \/ StartWriting(e)
  \/ ParseHeader \/ ParseBadLength \/ ParsePayload \/ ParseEnd
  \/ WriteUnknown \/ WriteSome \/ WriteAll \/ WriteError \/ WriteKills \/ Disarm

\* wait_and_pop.
Pop(w) ==
  /\ pc[w] = NoEvent /\ event_queue # <<>>
  /\ pc' = [pc EXCEPT ![w] = Head(event_queue)]
  /\ event_queue' = Tail(event_queue)
  /\ UNCHANGED <<peerVars, inVars, connVars, outVars, running, threadVars, handed>>

\* Mutant: the response goes to the newest descriptor.
EnqueueResponseToNewest(w) ==
  LET open == {g \in Fds : Open(g)}
      f == IF open = {} THEN pc[w].fd ELSE CHOOSE g \in open : \A h \in open : h <= g IN
  /\ pc[w] # NoEvent
  /\ IF Open(f)
     THEN /\ output_buffer' = [output_buffer EXCEPT ![f] = @ \o FramesOf(<<pc[w].msg>>)]
          /\ armed' = [armed EXCEPT ![f] = @ \/ output_buffer[f] = <<>>]
          /\ queued' = [queued EXCEPT ![connections[f]] = Append(@, pc[w].msg)]
     ELSE UNCHANGED <<output_buffer, armed, queued>>
  /\ pc' = [pc EXCEPT ![w] = NoEvent]
  /\ UNCHANGED <<peerVars, inVars, connVars, wire, disarmed, running, threadVars,
                 event_queue, handed>>

\* enqueue_response to the descriptor of the event: appended, and EPOLLOUT armed
\* if the buffer was empty.
EnqueueResponse(w) ==
  LET f == pc[w].fd IN
  /\ pc[w] # NoEvent
  /\ IF Open(f)
     THEN /\ output_buffer' = [output_buffer EXCEPT ![f] = @ \o FramesOf(<<pc[w].msg>>)]
          /\ armed' = [armed EXCEPT ![f] = @ \/ output_buffer[f] = <<>>]
          /\ queued' = [queued EXCEPT ![connections[f]] = Append(@, pc[w].msg)]
     ELSE UNCHANGED <<output_buffer, armed, queued>>
  /\ pc' = [pc EXCEPT ![w] = NoEvent]
  /\ UNCHANGED <<peerVars, inVars, connVars, wire, disarmed, running, threadVars,
                 event_queue, handed>>

WorkerThread == \E w \in Workers : Pop(w) \/ EnqueueResponse(w)

Next == Peers \/ EpollThread \/ Stop \/ WorkerThread

Spec == Init /\ [][Next]_vars

\* The scheduler runs both kinds of threads; peers and the operator do as they like.
FairSpec == Spec /\ WF_vars(EpollThread) /\ WF_vars(WorkerThread)

-----------------------------------------------------------------------------
(* Properties *)

TypeOK ==
  /\ peer \in [Conns -> {"new", "connected", "closed", "reset"}]
  /\ kinds \in [Conns -> Seq(Kinds)]
  /\ sent \in [Conns -> Nat] /\ received \in [Conns -> Nat]
  /\ \A c \in Conns : /\ Len(kinds[c]) <= MaxSends[c]
                      /\ sent[c] <= 2 * Len(kinds[c]) /\ received[c] <= sent[c]
  /\ wire \in [Conns -> Seq(Units)] /\ queued \in [Conns -> Seq(Messages)]
  /\ fd_of \in [Conns -> Fds \cup {ListenFd}]
  /\ edge \in BOOLEAN /\ running \in BOOLEAN
  /\ connections \in [Fds -> Conns \cup {NoConn}]
  /\ input_buffer \in [Fds -> Seq(Units)] /\ output_buffer \in [Fds -> Seq(Units)]
  /\ reading_header \in [Fds -> BOOLEAN] /\ armed \in [Fds -> BOOLEAN]
  /\ epc \in {"loop", "accept", "parse", "write", "disarm", "exited"}
  /\ batch \subseteq Ready /\ cur \in Ready
  /\ event_queue \in Seq(Events) /\ Len(event_queue) <= MaxQueueSize
  /\ pc \in [Workers -> Events \cup {NoEvent}]
  /\ handed \in [Conns -> Seq(Nat \ {0})]
  /\ disarmed \subseteq Conns

\* The connection of c is open.
OpenConn(c) == fd_of[c] # ListenFd /\ connections[fd_of[c]] = c

\* What has been sent to a peer, followed by what is in its output buffer, are the
\* frames of the responses queued for it, whole, in order and once each, however
\* the socket cuts them up; a connection that is gone has received a prefix.
\* (enqueue_response against handle_write)
OutputIntact ==
  \A c \in Conns :
    IF OpenConn(c) THEN wire[c] \o output_buffer[fd_of[c]] = FramesOf(queued[c])
    ELSE IsPrefix(wire[c], FramesOf(queued[c]))

\* What has been parsed of the stream of an open connection.
Parsed(f) == received[connections[f]] - Len(input_buffer[f])

\* The input buffer is what the peer sent from there on, and a header is expected
\* exactly at the start of a message.
InStep(f) ==
  /\ reading_header[f] = (Parsed(f) % 2 = 0)
  /\ input_buffer[f] = [i \in 1 .. Len(input_buffer[f]) |-> <<connections[f], Parsed(f) + i>>]

\* The messages of c that were handed to the workers: whole, well-formed, in order.
HandedInOrder(c) ==
  \A i \in 1 .. Len(handed[c]) :
    /\ kinds[c][handed[c][i]] = "good" /\ 2 * handed[c][i] <= received[c]
    /\ i > 1 => handed[c][i - 1] < handed[c][i]

\* The framing of a connection is never out of step: what is in the input buffer
\* is what its peer sent, from where parsing is, which expects a header exactly
\* at the start of a message; every message that was handed to the workers was
\* whole and well-formed, and they come in the order they were sent.
\* (handle_read, parse_messages)
FramesInStep ==
  /\ \A f \in Fds : Open(f) => InStep(f)
  /\ \A c \in Conns : HandedInOrder(c)

\* A response reaches another peer than the one that asked only because that one
\* is gone and the kernel gave its descriptor to the other.  (enqueue_response
\* knows a client by its descriptor)
StrayOnlyByReuse ==
  \A c \in Conns : \A i \in 1 .. Len(queued[c]) :
    LET asker == queued[c][i][1]
    IN  asker # c => ~OpenConn(asker) /\ fd_of[asker] = fd_of[c]

\* What is queued is sent: outside handle_write, EPOLLOUT is watched on every
\* connection with something in its output buffer.  (enqueue_response)
QueuedIsArmed ==
  \A f \in Fds : output_buffer[f] # <<>> /\ epc # "disarm" => armed[f]

\* A response that is queued is sent, or its connection goes, unless handle_write
\* disarmed the connection after it was queued.  (enqueue_response)
QueuedIsSent ==
  \A c \in Conns :
    (OpenConn(c) /\ output_buffer[fd_of[c]] # <<>>)
      ~> (~OpenConn(c) \/ output_buffer[fd_of[c]] = <<>> \/ c \in disarmed)

\* With a descriptor for everyone, every connection is accepted until the process
\* stops, although the listening socket reports an edge only once.
\* (handle_client_accept, handle_server_accept)
EveryoneAccepted == \A c \in Conns : c \in Pending ~> (c \notin Pending \/ ~running)
=============================================================================
