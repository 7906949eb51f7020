-------------------------------- MODULE Link --------------------------------
(***************************************************************************)
(* One direction of a connection, from TCPSession::send on one side to the *)
(* stream that the other side dispatches: encode, the SendQueue, the TCP   *)
(* connection, the RecvQueue, decode. The code that drives the two queues  *)
(* (TCPSession.cpp) is not in the repository: Transmit, Receive and        *)
(* Disconnect are what TCPSession.h declares (asyncSend/onSent,            *)
(* asyncReceive/onReceived, clear), with every amount of bytes a socket    *)
(* may transfer.                                                           *)
(***************************************************************************)
EXTENDS Encoder, SendQueue

CONSTANTS
  Bodies,         \* the lengths of the bodies that are sent
  Reserves,       \* what TCPMessage::reserve is called with
  Requests,       \* what the receiving session prepares before it reads
  MaxMessages,    \* a bound on the messages of all connections
  MaxBreaks       \* a bound on the connections that break

ASSUME LinkAssumption ==
  /\ Bodies \subseteq Nat
  /\ Reserves \subseteq Nat
  /\ Requests \subseteq Nat \ {0}
  /\ MaxMessages \in Nat
  /\ MaxBreaks \in Nat
  /\ \A len \in Bodies : minimumSize + len <= UINT32_MAX    \* every message fits the size field

VARIABLES
  sent,         \* the messages sent over this connection
  sendQueue,    \* TCPSession::m_SendQueue of the sender
  wire,         \* the bytes between the two sockets
  recvQueue,    \* TCPSession::m_RecvQueue of the receiver
  delivered,    \* what decode has returned on this connection: the bytes of each stream
  failed,       \* decode has thrown
  messages,     \* how many messages have been sent over all connections
  breaks        \* how many connections have broken

vars == << sent, sendQueue, wire, recvQueue, delivered, failed, messages, breaks >>

Init ==
  /\ sent = << >>
  /\ sendQueue = << >>
  /\ wire = << >>
  /\ recvQueue = << >>
  /\ delivered = << >>
  /\ failed = FALSE
  /\ messages = 0
  /\ breaks = 0

\* TCPSession::send: encode and push.
Send(len, reserved) ==
  LET m == [id |-> messages + 1, len |-> len, reserved |-> reserved]
  IN  /\ messages < MaxMessages
      /\ sent' = Append(sent, m)
      /\ sendQueue' = push(sendQueue, encode(m))
      /\ messages' = messages + 1
      /\ UNCHANGED << wire, recvQueue, delivered, failed, breaks >>

\* A write of n bytes completes.
Transmit(n) ==
  /\ n <= Backlog(sendQueue)
  /\ wire' = wire \o FirstBytes(sendQueue, n)
  /\ sendQueue' = consume(sendQueue, n)
  /\ UNCHANGED << sent, recvQueue, delivered, failed, messages, breaks >>

\* The session prepares room, and a read of n bytes completes.
Receive(request, n) ==
  LET q == prepare(recvQueue, request)
  IN  /\ ~failed
      /\ n <= Len(wire)
      /\ n <= getWritableSize(q)
      /\ recvQueue' = commit(Scatter(q, buffers(q), SubSeq(wire, 1, n)), n)
      /\ wire' = SubSeq(wire, n + 1, Len(wire))
      /\ UNCHANGED << sent, sendQueue, delivered, failed, messages, breaks >>

\* The session asks for the next packet.
Decode ==
  LET d == decode(recvQueue)
  IN  /\ ~failed
      /\ recvQueue' = d.queue
      /\ failed' = (d.outcome = "throw")
      /\ delivered' = IF d.outcome = "packet" THEN Append(delivered, Unread(d.stream)) ELSE delivered
      /\ UNCHANGED << sent, sendQueue, wire, messages, breaks >>

\* The connection breaks; both sessions clear their queues for the next one.
Disconnect ==
  /\ breaks < MaxBreaks
  /\ breaks' = breaks + 1
  /\ sendQueue' = << >>
  /\ recvQueue' = << >>
  /\ wire' = << >>
  /\ sent' = << >>
  /\ delivered' = << >>
  /\ failed' = FALSE
  /\ UNCHANGED messages

TransmitSome == \E n \in 1 .. Backlog(sendQueue) : Transmit(n)

ReceiveSome == \E request \in Requests, n \in 1 .. Len(wire) : Receive(request, n)

Next ==
  \/ \E len \in Bodies, reserved \in Reserves : Send(len, reserved)
  \/ TransmitSome
  \/ ReceiveSome
  \/ Decode
  \/ Disconnect

Spec == Init /\ [][Next]_vars

\* Weak fairness of the steps that move bytes, taken together: the workers of the
\* io_context run every completion handler in the end, and onReceived asks for
\* packets until there is none. The condition under which such a step is enabled,
\* and that it is neither a Send nor a Disconnect, are written out (TLC evaluates
\* ENABLED far more slowly).
CanMove ==
  \/ Backlog(sendQueue) > 0
  \/ ~failed /\ wire # << >>
  \/ ~failed /\ decode(recvQueue) # [outcome |-> "nullopt", queue |-> recvQueue]

Fairness == <>[]CanMove => []<><<UNCHANGED << messages, breaks >>>>_vars

FairSpec == Spec /\ Fairness

-----------------------------------------------------------------------------
\* Types, and the cursor bounds of every stream of the two queues.
TypeOK ==
  /\ \A q \in {sendQueue, recvQueue} : \A i \in DOMAIN q : CursorsOK(q[i])
  /\ Len(delivered) <= Len(sent)
  /\ Len(sent) <= messages
  /\ messages \in 0 .. MaxMessages
  /\ breaks \in 0 .. MaxBreaks
  /\ failed \in BOOLEAN

\* decode never throws "packet size too small" at a packet that encode has made
\* (Encoder.cpp:69-72), however the bytes were split on the way: the reader
\* never loses the frame.
NeverThrows == ~failed

\* When decode says that a packet is incomplete, the queue has room for what is
\* missing of it, in the streams it has or in one it has just prepared
\* (Encoder.cpp:77-91): the packet can be completed with one read.
RoomForTheRest ==
  LET q == decode(recvQueue).queue
  IN  decode(recvQueue).outcome = "nullopt" /\ SizeKnown(recvQueue) =>
        FrontSize(q) + SIZE_LEN <= getReadableSize(q) + getWritableSize(q)

\* What the receiver dispatches is what was sent: whole messages, in order, each
\* once, none of its bytes from another message, from an earlier connection or
\* from memory nobody has written.
Channel == INSTANCE MessageChannel WITH
  Message <- {MessageBytes([id |-> id, len |-> len]) : id \in 1 .. MaxMessages, len \in Bodies},
  channel <- [i \in 1 .. Len(sent) - Len(delivered) |-> MessageBytes(sent[Len(delivered) + i])],
  received <- delivered

ImplementsChannel == Channel!ChannelSpec

\* Every message is dispatched in the end, unless the connection breaks: no split
\* of the bytes leaves a packet waiting in a queue for ever.
EventuallyDelivered ==
  \A k \in 1 .. MaxMessages, b \in 0 .. MaxBreaks :
    (breaks = b /\ Len(sent) >= k) ~> (breaks # b \/ Len(delivered) >= k)
=============================================================================
