----------------------------- MODULE Multicast ------------------------------
(***************************************************************************)
(* One message to several sessions (TCPSession.h:59-87). With options.multi *)
(* the message is encoded once and every session's SendQueue gets a copy   *)
(* of the stream: the copies have cursors of their own and share the       *)
(* StreamBuf. Without it every session encodes the message for itself.     *)
(* Each session writes to its socket from its own thread and may close at  *)
(* any moment. StreamBufPtr is a shared_ptr: that the memory of a buffer   *)
(* is free again when no stream refers to it, and not before, is the       *)
(* library's contract and is assumed here (Referenced).                    *)
(*                                                                         *)
(* Here a stream is [m_buf, m_read, m_written], m_buf the address of its   *)
(* buffer. push and consume are those of SendQueue.                        *)
(***************************************************************************)
EXTENDS SendQueue, FiniteSets

CONSTANTS
  Sessions,
  Buffers,        \* the addresses the allocator hands out
  Capacity,       \* the size of every buffer
  Lengths,        \* the lengths of the encoded messages
  MaxMessages,    \* a bound on the messages
  MaxCloses       \* a bound on the sessions that close

ASSUME MulticastAssumption ==
  /\ Capacity \in Nat
  /\ Lengths \subseteq 1 .. Capacity
  /\ MaxMessages \in Nat
  /\ MaxCloses \in Nat

VARIABLES
  memory,       \* what is in each buffer
  sending,      \* the call of send that is running: its message, its stream, the targets left
  queues,       \* m_SendQueue of each session
  wire,         \* what each session has written to its socket
  pushed,       \* what each session has been asked to send
  messages,     \* how many messages have been sent
  closes        \* how many sessions have closed

vars == << memory, sending, queues, wire, pushed, messages, closes >>

\* The shape of sending between two calls: no stream is held.
Idle == [running |-> FALSE]

BytesOf(id, len) == [i \in 1 .. len |-> << id, i >>]

Fill(bytes) == [c \in 1 .. Capacity |-> IF c <= Len(bytes) THEN bytes[c] ELSE Uninit]

Encoded(b, len) == [m_buf |-> b, m_read |-> 0, m_written |-> len]

\* A mutant of Copied: the copy takes all of the buffer for written.
CopiedWhole(s) == [m_buf |-> s.m_buf, m_read |-> s.m_read, m_written |-> Capacity]

\* The copy constructor of Stream.
Copied(s) == [m_buf |-> s.m_buf, m_read |-> s.m_read, m_written |-> s.m_written]

\* The streams of a queue with the memory they refer to.
View(q) ==
  [i \in DOMAIN q |->
     [cells |-> memory[q[i].m_buf], m_read |-> q[i].m_read, m_written |-> q[i].m_written]]

HeldBySend(call) == IF call.running /\ call.multi THEN {call.stream.m_buf} ELSE {}

\* The buffers some stream refers to: the allocator hands out any other.
Referenced(call, qs) ==
  HeldBySend(call) \cup UNION {{qs[s][i].m_buf : i \in DOMAIN qs[s]} : s \in Sessions}

Init ==
  /\ memory = [b \in Buffers |-> Fill(<< >>)]
  /\ sending = Idle
  /\ queues = [s \in Sessions |-> << >>]
  /\ wire = [s \in Sessions |-> << >>]
  /\ pushed = [s \in Sessions |-> << >>]
  /\ messages = 0
  /\ closes = 0

\* send(message, opts, targets) with opts.multi(), and sendMulticast: encode once.
BeginShared(targets, len) ==
  /\ ~sending.running
  /\ messages < MaxMessages
  /\ \E b \in Buffers \ Referenced(sending, queues) :
       /\ memory' = [memory EXCEPT ![b] = Fill(BytesOf(messages + 1, len))]
       /\ sending' = [running |-> TRUE, multi |-> TRUE, id |-> messages + 1, len |-> len,
                      targets |-> targets, stream |-> Encoded(b, len)]
  /\ messages' = messages + 1
  /\ UNCHANGED << queues, wire, pushed, closes >>

\* send without opts.multi(): nothing is encoded yet.
BeginEach(targets, len) ==
  /\ ~sending.running
  /\ messages < MaxMessages
  /\ sending' = [running |-> TRUE, multi |-> FALSE, id |-> messages + 1, len |-> len,
                 targets |-> targets]
  /\ messages' = messages + 1
  /\ UNCHANGED << memory, queues, wire, pushed, closes >>

Asked(s) == pushed' = [pushed EXCEPT ![s] = @ \o BytesOf(sending.id, sending.len)]

\* t->sendBytes(stream)
PushShared(s) ==
  /\ sending.running /\ sending.multi
  /\ s \in sending.targets
  /\ queues' = [queues EXCEPT ![s] = push(@, Copied(sending.stream))]
  /\ sending' = [sending EXCEPT !.targets = @ \ {s}]
  /\ Asked(s)
  /\ UNCHANGED << memory, wire, messages, closes >>

\* t->send(message, opts)
PushOwn(s) ==
  /\ sending.running /\ ~sending.multi
  /\ s \in sending.targets
  /\ \E b \in Buffers \ Referenced(sending, queues) :
       /\ memory' = [memory EXCEPT ![b] = Fill(BytesOf(sending.id, sending.len))]
       /\ queues' = [queues EXCEPT ![s] = push(@, Encoded(b, sending.len))]
  /\ sending' = [sending EXCEPT !.targets = @ \ {s}]
  /\ Asked(s)
  /\ UNCHANGED << wire, messages, closes >>

\* send returns and its stream is destroyed.
Return ==
  /\ sending.running /\ sending.targets = {}
  /\ sending' = Idle
  /\ UNCHANGED << memory, queues, wire, pushed, messages, closes >>

\* A write of n bytes completes.
Transmit(s, n) ==
  /\ n <= Backlog(queues[s])
  /\ wire' = [wire EXCEPT ![s] = @ \o FirstBytes(View(queues[s]), n)]
  /\ queues' = [queues EXCEPT ![s] = consume(@, n)]
  /\ UNCHANGED << memory, sending, pushed, messages, closes >>

\* The session closes and is cleared for its next connection.
Close(s) ==
  /\ closes < MaxCloses
  /\ closes' = closes + 1
  /\ queues' = [queues EXCEPT ![s] = << >>]
  /\ wire' = [wire EXCEPT ![s] = << >>]
  /\ pushed' = [pushed EXCEPT ![s] = << >>]
  /\ UNCHANGED << memory, sending, messages >>

Next ==
  \/ \E targets \in SUBSET Sessions, len \in Lengths :
       BeginShared(targets, len) \/ BeginEach(targets, len)
  \/ Return
  \/ \E s \in Sessions : PushShared(s) \/ PushOwn(s) \/ Close(s)
  \/ \E s \in Sessions, n \in 1 .. (MaxMessages * Capacity) : Transmit(s, n)

Spec == Init /\ [][Next]_vars

-----------------------------------------------------------------------------
\* Cursor bounds (Stream.h:106, 112) and the counters.
TypeOK ==
  /\ \A s \in Sessions : \A i \in DOMAIN queues[s] : CursorsOK(View(queues[s])[i])
  /\ messages \in 0 .. MaxMessages
  /\ closes \in 0 .. MaxCloses

\* Each session writes exactly the messages it was asked to send, whole and in
\* order, although others read the same memory at another pace, join the send
\* when the message is half written elsewhere, or close (TCPSession.h:63-67).
SessionsIndependent ==
  \A s \in Sessions :
    wire[s] \o FirstBytes(View(queues[s]), Backlog(queues[s])) = pushed[s]
=============================================================================
