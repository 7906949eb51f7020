# Verification of DKLibrary

DKLibrary is a C++ networking library for Windows on boost::asio. It has two
parts of its own, `LibraryBase` (buffers, serialization, a two-deque event
queue, time, logging) and `LibraryNet` (send and receive queues, packet
encoding, sessions, listeners). `SpecialThx/flatbuffers-25.2.10` is vendored;
of its many tools the library uses the C++ runtime, with which messages are
built and read.
This directory models the part where the program's logic is: how a message is
laid out, how its bytes move through the queues and the socket to the message of
the other side, and how events move from the sessions to the handlers.

The repository is unfinished: `TCPSession.cpp`, `TCPService.cpp`,
`TCPAcceptor.cpp` and `TCPEventListener.cpp` do not exist, only their headers,
and some templates have never been instantiated: TCPAcceptor.h:44 and
TCPService.h:55 name a member `queue` of `TCPEventContext`, which is called
`m_EventQueue` (TCPEvent.h:41), and a constructor of `TCPSession` with four
arguments, which has three (TCPSession.h:51). They are read as what they must mean.
What those files would do is modelled as the *environment* of the code that
exists, as freely as the declarations allow, and is marked external in the map.

## 1. Inventory

| Component | State | Operations | Used by |
|---|---|---|---|
| `StreamBuf` (StreamBuf.h) | `m_buffer`, `m_size` | allocate/grow to a power of two, free | `Stream`, shared through a `shared_ptr` |
| `Stream` (Stream.h, StreamVerifier.cpp) | `m_read`, `m_written`, `m_buf` | write, read, peek, consume, commit, reset, copies that share the buffer, `<<` and `>>` | both queues, `Encoder`, messages |
| `RecvQueue` (RecvQueue.cpp) | deque of streams | prepare, buffers, commit, peek, pop, detachable, detach, clear | session (socket reads), `Encoder::decode` |
| `SendQueue` (SendQueue.cpp) | deque of streams | push (3 overloads), consume, clear | session (socket writes) |
| `Encoder`, `NullEncoder` (Encoder.cpp, TCPService.h) | the session pointer | encode, decode (validateSize, enough), accept/connect/close hooks | session |
| `OptimizedFlippableQueueT` (OptimizedFlippableQueue.h) | `m_lock`, `m_pos`, two deques | push, flip, the weak (unlocked) forms, empty | `TCPEventContext`: sessions push, one dispatcher flips |
| `TCPEventListener` (TCPEventListener.h) | handler map, event contexts, round-robin counter, stop flag | add/remove handler, getContext, dispatch | service, sessions |
| `TCPSession` (TCPSession.h) | socket, strand, both queues, encoder, flags | connect, send, multicast, close, lazyClose, asyncSend/onSent, asyncReceive/onReceived | service, acceptor, listener |
| `TCPService`, `TCPAcceptor` | io_context, workers, acceptors, listener sets | open, startServer, connectServer, close | the application |
| messages, handlers, options | — | serialize, deserialize, callbacks, flags | session, listener |
| flatbuffers runtime (flatbuffer_builder.h, vector_downward.h, table.h, vector.h, verifier.h) | one allocation: buffer and scratch pad; alignment, fields and vtables, string pool | CreateString, CreateSharedString, CreateVector, StartTable, AddElement, AddOffset, EndTable, Finish, Clear; field access in place; Verifier | `FBMessageAdaptorT` |
| `Time`, `SteadyTime`, `Date` | a time value | conversions, calendar arithmetic | logging, listener |
| `Utils`, `Logger`, `Singleton` | a log callback, a static pointer | formatting, logging | everywhere |

Interaction: a session encodes a message to a `Stream` and pushes it on its
`SendQueue`; io_context workers write to and read from the sockets and complete
with a number of bytes (`consume`, `commit`); `decode` turns the bytes of the
`RecvQueue` into streams; an event with the stream is pushed to the
`OptimizedFlippableQueueT` of the session's context; a dispatcher thread flips
that queue and calls the handlers. The body of a message may be a flatbuffer:
`FBMessageAdaptorT` builds it on one side, verifies it and reads it where it
lies on the other (TCPMessage.h:41-56).

What is hard, and what makes each component correct:

- **RecvQueue.** A deque of buffers is filled by a scatter read that ends
  anywhere, while `prepare` may append to it, and is read by calls that end
  anywhere. `front()` alone decides `detachable`. Correct: bytes come out in
  order, once, never uninitialised; front is where the next byte is; spare
  memory is bounded.
- **SendQueue.** A partial write ends inside a stream or spans several.
  Correct: the socket is given the bytes in order, each once.
- **Encoder.** Packets are split anywhere. Correct: the reader never loses the
  frame, a packet is detached only when it is all of a stream, there is always
  room to complete a packet, and every message arrives whole, in order, once.
- **OptimizedFlippableQueueT.** The dispatcher uses a deque without the lock
  and `empty()` reads the other one without it. Correct: no deque is in use by
  two threads, events are handled once and in order, none is forgotten.
- **TCPEventListener.** Workers and the application give sessions their
  contexts at the same time, several threads dispatch, and connections may be
  accepted before the listener is registered. Correct: a session's events are
  handled once and in order; none is lost; sessions are spread evenly.
- **flatbuffers.** Built backwards in memory that moves, with a second stack
  growing towards it; offsets count from the end, vtables and strings are written
  and taken back. The receiver may know another version of the schema, or get
  less than was sent. Correct: what was built is what is read, aligned and
  accepted by the verifier; nothing outside the bytes received is read.
- **Shared buffers.** A message to several sessions is one buffer behind a
  stream per session; sessions write, finish and close at their own pace.
  Correct: each writes the whole message.
- **Serialization.** Counts and contents come from the peer. Correct: a value
  comes back as it was written; a short or foreign stream throws or yields less,
  and yields nothing that is not in it.
- **Date, SteadyTime.** `m_day` may be out of range, and two clocks are read one
  after the other. Correct: the time of a date is exact, elapsed time never runs
  backwards.

The list of hazards, each at its line and with the properties aimed at it, is in
`PROJECT.json`; a hazard without a property says why there is none.

## 2. Plan

Order of the modules, the most important behaviour first:

1. done — `Stream`, `Sums`, `RecvQueue`, `RecvQueueSpec` ⟶ `ByteFifo`;
   `SendQueue`, `SendQueueSpec` ⟶ `ByteFifo`; `Encoder`, `Link` ⟶
   `MessageChannel`; `FlippableQueue` ⟶ `EventQueue` (⟶ reads "implements").
   Proofs: all invariants of the runs and all four refinements.
2. done — `Multicast` (sessions that share a buffer), `Serialization`,
   `SerializationSpec` (`<<` and `>>` on whole, cut and foreign streams),
   `Calendar` (Date) and `Clocks` (Time, SteadyTime). Proofs: everything about
   `Multicast`, `Calendar` and `Clocks`.
3. done — `EventListener`: contexts, round robin, the order of registration in
   startServer and connectServer, several dispatchers, each draining what
   `EventQueue` promises. Proofs: types, order, an even spread.
4. done — `VectorDownward`, `FlatBufferBuilder`, `FlatBufferAccess`,
   `FlatBufferReader`, `FlatBufferSpec`, `FlatBuffers`: what the messages of the
   library use of flatbuffers, from the allocation to the verifier. Proofs: what
   the builder does to its memory, and that every string, vector and table reads
   back (`FlatBufferProofs`).
5. `lazyClose`, reconnect and pending messages of `TCPSession`, and the
   handlers and the shutdown of `TCPEventListener`, once their bodies exist: the
   declarations do not say what they promise.
6. Proofs still to be had: that the verifier accepts a finished message (a
   statement about its steps for one object, as `ObjectsReadBack` is one about the
   reader's); that `Link` with the `ByteFifo`s in place of the queues still
   implements `MessageChannel`.

## 3. The modules and the code

**Stream.** A stream is `[cells, m_read, m_written]`; `cells` is the StreamBuf
(`Len(cells)` is `getAllocSize()`), and a cell that nobody has written holds
`Uninit`. `NewStream`, `StreamWrite`, `StreamSkip`, `StreamCommit`,
`StreamConsume`, `StreamReset`, `VerifyWritable` are the methods of the same
names; `nextPow2` is the exact power of two, which the float computation of
StreamBuf.h:47 yields for every size that memory can hold. `CursorsOK` gathers
the cursor assertions of Stream.h:86, 106 and 112. Bytes are never inspected,
so each user chooses what a byte is.

**Sums.** The loops of RecvQueue.cpp and SendQueue.cpp walk a deque and count a
size down. `StopAt(sizes, n)` is the stream such a loop stops in, `SumTo` what
the streams before it took.

**RecvQueue / RecvQueueSpec.** `RecvQueue` has one operator per method.
`RecvQueueSpec` lets a session make every legal call in any order; a socket
read is two steps, `StartReceive` (buffers handed out) and `CompleteReceive`
(socket stores `n` bytes, `commit(n)`), with `Prepare` and `Peek` possible in
between. `Pop`, `Detach` and `Clear` wait for the read to complete, as they
would move or free memory the socket owns. Bytes are numbered in order of
arrival. Legal means within the method's assertion (RecvQueue.cpp:66, 85).

**ByteFifo.** What both queues promise: numbered bytes come out in order. How
many a call of `pop` takes is left open here; that it is as many as the caller
asked for shows in `Link`, where a wrong count loses the frame.

**SendQueue / SendQueueSpec.** `push` (three overloads) and `consume`; `buffers`
is declared without a body and is modelled by the bytes it has to hand over.

**Encoder.** `encode` builds `size | header | number | body`, with the header
left uninitialised as `NullEncoder` leaves it. `decode` is the whole function:
too few bytes, the throw, room for the rest (`MakeRoom`, `enough`), the packet
that is detached, the packet that is copied. A size field is a tagged value, and
any other bytes read as a size are worth 0, which decode rejects, so a reader
that is off by a byte is always noticed.

**Link / MessageChannel.** One direction of a connection, `encode` to `decode`.
`Transmit` and `Receive` move any number of bytes; `Disconnect` breaks the
connection anywhere and clears both sides. `MessageChannel` is the promise:
whole messages, once, in order, lost only when the connection breaks. The
refinement mapping takes the messages sent and not yet decoded as the channel.

**FlippableQueue / EventQueue.** `push` is lock, store, unlock; `flip` is lock,
exchange, unlock; `empty()` is a read without the lock, which may answer
anything while an `emplace_back` on that deque is running (a data race). The
dispatcher handles what flip returned without a lock, one event a step.
`EventQueue` says that a batch is taken and handled in order; the mapping is
`m_queues[m_pos]` for what waits and the other deque for the batch.

**EventListener.** Both listeners, the calls that share one, and the sessions
acceptors make. `getContext` is two steps, the atomic `pos++` (`TakePos`) and the
indexing (`MakeSession`), so that workers (`Accept`, `CreateAccepted`) and the
application (`StartConnect`, `Connect`) overlap in it. `startServer` and
`connectServer` end with `addEventListener` as a step of its own: sessions may
push events before it. An event is the number it has among those of its session;
`PushEvent` and `Close` append it to the queue of the session's context, and
`TakeBatch` and `HandleNext` are the dispatcher of that context, which a
synchronous listener has only once it is registered. A queue is the one of
`EventQueue`, which `FlippableQueue` is shown to implement.

**VectorDownward.** `vector_downward` as a record of the allocation and the
distances of `cur_` and `scratch_` from its start. `reallocate` rounds to the
alignment and copies both ends (`memcpy_downward`); what is not copied is
`Uninit`, which is no byte, so one that is used without having been written shows.

**FlatBufferBuilder.** One operator per method of `FlatBufferBuilder` that the
library's messages reach: a string, a shared string (written, looked up in the
pool and taken back), vectors of scalars and of offsets, tables. The fields of a
table and the known vtables are kept as bytes in the scratch pad, as in the code,
and `EndTable` writes the vtable, looks for one with the same bytes, and takes its
own back if there is one. `EndTable` takes the FieldLocs before the vtable makes
the allocation grow, the code reads them after; a growth copies the scratch pad.
`Finish` aligns the whole and writes the root. A scalar is a sequence of bytes, and
a default is left out when it is equal to the value; `IsTheSameAs` compares numbers,
so it takes 0.0 and -0.0 for the same, which is not modelled.

**FlatBufferAccess / FlatBufferReader.** Positions and bytes. `FlatBufferAccess`
has the steps of a reader, from a table to its vtable and to a field
(`GetOptionalFieldOffset`). `FlatBufferReader` adds the accessors that follow
them (`Stored`, `Pointed`), which give `Wild` for a read outside the buffer, and
the verifier with the `Verify` function that the generator writes for each table.
A schema is a constant, so that the two ends can have different ones.

**FlatBufferSpec / FlatBuffers.** `FlatBufferSpec` is a program that builds
messages in any order the builder's assertions allow and uses the builder again.
It remembers the value of every object. It states where the pads are, that all
bytes are written and stay, and that objects read back one step deep
(`ObjectsReadBack`): each element of a vector and each field of a table is the
scalar that was given, or an offset that leads to an object of the type and the
value that was given, for which the same is stated. `FlatBuffers` adds the reader
that goes all the way, of this or another schema, and the verifier, and states
that a finished message arrives. The two are separate because that reader is
recursive over types.

**Multicast.** `send(message, opts, targets)` and `sendMulticast`
(TCPSession.h:59-87). Here a stream is a buffer address and two cursors
and `memory` is what the addresses hold. A buffer may be handed out again when no
stream refers to it (`Referenced`): `StreamBufPtr` is a `shared_ptr`, and that it
counts right is the standard library's affair and is assumed. The queues
are those of `SendQueue`, seen through `View`. A send to several targets is one
step per target, so a session can have written its copy, or closed, before the
next one is given its own. `PushShared` is `sendBytes(stream)`, `PushOwn` is
`send(message, opts)` for a session that encodes for itself.

**Serialization / SerializationSpec.** A type is a record and `Written(type,
value)` the set of byte sequences `<<` may produce (a hash map is visited in any
order); `Read(stream, type)` is `>>`: whether it threw, where the stream was left
and what the variable holds, `Blank` where nothing was assigned before a throw.
`SerializationSpec` writes a value, keeps a prefix of it at will, and reads, not
necessarily with the type it was written as. What a stream of another type, or a
second read, leaves behind after a throw is not looked at, beyond its length.

**Calendar.** A history of `daysAfter`, conversions through `time_t` and `today`
on one date; `mktime` and `localtime_s` are the C library's, with a time zone and
summer time. `today()` adds no days to a default `Date` (Date.h:49-52), so it is
always the first of January 1970; no comment or test says otherwise, so no
property does.

**Clocks.** A `SteadyTime` made of a `Time`, converted back, and asked for the
elapsed time. Each conversion reads two clocks in two steps (the order in the
constructor is the compiler's), with `Tick` and `SetClock` possible in between.
The clocks have ticks of their own (1 ns and 100 ns in Microsoft's library):
the system clock shows every `PERIOD`th tick of the steady one, and
`duration_cast` rounds towards zero where the code or `system_clock::to_time_t`
cuts, in `to_time_t` to the system clock's ticks and then to seconds. Because of
the first, a time to come can be given back a second early although nobody has
set a clock and hardly any time has passed: `ComesBack` allows for less than two
ticks of the system clock beyond the time spent, and no less is true.

## 4. Runs

| Run | Checks | Shows |
|---|---|---|
| `recv_queue` | `TypeOK`, `Packed`, `FrontReadable`, `SpareBounded`, `ImplementsFifo` | a RecvQueue is a FIFO of bytes under every order of legal calls; its deque is always filled and read from the front; prepare adds no more than is missing |
| `send_queue` | `TypeOK`, `ConsumeAssertionHolds`, `ImplementsFifo` | a SendQueue is a FIFO of bytes, for every split into writes |
| `send_queue_empty` | `ConsumeAssertionHolds`, violated | the assertion of SendQueue.cpp:32 fails when an empty string or stream has been pushed ahead of other data: push accepts it and consume meets a readable size of 0. In a release build the loop removes the empty stream and goes on |
| `link` | `TypeOK`, `NeverThrows`, `RoomForTheRest`, `ImplementsChannel`, `EventuallyDelivered` | framing survives every split of the bytes and a connection that breaks half way, and no split leaves a message waiting in a queue for ever |
| `flippable_queue` | `TypeOK`, `RaceFree`, `ImplementsQueue`, `EventuallyHandled` | no deque is used by two threads; events once and in order; a wrong answer of `empty()` delays an event and never loses it |
| `serialization` | `RoundTrip`, `NothingInvented`, `HalfReadIsPart`, `ReadsBounded` | nested types come back as written; from a stream that is cut short a read returns nothing that was not written, and one that throws leaves pieces of what was written, with no half entry in a map; whatever is read as whatever else, no sequence gets more elements than there were bytes (a count of elements, for the outermost sequence), and the cursors stay in bounds |
| `multicast` | `TypeOK`, `SessionsIndependent` | sessions that share a buffer do not notice each other, also when it is used again |
| `calendar` | `TimeExact`, `OrderAgrees`, `ThroughTimeRepairs` | days that are out of range do not distort the time of a date, and a conversion repairs them |
| `calendar_days_after` | `DaysAfterIsDate`, violated | the comment of Date.h:42 says that days are added to a date, but January 31 and one day is January 32 |
| `flatbuffers` | `TypeOK`, `BytesWritten`, `BytesStay`, `ObjectsReadBack`, `VTablesShared`, `FinishedInPlace`, `FinishedMessageArrives`, `CutMessageIsRejected` | the two ends of the allocation never meet, a message has no byte nobody wrote, and what is built is neither moved nor changed by what follows; every object reads as it was written whatever is built after it; tables of one layout share a vtable; a finished message begins with the way to its root, is aligned from its first byte, accepted by the verifier and read as it was built, by receivers of the same, an older and a newer schema; a message that lost its end is rejected or reads the same |
| `event_listener` | `SessionsSpread`, `HandledInOrder`, `EventuallyHandled` | a session's events are handled once and in order; sessions are spread evenly although several threads ask for contexts; events that precede the registration are handled |
| `clocks` | `ComesBack`, `ElapsedGrows` | setting the system clock does not disturb a SteadyTime; a conversion there and back is off by the time spent reading the clocks and less than two ticks of the system clock, and so possibly by a second |

Each property of a passing run is shown to depend on the code by a mutant, the
definition with the comment "A mutant of ..." next to the one it replaces.

### Bounds

- `recv_queue`: default buffers of 2 cells and requests of 1 and 3 (a buffer of
  4), 7 bytes. Seven bytes fill three streams, so there are queues with a front
  stream partly read, a full one in the middle and a free one behind, and reads
  that end in each of them. The two capacities separate the stream that is
  rewound from the one that is erased.
- `send_queue`: chunks of 1 and 3 bytes, 7 bytes; streams with and without spare
  room. `send_queue_empty` adds chunks of 0.
- `link`: size field 2, number 1, header 1, a default buffer of 8, bodies of 0, 2
  and 6: two small packets fill a default buffer exactly, a packet with body 2
  ends inside the next one, and the one with body 6 (10 cells) needs a buffer of
  its own. Three messages, one broken connection, a sender that reserves
  nothing. `UINT32_MAX` 10 is above the largest packet: messages that do not fit
  the size field are excluded by `LinkAssumption`.
- `event_listener`: two sessions that are accepted and one that connects, two
  events each, on the synchronous listener and on one with two threads. Three
  sessions on two contexts share one of them, and an uneven turn shows.
- `flatbuffers`: the first allocation has 8 bytes, so that it grows several times
  in each message, in the middle of tables and of vtables; scalars of one and of
  eight bytes, so that objects differ in alignment; four objects, which is a table
  that refers to two others, a vector of two tables, or a message after another.
  One string of four bytes that begins with 0; strings that are equal are what
  the pool is about. The schemas are the sender's, one without the last field of
  a table and the last two of the message, and one with a field more in each.
  Every length of a message that was cut is tried. `ObjectsAssumption` says that
  strings and scalars consist of bytes, a scalar of 1, 2, 4 or 8, that the length
  of a string fits its field, and that a table has no more fields than the length of its vtable can say.
- `flippable_queue`: three producers with two events each, so that two wait for
  the lock while one holds it, and both deques are used again.
- `serialization`: two byte values and counts of two bytes, containers of up to
  two elements, eight types with up to two levels of nesting, every prefix of
  every stream, two reads of any type. Two reads show what the first left. Lengths
  that do not fit the count field are excluded by `SerializationSpecAssumption`.
  The types exclude sequences whose elements occupy no bytes (a vector of
  `HEARTBEAT_PONG`): for these the clipping of Stream.h:199 loses elements even of
  a whole stream, and `RoundTrip` does not hold.
- `multicast`: two sessions, three buffers for three messages of two lengths, one
  close: buffers are used again while a send is half done. While streams refer to
  all three, the next message waits for one.
- `calendar`: seven starting dates (ends of months and years, leap days, the
  epoch), steps of -30 to 31 days, 62 days either way: two month ends in either
  direction. A zone nine hours ahead, summer time from April to September. Time is
  counted in hours. A history stays below the last year (`StartsAssumption`).
- `clocks`: a second has two ticks of the system clock and four of the steady
  one, so each of the two casts can lose something; five steady ticks, a clock set
  forwards and backwards, times before the epoch, within reach and to come.

`SIZE_LEN`, `HEADER_LEN`, buffer sizes and the number of threads are constants,
so the instances only choose small values for what the code fixes at 4, 1, 4096
and so on.

### Fairness

`link` assumes weak fairness of a transfer in either direction or a decode being
possible (`CanMove`), taken together and with the step left open: the io_context
workers run every completion handler, and a read and a write are outstanding as
long as there is something to transfer. Which amount is transferred is left open.
Nothing is assumed of `Send` and `Disconnect`.
`event_listener` assumes that the application's thread finishes the call it is
in, and that the dispatcher of each context runs. It assumes nothing of peers,
nor that the application calls anything.
`flippable_queue` assumes that a thread inside `push` goes on and that the
dispatcher's thread is scheduled. Fair locking is not assumed: the dispatcher
gets the mutex because the producers of the instance stop in the end.

## 5. Proofs

Every invariant and every action or refinement property that the runs check is
also proved, for all values of the constants, with the exceptions at the end of
this section. One type invariant, `TypeOK` of `EventListener`, is proved and in no
run.

`QueueProofs` holds what the rest is built from: lemmas on `SumTo` and `StopAt`
(running totals grow, every byte has one place in them), on `Stream` (the
allocated size is at least the requested one, each method keeps the cursors in
bounds) and on the methods of both queues, whatever their bytes are (`Data`).
The lemmas reason about `Bytes(q)`, what a reader gets from `q` from the first
byte to the last: `push` and a completed read append to it, `consume` and `pop`
take from its front, `prepare` leaves it alone, wherever in a stream the
call ends. Two notions of a good queue carry this: `SoundQueue` (cursors in
bounds, no uninitialised cell between them), which both queues keep, and
`GoodQueue` (packed as well), which is the one of a RecvQueue.

- `RecvQueueProofs!TypeCorrect`, `AlwaysPacked`, `FrontAlwaysReadable`: `TypeOK`,
  `Packed` and `FrontReadable` of `RecvQueueSpec` for every buffer size, every
  set of request sizes and every number of bytes. `TypeOK` is not inductive: that
  `peek` never returns uninitialised memory needs `WrittenBytes` (the cells below
  `m_written` hold bytes), and that a completed read fits the queue needs
  `FreshBuffers` (the buffers handed out are still the free memory of the first
  streams, whatever `prepare` has appended since). `CompleteGood` is the central
  lemma: the cells the socket stored to are exactly those that `commit` claims.
  `FrontReadable` follows from `Packed`: an empty front stream was never written
  to, so it has room, so nothing behind it was written to.
- `RecvQueueProofs!Refinement`: `ImplementsFifo`. The mapping is `Contents` of the
  queue. A completed read is the step that takes work: the socket fills the free
  memory of several streams in the order of the buffers, and that this appends to
  what a reader gets needs the packing, since a full stream in front of a free
  one would otherwise have bytes slipped in between.
- `RecvQueueProofs!SpareAlwaysBounded`: `SpareBounded`, assuming
  `Requests # {}`, a session that reads at all: the bound is stated with the
  largest request, which no request has without it.
- `SendQueueProofs!TypeCorrect`, `AssertionHolds`, `Refinement`: `TypeOK`,
  `ConsumeAssertionHolds` and `ImplementsFifo` of `SendQueueSpec` for any sizes
  pushed, any spare room in a pushed buffer and any split of the backlog into
  writes. The invariant says that between the cursors of a stream there are only
  bytes that were pushed; `TypeOK` alone would let the socket be given what an
  unwritten cell holds. `AssertionHolds` assumes that no push is empty, and no
  more is true: `send_queue_empty` is the counterexample. `Refinement` does not
  assume it: an empty stream breaks the assertion and not the order of the bytes.
- `LinkProofs!TypeCorrect`, `FrameNeverLost`, `RestFits`, `Refinement`: `TypeOK`,
  `NeverThrows`, `RoomForTheRest` and `ImplementsChannel` of `Link`, for fields and
  buffers of any size, any bodies that fit the size field, any reserve, and every
  split of the bytes on both sides. None of it is inductive. The invariant is
  `Conserved`, one equation: what the receiving queue shows, then the wire, then
  what the sending queue shows, are the packets of the messages sent and not yet
  delivered, and nothing else. That holds whatever a transfer takes, because
  concatenation can be regrouped. From it, the head of the receiving queue is the
  beginning of a packet: what decode reads as a size is the size field of that
  packet (`FrameNeverLost`), and the bytes it takes are that packet, both when the
  front stream is detached and when it is copied (`Refinement`). `RestFits` follows
  from what `prepare` guarantees. The header of a packet travels
  uninitialised, so `Uninit` is among the values a byte on the wire may have.
- `MulticastProofs!TypeCorrect`, `SessionsKeptApart`: `TypeOK` and
  `SessionsIndependent` of `Multicast`, for any sessions, buffers and lengths. The
  invariant is per session, over the memory it shares: what it wrote, followed by
  what its queue shows *in memory*, is what it was asked to send. `CallOK` says of
  the stream that a send to several sessions still holds that it still is the whole
  message: without it the next target could be given what an earlier one left. A
  new message goes where no stream looks, which is what the `shared_ptr` of a
  buffer is assumed to guarantee, so no session's view moves (`FreshBuffer`,
  `SeenKept`).
- `LibraryBaseProofs!TimeAlwaysExact`, `OrderAlwaysAgrees`,
  `ThroughTimeAlwaysRepairs`: `TimeExact`, `OrderAgrees` and
  `ThroughTimeRepairs` of `Calendar`, for every time zone, summer time, length of
  an hour and history of calls. The invariant is one count: the number of the day
  that a date stands for is that of the date the history began with and the days
  added, whether its `m_day` is in the month or not. `daysAfter` keeps it because
  `DayNumber` is linear in the day, a conversion because the calendar partitions
  the days: every day number has one year and one month it falls into
  (`FirstOf` grows strictly along months and years, leap years included), so the
  CHOOSEs of `tmOf` are determined, and summer time does not carry midnight
  into another day. So a conversion leaves a day of the month it names
  (`ThroughTimeRepairs`).
- `LibraryBaseProofs!ComesBackAlways`, `ElapsedAlwaysGrows`: `ComesBack` and
  `ElapsedGrows` of `Clocks`, for every resolution, every setting of the clock and
  every pause between the two readings. The invariant bounds where the point of a
  SteadyTime may lie, on either side by the time that making it took and, because
  the system clock is read in coarser ticks, by less than one of them (`PointOK`),
  and keeps for what was shown last the value before it was cut to seconds
  (`ShownOK`), which may have lost another tick in the cast of `difference()`
  (`CastLoses`). That cutting towards zero keeps the bounds in order is
  `CastMonotone`, and that cutting to ticks and then to seconds is cutting once,
  `CastScaled`.
- `LibraryBaseProofs!DequesTypeCorrect`, `DequesNotShared`, `QueueImplemented`:
  `TypeOK`, `RaceFree` and `ImplementsQueue` of `FlippableQueue` for any set of
  producers and any number of pushes. The invariant adds who is in a critical
  section while `m_lock` is held, that a writer's `target` is still `m_pos`, and
  that the deque the next flip exposes to producers is empty by then.
- `FlatBufferProofs!PadsNeverMeet`, `BytesAlwaysWritten`, `StringsAlwaysReadBack`,
  `BytesAlwaysStay`: `TypeOK`, `BytesWritten`, `StringsReadBack` and `BytesStay` of
  `FlatBufferSpec`, for every schema, every content, every first size and
  alignment of the allocation, in any order of calls. A byte is
  named by its distance from the end, which growth does not change (`FromEnd`).
  Every method of the builder leaves the buffer as the end of a longer one whose
  new bytes have been written (`Extended`), and says what it does to the scratch
  pad (`Grew`). The methods that go back are where that is not obvious:
  `CreateSharedString` takes back a string, `EndTable` a vtable, and `EndTable`
  writes into the table after the vtable behind it has come and gone; each is
  shown to stay in front of what was there before the call. What the invariant
  `BuildInv` has to say beyond the properties: the scratch pad is vtable offsets,
  whole and written, with `num_field_loc` FieldLocs above them while a table is
  built and none otherwise (`PadOK`, `FieldsOK`), because a FieldLoc has two bytes
  that nobody writes and they would reach a vtable offset if the pad were popped
  by too little; and that every offset in the pool is a string (`PoolOK`).
- `FlatBufferProofs!ObjectsAlwaysReadBack`, `VTablesAlwaysShared`,
  `FinishedRootFound`: `ObjectsReadBack`, `VTablesShared` and `RootFound`, the
  first half of `FinishedInPlace`, for every schema, in every buffer of less than 2^31 - 1 bytes (the assertion of
  vector_downward.h:146; nothing is said of a release build that goes on after it,
  whose offsets may not fit 32 bits). The property says how a reader finds an
  object, by numbers it reads in the buffer; the invariant `ReadInv` says where the
  object lies, by distances from the end, which nothing that follows changes
  (`Holds`). It relates three things that the builder keeps apart: what the
  program was told (`objects`, `building`), what lies in the buffer, and what the
  scratch pad remembers. While a table is built, the FieldLocs name, for each
  field that was added and for no other, the place where its scalar or its offset
  lies (`FieldsLie`, `PadHolds`); the offsets of vtables below them are those
  that tables refer to (`Remembers`), and no two vtables have the same bytes
  (`VTablesOK`).
  `EndTable` is where these meet: the vtable it writes has, for each FieldLoc, the
  distance from the table to the field, and 0 for every other field
  (`VTableSays`), since no two FieldLocs have one field; that a distance fits a
  voffset_t is the assertion of flatbuffer_builder.h:439. If the search finds a
  vtable, it has the same bytes, so it says the same of this table; if it does
  not, the new one differs from all that are remembered, and is remembered. Either
  way the offset that the table was begun with is overwritten, and nothing else
  before it. `RootHolds` is the same for `Finish`: alignment is computed before
  the root offset is written, so the offset is what a message begins with.
- `FlatBufferProofs!FinishedAligned`, `FinishedAlwaysInPlace`: `MessageAligned`, and
  with it `FinishedInPlace`. A builder aligns from the end of the allocation, the
  only place it knows; a reader counts from the first byte. `ReadInv` has that each
  slot is at a multiple of its size from the end (`SlotHolds`). The invariant
  `AlignInv` adds what `minalign` knows: it is one of the sizes a scalar can have,
  and not less than the size of any scalar that is stored, in a finished object or
  in the table that is being built (`Fits`, `ScalarsFit`), nor than an offset.
  `Finish` makes the size of the message a multiple of it; each of these sizes
  divides every larger one, so the distance from the front is a multiple as well.
  A scalar that equals its default is not stored and asks for no alignment, which
  is why `Fits` and `MessageAligned` leave it out.

- `EventListenerProofs!TypeCorrect`, `InOrder`: `TypeOK` and `HandledInOrder` for
  any sessions, numbers of threads and of events. The invariant `IInv` says what a context has to handle, the rest
  of the batch followed by what waits (`queue`): only events of sessions that were
  given this context (`Own`), each pushed and not handled (`Numbered`), those of
  one session in ascending order (`Ordered`), and none missing (`Complete`).
  `TypeOK` alone says nothing of a queue. `HeadIsNext` is the central lemma: the
  event at the head is the next of its session, because `Complete` puts a smaller
  one into the same queue and `Ordered` puts it in front.
- `EventListenerProofs!SpreadAlways`: `SessionsSpread`. The invariant `SpreadInv`
  says that the values of the counter up to `pos` have been taken, each by one
  session, also by those whose `getContext` has not returned (`Numbering`), and
  that a session has the context its value stands for. The rest is arithmetic:
  among the numbers below `pos` two remainders differ by one at most
  (`SpreadEvenly`).

Assumptions are those the modules name: sizes are natural numbers, buffer sizes
positive, a message fits the size field and a buffer, a scalar has 1, 2, 4 or
8 bytes, a table has at most 32765 fields (the vtable of one more has
65536 bytes, which its own length, a voffset_t, does not hold), and the names
`Free` and `Dispatcher` are no producers. Two theorems have a hypothesis of their own, given
above.

Model-checked only:

- `Serialization`, and of `FlatBuffers` what needs the whole reader and the
  verifier (`FinishedMessageArrives`, `CutMessageIsRejected`): they are recursive
  over types, and the prover handles no module that declares a recursive operator.
  What such a definition computes for every input would need an induction over
  data besides. That a value read through all its levels is the one written
  follows from `ObjectsReadBack` by induction on the depth of the value, for a
  reader of the sender's schema; that last step is not machine-checked.
- Liveness (`EventuallyDelivered`, and `EventuallyHandled` of the queue and of the
  listener), which the prover does not treat.

The lemmas on `SumTo` and `nextPow2` reason about a recursive function through
its defining equation and an induction on a set of natural numbers.

## 6. Not modelled

- Everything in the plan above that is not marked done.
- Bodies that are not in the repository (`TCPSession.cpp`, `TCPService.cpp`,
  `TCPAcceptor.cpp`, `TCPEventListener.cpp`), beyond the environment described.
- `pop(0)`, `commit(0)` and `consume` of more than the backlog: the first two do
  nothing to the bytes, the last breaks the assertion of SendQueue.cpp:29.
- Failing allocation.
- `Date::fromDateString`, which calls itself without end (Date.h:36-41); the text
  formats of `Time` and `Date`; `Time(time_point)`, which constructs a temporary
  and leaves its own time 0 (KTime.cpp:21-24).
- `Logger`, `Utils`, `Singleton`: no behaviour a property could be about, or
  pure formatting. The handler templates of TCPMessageHandler.h forward to a
  callback.
- The handler map of `TCPEventListener`, which dispatchers read without a lock:
  nothing in the repository says when handlers may be added or removed. The
  shutdown (`m_Stop`, the destructors) has no body. A listener without threads,
  whose `getContext` divides by zero, is excluded by `ListenerAssumption`.
- A message of 2^32 bytes or more, and `size + 4` of Encoder.cpp:79 in 32 bits: no
  code or comment says what should happen, and no sender in the models has such a
  message.
- Of the flatbuffers runtime: structs, unions, enums, 64-bit offsets, sorted
  vectors and keys, nested and size-prefixed buffers, file identifiers, `Release`,
  the limits on depth and number of tables of the verifier.
- The rest of flatbuffers — the schema parser, the generators for a dozen
  languages, reflection, flexbuffers, gRPC, their tests — which is most of the
  repository's lines and which the library never calls. The modules cover the
  library's own code; of the repository as a whole that is a small share.
