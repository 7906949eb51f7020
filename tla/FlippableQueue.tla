--------------------------- MODULE FlippableQueue ---------------------------
(***************************************************************************)
(* dk::OptimizedFlippableQueueT (LibraryBase/OptimizedFlippableQueue.h),   *)
(* the queue of TCPEventContext: two deques, one that the session threads  *)
(* push to and one that the dispatcher drains, exchanged by flip.          *)
(*                                                                         *)
(* push and flip hold m_lock; a critical section is several steps here, so *)
(* that the unlocked code runs in the middle of it: the dispatcher at work *)
(* on the deque flip returned, and empty(), which reads the other deque    *)
(* without the lock. An empty() that meets an emplace_back on its way is a *)
(* data race and may answer anything.                                      *)
(*                                                                         *)
(* The dispatcher itself (TCPEventListener::dispatch) is declared in       *)
(* TCPEventListener.h:41 and not in the repository. It is taken to be one  *)
(* thread per queue that looks, flips, and removes the events as it        *)
(* handles them.                                                           *)
(***************************************************************************)
EXTENDS Integers, Sequences

CONSTANTS
  Producers,     \* the threads that push
  MaxPushes      \* a bound on the events of one producer

ASSUME MaxPushesAssumption == MaxPushes \in Nat

Free == "free"                 \* m_lock is not held
Dispatcher == "dispatcher"     \* m_lock is held by the dispatcher

ASSUME ProducersAssumption == Free \notin Producers /\ Dispatcher \notin Producers

VARIABLES
  m_lock,        \* who holds the mutex
  m_pos,         \* the index of the deque that is pushed to
  m_queues,      \* the two deques
  pc,            \* where each producer is in push
  target,        \* the index of the deque its emplace_back works on
  pushed,        \* how many events each producer has pushed
  dispatcher,    \* where the dispatcher is
  flipped,       \* the index of the deque flip last returned
  handled        \* the events the dispatcher has handled

producerVars == << pc, target, pushed >>
vars == << m_lock, m_pos, m_queues, pc, target, pushed, dispatcher, flipped, handled >>

Event == Producers \X (1 .. MaxPushes)

\* A mutant of Other: the index is counted up and never wraps.
OtherNext(i) == i + 1

\* !m_pos
Other(i) == 1 - i

Init ==
  /\ m_lock = Free
  /\ m_pos = 0
  /\ m_queues = [i \in {0, 1} |-> << >>]
  /\ pc = [p \in Producers |-> "idle"]
  /\ target = [p \in Producers |-> 0]
  /\ pushed = [p \in Producers |-> 0]
  /\ dispatcher = "idle"
  /\ flipped = 1
  /\ handled = << >>

-----------------------------------------------------------------------------
(***************************************************************************)
(* push: lock, emplace_back on m_queues[m_pos], unlock.                    *)
(***************************************************************************)
PushLock(p) ==
  /\ pc[p] = "idle"
  /\ pushed[p] < MaxPushes
  /\ m_lock = Free
  /\ m_lock' = p
  /\ pc' = [pc EXCEPT ![p] = "writing"]
  /\ target' = [target EXCEPT ![p] = m_pos]
  /\ UNCHANGED << m_pos, m_queues, pushed, dispatcher, flipped, handled >>

PushStore(p) ==
  /\ pc[p] = "writing"
  /\ m_queues' = [m_queues EXCEPT ![target[p]] = Append(@, << p, pushed[p] + 1 >>)]
  /\ pushed' = [pushed EXCEPT ![p] = @ + 1]
  /\ pc' = [pc EXCEPT ![p] = "written"]
  /\ UNCHANGED << m_lock, m_pos, target, dispatcher, flipped, handled >>

PushUnlock(p) ==
  /\ pc[p] = "written"
  /\ m_lock' = Free
  /\ pc' = [pc EXCEPT ![p] = "idle"]
  /\ UNCHANGED << m_pos, m_queues, target, pushed, dispatcher, flipped, handled >>

-----------------------------------------------------------------------------
(***************************************************************************)
(* The dispatcher: empty, flip (lock, exchange, unlock), and its batch.    *)
(***************************************************************************)
\* A mutant of emptyAnswers: empty() looks at the deque the dispatcher drains.
emptyAnswersOther == {m_queues[Other(m_pos)] = << >>}

\* What empty() may answer now.
emptyAnswers ==
  IF \E p \in Producers : pc[p] = "writing" /\ target[p] = m_pos
  THEN BOOLEAN
  ELSE {m_queues[m_pos] = << >>}

Look ==
  /\ dispatcher = "idle"
  /\ \E empty \in emptyAnswers : dispatcher' = IF empty THEN "asleep" ELSE "flip"
  /\ UNCHANGED << m_lock, m_pos, m_queues, producerVars, flipped, handled >>

\* The dispatch interval passes (TCPEventListener.h:79).
Wake ==
  /\ dispatcher = "asleep"
  /\ dispatcher' = "idle"
  /\ UNCHANGED << m_lock, m_pos, m_queues, producerVars, flipped, handled >>

\* A mutant of FlipLock: flipWeak is called where flip should be.
FlipWithoutLock ==
  /\ dispatcher = "flip"
  /\ dispatcher' = "flipping"
  /\ UNCHANGED << m_lock, m_pos, m_queues, producerVars, flipped, handled >>

FlipLock ==
  /\ dispatcher = "flip"
  /\ m_lock = Free
  /\ m_lock' = Dispatcher
  /\ dispatcher' = "flipping"
  /\ UNCHANGED << m_pos, m_queues, producerVars, flipped, handled >>

\* A mutant of FlipStore: the deque returned is the one that is pushed to next.
FlipStoreReturnsNew ==
  /\ dispatcher = "flipping"
  /\ m_pos' = Other(m_pos)
  /\ flipped' = m_pos'
  /\ dispatcher' = "flipped"
  /\ UNCHANGED << m_lock, m_queues, producerVars, handled >>

FlipStore ==
  /\ dispatcher = "flipping"
  /\ m_pos' = Other(m_pos)
  /\ flipped' = Other(m_pos')
  /\ dispatcher' = "flipped"
  /\ UNCHANGED << m_lock, m_queues, producerVars, handled >>

FlipUnlock ==
  /\ dispatcher = "flipped"
  /\ m_lock' = Free
  /\ dispatcher' = "draining"
  /\ UNCHANGED << m_pos, m_queues, producerVars, flipped, handled >>

Handle ==
  /\ dispatcher = "draining"
  /\ m_queues[flipped] # << >>
  /\ handled' = Append(handled, Head(m_queues[flipped]))
  /\ m_queues' = [m_queues EXCEPT ![flipped] = Tail(@)]
  /\ UNCHANGED << m_lock, m_pos, producerVars, dispatcher, flipped >>

Drained ==
  /\ dispatcher = "draining"
  /\ m_queues[flipped] = << >>
  /\ dispatcher' = "idle"
  /\ UNCHANGED << m_lock, m_pos, m_queues, producerVars, flipped, handled >>

Push(p) == PushLock(p) \/ PushStore(p) \/ PushUnlock(p)

Dispatch ==
  Look \/ Wake \/ FlipLock \/ FlipStore \/ FlipUnlock \/ Handle \/ Drained

Next == (\E p \in Producers : Push(p)) \/ Dispatch

Spec == Init /\ [][Next]_vars

\* A thread inside push finishes it, and the dispatcher's thread runs. A mutex
\* promises nothing to a thread that never finds it free: the dispatcher gets it
\* because the pushes of the model end.
FairSpec ==
  /\ Spec
  /\ \A p \in Producers : WF_vars(PushStore(p) \/ PushUnlock(p))
  /\ WF_vars(Dispatch)

-----------------------------------------------------------------------------
ProducerStates == {"idle", "writing", "written"}
DispatcherStates == {"idle", "asleep", "flip", "flipping", "flipped", "draining"}

TypeOK ==
  /\ m_lock \in {Free, Dispatcher} \cup Producers
  /\ m_pos \in {0, 1}
  /\ m_queues \in [{0, 1} -> Seq(Event)]
  /\ pc \in [Producers -> ProducerStates]
  /\ target \in [Producers -> {0, 1}]
  /\ pushed \in [Producers -> Nat]
  /\ dispatcher \in DispatcherStates
  /\ flipped \in {0, 1}
  /\ handled \in Seq(Event)

\* No deque is used by two threads at once: the one a producer writes to is not
\* the one the dispatcher drains without a lock, and no two producers write
\* together (OptimizedFlippableQueue.h:19-45). The unlocked empty() is the
\* exception, and emptyAnswers says what it costs.
RaceFree ==
  /\ \A p \in Producers :
       pc[p] = "writing" /\ dispatcher = "draining" => target[p] # flipped
  /\ \A p, q \in Producers : pc[p] = "writing" /\ pc[q] = "writing" => p = q

\* Every event is handled once, in the order of the pushes, although it moves
\* from one thread to the other by nothing but an index that is exchanged.
Queue == INSTANCE EventQueue WITH
  waiting <- m_queues[m_pos], batch <- m_queues[Other(m_pos)], handled <- handled

ImplementsQueue == Queue!QueueSpec

\* An empty() that raced with a push, and answered wrong, delays an event and
\* never loses it.
EventuallyHandled ==
  \A p \in Producers, k \in 1 .. MaxPushes :
    pushed[p] >= k ~> \E i \in DOMAIN handled : handled[i] = << p, k >>
=============================================================================
