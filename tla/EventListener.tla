--------------------------- MODULE EventListener ----------------------------
(***************************************************************************)
(* The way of an event from a session to the handlers of a listener:       *)
(* TCPAsyncEventListener and TCPSyncEventListener (TCPEventListener.h),    *)
(* the start of servers and connections that share one listener            *)
(* (TCPService.h:43-60) and the sessions an acceptor makes                 *)
(* (TCPAcceptor.h:42-45).                                                  *)
(*                                                                         *)
(* A session is given the queue of one context for life. The contexts of   *)
(* an asynchronous listener have a dispatcher thread each, running since   *)
(* the constructor; the one context of a synchronous listener is drained   *)
(* by TCPService::run, for a listener that has been added. The queue of a  *)
(* context is what EventQueue promises and FlippableQueue implements.      *)
(*                                                                         *)
(* Bodies that are not in the repository (the session's events, the        *)
(* dispatcher, addEventListener) are taken from their declarations.        *)
(***************************************************************************)
EXTENDS Integers, Sequences, FiniteSets

CONSTANTS
  Inbound,       \* the sessions that acceptors make
  Outbound,      \* the sessions that connectServer makes
  ThreadNums,    \* the numbers of threads an asynchronous listener may have
  MaxEvents      \* a bound on the events of one session

Session == Inbound \cup Outbound

None == -1     \* no context yet

\* A listener without threads has no context to give (TCPEventListener.h:88
\* divides by their number): it cannot be used and is excluded.
ASSUME ListenerAssumption ==
  /\ ThreadNums \subseteq Nat \ {0}
  /\ MaxEvents \in Nat
  /\ Inbound \cap Outbound = {}
  /\ {"idle", "register"} \cap Outbound = {}

VARIABLES
  listener,      \* which kind of listener it is and the number of its contexts
  pos,           \* the atomic counter of getContext
  ticket,        \* what a session's call of getContext has read of it
  context,       \* the context whose queue a session has been given
  phase,         \* where a session is
  pushed,        \* how many events a session has pushed
  waiting,       \* the queue of each context
  batch,         \* what is left of the batch each dispatcher has taken
  seen,          \* how many events of a session have been handled
  accepting,     \* whether an acceptor of the listener has been started
  registered,    \* whether the listener is in one of the service's sets
  app            \* where the application's thread is: in a call or idle

sessionVars == << ticket, context, phase, pushed >>
queueVars == << waiting, batch, seen >>
serviceVars == << accepting, registered, app >>
vars == << listener, pos, sessionVars, queueVars, serviceVars >>

Context == 0 .. listener.size - 1

\* The contexts a listener may have.
Contexts == {0} \cup UNION {0 .. n - 1 : n \in ThreadNums}

AppStates == {"idle", "register"} \cup Outbound

Init ==
  /\ listener \in {[isAsync |-> TRUE, size |-> n] : n \in ThreadNums}
                    \cup {[isAsync |-> FALSE, size |-> 1]}
  /\ pos = 0
  /\ ticket = [s \in Session |-> 0]
  /\ context = [s \in Session |-> None]
  /\ phase = [s \in Session |-> "new"]
  /\ pushed = [s \in Session |-> 0]
  /\ waiting = [c \in Context |-> << >>]
  /\ batch = [c \in Context |-> << >>]
  /\ seen = [s \in Session |-> 0]
  /\ accepting = FALSE
  /\ registered = FALSE
  /\ app = "idle"

-----------------------------------------------------------------------------
(***************************************************************************)
(* getContext, in its two halves: the atomic pos++ and the indexing. The   *)
(* synchronous listener's always returns its one context.                  *)
(***************************************************************************)
TakePos(s) ==
  /\ phase[s] = "new"
  /\ phase' = [phase EXCEPT ![s] = "placing"]
  /\ pos' = IF listener.isAsync THEN pos + 1 ELSE pos
  /\ ticket' = [ticket EXCEPT ![s] = pos]
  /\ UNCHANGED << listener, context, pushed, queueVars >>

\* A mutant of contextOf: pos is incremented first and read again.
contextOfRead(s) == IF listener.isAsync THEN pos % listener.size ELSE 0

contextOf(s) == IF listener.isAsync THEN ticket[s] % listener.size ELSE 0

\* The session is made with the queue, and accepts or connects.
MakeSession(s) ==
  /\ phase[s] = "placing"
  /\ phase' = [phase EXCEPT ![s] = "open"]
  /\ context' = [context EXCEPT ![s] = contextOf(s)]
  /\ UNCHANGED << listener, pos, ticket, pushed, queueVars, accepting, registered >>

\* createSession, on a worker thread, for the next connection to accept.
Accept(s) ==
  /\ s \in Inbound
  /\ accepting
  /\ TakePos(s)
  /\ UNCHANGED serviceVars

CreateAccepted(s) ==
  /\ s \in Inbound
  /\ MakeSession(s)
  /\ UNCHANGED app

-----------------------------------------------------------------------------
(***************************************************************************)
(* The application's thread: startServer and connectServer, which end with *)
(* addEventListener.                                                       *)
(***************************************************************************)
\* acceptor->start(), m_Acceptors.emplace_back(acceptor)
StartServer ==
  /\ app = "idle"
  /\ ~accepting
  /\ accepting' = TRUE
  /\ app' = "register"
  /\ UNCHANGED << listener, pos, sessionVars, queueVars, registered >>

StartConnect(s) ==
  /\ s \in Outbound
  /\ app = "idle"
  /\ TakePos(s)
  /\ app' = s
  /\ UNCHANGED << accepting, registered >>

\* A mutant of Connect: connectServer leaves the listener unregistered.
ConnectUnregistered(s) ==
  /\ app = s
  /\ MakeSession(s)
  /\ app' = "idle"

Connect(s) ==
  /\ app = s
  /\ MakeSession(s)
  /\ app' = "register"

addEventListener ==
  /\ app = "register"
  /\ registered' = TRUE
  /\ app' = "idle"
  /\ UNCHANGED << listener, pos, sessionVars, queueVars, accepting >>

-----------------------------------------------------------------------------
(***************************************************************************)
(* The events of a session, numbered: the first says that it was accepted  *)
(* or connected, and nothing follows the one that says that it was closed. *)
(***************************************************************************)
\* A mutant of QueueOf: an event goes to the next context, not the session's.
QueueOfEvent(s) == pushed[s] % listener.size

QueueOf(s) == context[s]

PushTo(c, s) ==
  /\ waiting' = [waiting EXCEPT ![c] = Append(@, << s, pushed[s] + 1 >>)]
  /\ pushed' = [pushed EXCEPT ![s] = @ + 1]
  /\ UNCHANGED << listener, pos, ticket, context, batch, seen, serviceVars >>

PushEvent(s) ==
  /\ phase[s] = "open"
  /\ pushed[s] < MaxEvents
  /\ PushTo(QueueOf(s), s)
  /\ UNCHANGED phase

Close(s) ==
  /\ phase[s] = "open"
  /\ pushed[s] \in 1 .. MaxEvents - 1
  /\ PushTo(QueueOf(s), s)
  /\ phase' = [phase EXCEPT ![s] = "closed"]

-----------------------------------------------------------------------------
(***************************************************************************)
(* The dispatcher of a context.                                            *)
(***************************************************************************)
Dispatched(c) == listener.isAsync \/ registered

TakeBatch(c) ==
  /\ Dispatched(c)
  /\ batch[c] = << >>
  /\ waiting[c] # << >>
  /\ batch' = [batch EXCEPT ![c] = waiting[c]]
  /\ waiting' = [waiting EXCEPT ![c] = << >>]
  /\ UNCHANGED << listener, pos, sessionVars, seen, serviceVars >>

HandleNext(c) ==
  /\ batch[c] # << >>
  /\ seen' = [seen EXCEPT ![Head(batch[c])[1]] = Head(batch[c])[2]]
  /\ batch' = [batch EXCEPT ![c] = Tail(@)]
  /\ UNCHANGED << listener, pos, sessionVars, waiting, serviceVars >>

SessionStep(s) ==
  \/ Accept(s) \/ CreateAccepted(s)
  \/ StartConnect(s) \/ Connect(s)
  \/ PushEvent(s) \/ Close(s)

Next ==
  \/ StartServer \/ addEventListener
  \/ \E s \in Session : SessionStep(s)
  \/ \E c \in Context : TakeBatch(c) \/ HandleNext(c)

Spec == Init /\ [][Next]_vars

\* The application's thread finishes the call it is in, and the dispatchers run.
\* Nothing is assumed of the peers, nor of the application's next call.
FairSpec ==
  /\ Spec
  /\ WF_vars(addEventListener \/ \E s \in Outbound : Connect(s))
  /\ \A c \in Contexts : WF_vars(c \in Context /\ (TakeBatch(c) \/ HandleNext(c)))

-----------------------------------------------------------------------------
TypeOK ==
  /\ listener \in [isAsync : BOOLEAN, size : Nat \ {0}]
  /\ pos \in Nat
  /\ ticket \in [Session -> Nat]
  /\ context \in [Session -> Context \cup {None}]
  /\ phase \in [Session -> {"new", "placing", "open", "closed"}]
  /\ pushed \in [Session -> Nat]
  /\ waiting \in [Context -> Seq(Session \X Nat)]
  /\ batch \in [Context -> Seq(Session \X Nat)]
  /\ seen \in [Session -> Nat]
  /\ accepting \in BOOLEAN
  /\ registered \in BOOLEAN
  /\ app \in AppStates

\* Every event of a session is handled once, in the order the session pushed
\* them, whatever the other sessions of the context do: a message is never handled
\* before the event that opens the session or after the one that closes it.
HandledInOrder ==
  [][\A s \in Session : seen'[s] \in {seen[s], seen[s] + 1}]_vars

\* The sessions are spread over the contexts as evenly as their number allows,
\* although workers and the application call getContext at the same time.
SessionsOn(c) == {s \in Session : context[s] = c}

SessionsSpread ==
  (\A s \in Session : phase[s] # "placing") =>
    \A c, d \in Context : Cardinality(SessionsOn(c)) <= Cardinality(SessionsOn(d)) + 1

\* An event that a fast peer causes before the listener has been added is handled
\* all the same (TCPService.h:47-49, 56-57).
EventuallyHandled ==
  \A s \in Session, k \in 1 .. MaxEvents : pushed[s] >= k ~> seen[s] >= k
=============================================================================
