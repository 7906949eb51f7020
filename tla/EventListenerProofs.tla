------------------------ MODULE EventListenerProofs -------------------------
(***************************************************************************)
(* For any sessions, any number of threads and of events: the events of a  *)
(* session are handled once and in order. The inductive invariant IInv     *)
(* says what the queue of a context holds: of each session that has been   *)
(* given this context, all the events that were pushed and not handled, in *)
(* ascending order. SpreadInv says which values of the round-robin counter *)
(* have been taken, and by whom.                                           *)
(***************************************************************************)
EXTENDS EventListener, FiniteSetTheorems, TLAPS

\* What the dispatcher of each context still has to handle.
queue == [c \in Context |-> batch[c] \o waiting[c]]

Placed ==
  \A s \in Session :
    IF phase[s] \in {"new", "placing"} THEN context[s] = None ELSE context[s] \in Context

Own ==
  \A c \in Context : \A i \in DOMAIN queue[c] : context[queue[c][i][1]] = c

Numbered ==
  \A c \in Context : \A i \in DOMAIN queue[c] :
    LET e == queue[c][i]
    IN  seen[e[1]] < e[2] /\ e[2] <= pushed[e[1]]

Ordered ==
  \A c \in Context : \A i, j \in DOMAIN queue[c] :
    i < j /\ queue[c][i][1] = queue[c][j][1] => queue[c][i][2] < queue[c][j][2]

Complete ==
  \A s \in Session : \A k \in Nat :
    seen[s] < k /\ k <= pushed[s] =>
      /\ context[s] \in Context
      /\ \E i \in DOMAIN queue[context[s]] : queue[context[s]][i] = << s, k >>

SeenPushed == \A s \in Session : seen[s] <= pushed[s]

QueueInv == Placed /\ SeenPushed /\ Own /\ Numbered /\ Ordered /\ Complete

IInv == TypeOK /\ QueueInv

Event == Session \X Nat

-----------------------------------------------------------------------------
LEMMA AppendToPart ==
  \A a, b \in Seq(Event) : \A e \in Event : a \o Append(b, e) = Append(a \o b, e)
OBVIOUS

LEMMA TailOfPart ==
  \A a, b \in Seq(Event) :
    a # << >> => /\ a \o b # << >>
                 /\ Head(a) = Head(a \o b)
                 /\ Tail(a) \o b = Tail(a \o b)
OBVIOUS

LEMMA NoneIsNoContext == TypeOK => None \notin Context
BY DEF TypeOK, Context, None

LEMMA QueueType == TypeOK => queue \in [Context -> Seq(Event)]
BY DEF TypeOK, queue, Event

LEMMA SameSessions ==
  ASSUME UNCHANGED << listener, batch, waiting >>
  PROVE  queue' = queue /\ Context' = Context
BY DEF queue, Context

-----------------------------------------------------------------------------
(***************************************************************************)
(* Types.                                                                  *)
(***************************************************************************)
LEMMA InitTypeOK == Init => TypeOK
<1> SUFFICES ASSUME Init
             PROVE  TypeOK
  OBVIOUS
<1>1. listener \in [isAsync : BOOLEAN, size : Nat \ {0}]
  <2>1. CASE listener = [isAsync |-> FALSE, size |-> 1]
    BY <2>1
  <2>2. ASSUME NEW n \in ThreadNums, listener = [isAsync |-> TRUE, size |-> n]
        PROVE  listener \in [isAsync : BOOLEAN, size : Nat \ {0}]
    BY <2>2, ListenerAssumption
  <2> QED
    BY <2>1, <2>2 DEF Init
<1>2. << >> \in Seq(Session \X Nat)
  OBVIOUS
<1>3. app \in AppStates /\ pos \in Nat /\ accepting \in BOOLEAN /\ registered \in BOOLEAN
  BY DEF Init, AppStates
<1>4. /\ ticket \in [Session -> Nat]
      /\ context \in [Session -> Context \cup {None}]
      /\ phase \in [Session -> {"new", "placing", "open", "closed"}]
      /\ pushed \in [Session -> Nat]
      /\ seen \in [Session -> Nat]
  BY DEF Init
<1>5. /\ waiting \in [Context -> Seq(Session \X Nat)]
      /\ batch \in [Context -> Seq(Session \X Nat)]
  BY <1>2 DEF Init
<1> QED
  BY <1>1, <1>3, <1>4, <1>5 DEF TypeOK

LEMMA TakePosTypeOK ==
  ASSUME TypeOK, NEW s \in Session, TakePos(s), UNCHANGED << accepting, registered >>,
         app' \in AppStates
  PROVE  TypeOK'
BY DEF TypeOK, TakePos, queueVars, Context, AppStates

LEMMA ContextOfType ==
  ASSUME TypeOK, NEW s \in Session
  PROVE  contextOf(s) \in Context
<1>1. listener.size \in Nat /\ listener.size > 0 /\ ticket[s] \in Nat
  BY DEF TypeOK
<1>2. ticket[s] % listener.size \in 0 .. listener.size - 1
  BY <1>1
<1> QED
  BY <1>1, <1>2 DEF contextOf, Context

LEMMA MakeSessionTypeOK ==
  ASSUME TypeOK, NEW s \in Session, MakeSession(s), app' \in AppStates
  PROVE  TypeOK'
<1>1. contextOf(s) \in Context
  BY ContextOfType
<1> QED
  BY <1>1 DEF TypeOK, MakeSession, queueVars, Context, AppStates

LEMMA PushToTypeOK ==
  ASSUME TypeOK, NEW s \in Session, NEW c \in Context, PushTo(c, s),
         phase' \in [Session -> {"new", "placing", "open", "closed"}]
  PROVE  TypeOK'
<1>1. << s, pushed[s] + 1 >> \in Session \X Nat
  BY DEF TypeOK
<1>2. waiting' \in [Context -> Seq(Session \X Nat)]
  BY <1>1 DEF TypeOK, PushTo
<1>3. Context' = Context /\ AppStates' = AppStates
  BY DEF PushTo, Context, AppStates
<1>4. pushed' \in [Session -> Nat]
  BY DEF TypeOK, PushTo
<1>5. UNCHANGED << listener, pos, ticket, context, batch, seen, accepting, registered, app >>
  BY DEF PushTo, serviceVars
<1> QED
  BY <1>2, <1>3, <1>4, <1>5 DEF TypeOK

LEMMA DispatchTypeOK ==
  ASSUME TypeOK, NEW c \in Context, TakeBatch(c) \/ HandleNext(c)
  PROVE  TypeOK'
<1>1. CASE TakeBatch(c)
  BY <1>1 DEF TypeOK, TakeBatch, sessionVars, serviceVars, Context, AppStates
<1>2. CASE HandleNext(c)
  <2>1. batch[c] \in Seq(Session \X Nat) /\ batch[c] # << >>
    BY <1>2 DEF TypeOK, HandleNext
  <2>2. Head(batch[c]) \in Session \X Nat /\ Tail(batch[c]) \in Seq(Session \X Nat)
    BY <2>1
  <2>3. Head(batch[c])[1] \in Session /\ Head(batch[c])[2] \in Nat
    BY <2>2
  <2> QED
    BY <1>2, <2>2, <2>3 DEF TypeOK, HandleNext, sessionVars, serviceVars, Context, AppStates
<1> QED
  BY <1>1, <1>2

LEMMA NextTypeOK ==
  ASSUME IInv, [Next]_vars
  PROVE  TypeOK'
<1> USE DEF IInv
<1>1. CASE StartServer
  BY <1>1 DEF StartServer, TypeOK, sessionVars, queueVars, Context, AppStates
<1>2. CASE addEventListener
  BY <1>2 DEF addEventListener, TypeOK, sessionVars, queueVars, Context, AppStates
<1>3. ASSUME NEW s \in Session, SessionStep(s)
      PROVE  TypeOK'
  <2>1. CASE Accept(s)
    <3>1. app' \in AppStates /\ UNCHANGED << accepting, registered >>
      BY <2>1 DEF Accept, serviceVars, TypeOK
    <3> QED
      BY <2>1, <3>1, TakePosTypeOK DEF Accept
  <2>2. CASE CreateAccepted(s)
    <3>1. app' \in AppStates
      BY <2>2 DEF CreateAccepted, TypeOK
    <3> QED
      BY <2>2, <3>1, MakeSessionTypeOK DEF CreateAccepted
  <2>3. CASE StartConnect(s)
    BY <2>3, TakePosTypeOK DEF StartConnect, AppStates
  <2>4. CASE Connect(s)
    BY <2>4, MakeSessionTypeOK DEF Connect, AppStates
  <2>5. CASE PushEvent(s) \/ Close(s)
    <3>1. phase[s] = "open" /\ PushTo(context[s], s)
      BY <2>5 DEF PushEvent, Close, QueueOf
    <3>2. context[s] \in Context
      BY <3>1 DEF QueueInv, Placed
    <3>3. phase' \in [Session -> {"new", "placing", "open", "closed"}]
      BY <2>5 DEF PushEvent, Close, TypeOK
    <3> QED
      BY <3>1, <3>2, <3>3, PushToTypeOK
  <2> QED
    BY <1>3, <2>1, <2>2, <2>3, <2>4, <2>5 DEF SessionStep
<1>4. ASSUME NEW c \in Context, TakeBatch(c) \/ HandleNext(c)
      PROVE  TypeOK'
  BY <1>4, DispatchTypeOK
<1>5. CASE UNCHANGED vars
  BY <1>5 DEF vars, TypeOK, sessionVars, queueVars, serviceVars, Context, AppStates
<1> QED
  BY <1>1, <1>2, <1>3, <1>4, <1>5 DEF Next

-----------------------------------------------------------------------------
(***************************************************************************)
(* What the steps do to the queues.                                        *)
(***************************************************************************)
LEMMA InitQueueInv == Init => QueueInv
<1> SUFFICES ASSUME Init
             PROVE  QueueInv
  OBVIOUS
<1>1. \A c \in Context : queue[c] = << >>
  BY DEF Init, queue
<1>2. \A s \in Session : phase[s] = "new" /\ context[s] = None /\ seen[s] = 0 /\ pushed[s] = 0
  BY DEF Init
<1> QED
  BY <1>1, <1>2 DEF QueueInv, Placed, SeenPushed, Own, Numbered, Ordered, Complete

\* A step that pushes and handles nothing, and gives contexts only to sessions
\* that had none.
LEMMA QueuesUntouched ==
  ASSUME IInv, queue' = queue, Context' = Context, UNCHANGED << seen, pushed >>,
         \A s \in Session : context'[s] = context[s] \/ context[s] = None,
         Placed'
  PROVE  QueueInv'
<1> USE DEF IInv, QueueInv
<1>1. queue \in [Context -> Seq(Event)]
  BY QueueType
<1>2. \A c \in Context : \A i \in DOMAIN queue[c] :
        queue[c][i][1] \in Session /\ context[queue[c][i][1]] # None
  BY <1>1, NoneIsNoContext DEF Own, Event
<1>3. Own'
  BY <1>2 DEF Own
<1>4. Complete'
  BY NoneIsNoContext DEF Complete
<1> QED
  BY <1>3, <1>4 DEF Numbered, Ordered, SeenPushed

LEMMA TakePosQueueInv ==
  ASSUME IInv, NEW s \in Session, TakePos(s)
  PROVE  QueueInv'
<1>1. queue' = queue /\ Context' = Context
  BY SameSessions DEF TakePos, queueVars
<1>2. Placed'
  BY <1>1 DEF TakePos, IInv, TypeOK, QueueInv, Placed
<1> QED
  BY <1>1, <1>2, QueuesUntouched DEF TakePos, queueVars

LEMMA MakeSessionQueueInv ==
  ASSUME IInv, NEW s \in Session, MakeSession(s)
  PROVE  QueueInv'
<1>1. queue' = queue /\ Context' = Context
  BY SameSessions DEF MakeSession, queueVars
<1>2. contextOf(s) \in Context /\ context[s] = None
  BY ContextOfType DEF MakeSession, IInv, QueueInv, Placed
<1>3. Placed'
  BY <1>1, <1>2 DEF MakeSession, IInv, TypeOK, QueueInv, Placed
<1>4. \A t \in Session : context'[t] = context[t] \/ context[t] = None
  BY <1>2 DEF MakeSession, IInv, TypeOK
<1> QED
  BY <1>1, <1>3, <1>4, QueuesUntouched DEF MakeSession, queueVars

LEMMA QueueElements ==
  ASSUME TypeOK, NEW c \in Context
  PROVE  /\ queue[c] \in Seq(Event)
         /\ DOMAIN queue[c] = 1 .. Len(queue[c])
         /\ Len(queue[c]) \in Nat
         /\ \A i \in DOMAIN queue[c] :
              /\ queue[c][i][1] \in Session
              /\ queue[c][i][2] \in Nat
              /\ seen[queue[c][i][1]] \in Nat
              /\ pushed[queue[c][i][1]] \in Nat
<1>1. queue[c] \in Seq(Event)
  BY QueueType
<1>2. DOMAIN queue[c] = 1 .. Len(queue[c]) /\ Len(queue[c]) \in Nat
  BY <1>1
<1>3. ASSUME NEW i \in DOMAIN queue[c]
      PROVE  queue[c][i][1] \in Session /\ queue[c][i][2] \in Nat
  <2>1. queue[c][i] \in Event
    BY <1>1, <1>3
  <2> QED
    BY <2>1 DEF Event
<1> QED
  BY <1>1, <1>2, <1>3 DEF TypeOK

\* The queue a session pushes to grows by the event, the others stay.
LEMMA PushAppends ==
  ASSUME TypeOK, NEW s \in Session, NEW c \in Context, PushTo(c, s)
  PROVE  /\ Context' = Context
         /\ DOMAIN queue'[c] = 1 .. Len(queue[c]) + 1
         /\ \A i \in 1 .. Len(queue[c]) : queue'[c][i] = queue[c][i]
         /\ queue'[c][Len(queue[c]) + 1] = << s, pushed[s] + 1 >>
         /\ \A d \in Context \ {c} : queue'[d] = queue[d]
<1> DEFINE e == << s, pushed[s] + 1 >>
<1>1. e \in Event /\ batch[c] \in Seq(Event) /\ waiting[c] \in Seq(Event)
  BY DEF TypeOK, Event
<1>2. Context' = Context
  BY DEF PushTo, Context
<1>3. /\ waiting'[c] = Append(waiting[c], e)
      /\ \A d \in Context \ {c} : waiting'[d] = waiting[d]
      /\ batch' = batch
  BY DEF PushTo, TypeOK
<1>4. \A d \in Context : queue[d] = batch[d] \o waiting[d]
  BY DEF queue
<1>5. \A d \in Context : queue'[d] = batch[d] \o waiting'[d]
  BY <1>2, <1>3 DEF queue
<1> HIDE DEF e
<1>6. queue'[c] = Append(queue[c], e)
  <2>1. batch[c] \o Append(waiting[c], e) = Append(batch[c] \o waiting[c], e)
    BY <1>1, AppendToPart
  <2> QED
    BY <1>3, <1>4, <1>5, <2>1
<1>7. queue[c] \in Seq(Event)
  BY QueueElements
<1>8. /\ DOMAIN queue'[c] = 1 .. Len(queue[c]) + 1
      /\ \A i \in 1 .. Len(queue[c]) : queue'[c][i] = queue[c][i]
      /\ queue'[c][Len(queue[c]) + 1] = e
  BY <1>1, <1>6, <1>7
<1> QED
  BY <1>2, <1>3, <1>4, <1>5, <1>8 DEF e

LEMMA PushQueueInv ==
  ASSUME IInv, NEW s \in Session, phase[s] = "open", PushTo(context[s], s), Placed'
  PROVE  QueueInv'
<1> USE DEF IInv
<1> DEFINE c == context[s]
           n == Len(queue[c])
<1>1. c \in Context
  BY DEF QueueInv, Placed
<1>2. /\ n \in Nat /\ DOMAIN queue[c] = 1 .. n
      /\ Context' = Context
      /\ DOMAIN queue'[c] = 1 .. n + 1
      /\ \A i \in 1 .. n : queue'[c][i] = queue[c][i]
      /\ queue'[c][n + 1] = << s, pushed[s] + 1 >>
      /\ \A d \in Context \ {c} : queue'[d] = queue[d]
  BY <1>1, PushAppends, QueueElements
<1>3. UNCHANGED << context, seen >>
  BY DEF PushTo
<1>4. /\ pushed[s] \in Nat /\ seen[s] \in Nat /\ seen[s] <= pushed[s]
      /\ pushed'[s] = pushed[s] + 1
      /\ \A t \in Session \ {s} : pushed'[t] = pushed[t]
  BY DEF PushTo, TypeOK, QueueInv, SeenPushed
<1> HIDE DEF n
<1>5. ASSUME NEW d \in Context, NEW i \in DOMAIN queue'[d]
      PROVE  \/ i \in DOMAIN queue[d] /\ queue'[d][i] = queue[d][i]
             \/ d = c /\ i = n + 1 /\ queue'[d][i] = << s, pushed[s] + 1 >>
  BY <1>1, <1>2, <1>5
<1> HIDE DEF c
<1>6. Own'
  <2> SUFFICES ASSUME NEW d \in Context, NEW i \in DOMAIN queue'[d]
               PROVE  context[queue'[d][i][1]] = d
    BY <1>2, <1>3 DEF Own
  <2> QED
    BY <1>5 DEF QueueInv, Own, c
<1>7. Numbered'
  <2> SUFFICES ASSUME NEW d \in Context, NEW i \in DOMAIN queue'[d]
               PROVE  /\ seen[queue'[d][i][1]] < queue'[d][i][2]
                      /\ queue'[d][i][2] <= pushed'[queue'[d][i][1]]
    BY <1>2, <1>3 DEF Numbered
  <2>1. CASE i \in DOMAIN queue[d] /\ queue'[d][i] = queue[d][i]
    BY <2>1, <1>4, QueueElements DEF QueueInv, Numbered
  <2>2. CASE queue'[d][i] = << s, pushed[s] + 1 >>
    BY <2>2, <1>4
  <2> QED
    BY <2>1, <2>2, <1>5
<1>8. Ordered'
  <2> SUFFICES ASSUME NEW d \in Context, NEW i \in DOMAIN queue'[d], NEW j \in DOMAIN queue'[d],
                      i < j, queue'[d][i][1] = queue'[d][j][1]
               PROVE  queue'[d][i][2] < queue'[d][j][2]
    BY <1>2 DEF Ordered
  <2>1. CASE i \in DOMAIN queue[d] /\ j \in DOMAIN queue[d]
    <3>1. queue'[d][i] = queue[d][i] /\ queue'[d][j] = queue[d][j]
      BY <2>1, <1>1, <1>2
    <3> QED
      BY <2>1, <3>1 DEF QueueInv, Ordered
  <2>2. CASE i \in DOMAIN queue[d] /\ queue'[d][i] = queue[d][i] /\ queue'[d][j] = << s, pushed[s] + 1 >>
    <3>1. queue[d][i][1] = s
      BY <2>2
    <3>2. queue[d][i][2] <= pushed[s] /\ queue[d][i][2] \in Nat
      BY <2>2, <3>1, QueueElements DEF QueueInv, Numbered
    <3> QED
      BY <2>2, <3>2, <1>4
  <2>3. CASE d = c /\ i = n + 1
    BY <2>3, <1>2
  <2> QED
    BY <2>1, <2>2, <2>3, <1>5
<1>9. Complete'
  <2> SUFFICES ASSUME NEW t \in Session, NEW k \in Nat, seen[t] < k, k <= pushed'[t]
               PROVE  /\ context[t] \in Context
                      /\ \E i \in DOMAIN queue'[context[t]] : queue'[context[t]][i] = << t, k >>
    BY <1>2, <1>3 DEF Complete
  <2>1. CASE k <= pushed[t]
    <3>1. context[t] \in Context
      BY <2>1 DEF QueueInv, Complete
    <3>2. PICK i \in DOMAIN queue[context[t]] : queue[context[t]][i] = << t, k >>
      BY <2>1 DEF QueueInv, Complete
    <3>3. i \in DOMAIN queue'[context[t]] /\ queue'[context[t]][i] = queue[context[t]][i]
      <4>1. CASE context[t] = c
        <5>1. i \in 1 .. n /\ i \in 1 .. n + 1
          BY <1>2, <3>2, <4>1
        <5> QED
          BY <1>2, <4>1, <5>1
      <4>2. CASE context[t] # c
        BY <1>2, <3>1, <3>2, <4>2
      <4> QED
        BY <4>1, <4>2
    <3> QED
      BY <3>1, <3>2, <3>3
  <2>2. CASE ~(k <= pushed[t])
    <3>1. t = s /\ k = pushed[s] + 1
      <4>1. t = s
        BY <2>2, <1>4
      <4> QED
        BY <2>2, <1>4, <4>1
    <3> QED
      BY <3>1, <1>1, <1>2 DEF c
  <2> QED
    BY <2>1, <2>2
<1>10. SeenPushed'
  BY <1>3, <1>4 DEF QueueInv, SeenPushed
<1> QED
  BY <1>6, <1>7, <1>8, <1>9, <1>10 DEF QueueInv

\* Taking a batch moves events from waiting to batch and leaves the queue alone.
LEMMA TakeBatchKeeps ==
  ASSUME TypeOK, NEW c \in Context, TakeBatch(c)
  PROVE  queue' = queue /\ Context' = Context
<1>1. Context' = Context
  BY DEF TakeBatch, Context
<1>2. ASSUME NEW d \in Context
      PROVE  batch'[d] \o waiting'[d] = batch[d] \o waiting[d]
  <2>1. CASE d = c
    <3>1. batch'[d] = waiting[d] /\ waiting'[d] = << >> /\ batch[d] = << >>
      BY <2>1 DEF TakeBatch, TypeOK
    <3>2. waiting[d] \in Seq(Event)
      BY DEF TypeOK, Event
    <3> QED
      BY <3>1, <3>2
  <2>2. CASE d # c
    BY <2>2 DEF TakeBatch, TypeOK
  <2> QED
    BY <2>1, <2>2
<1> QED
  BY <1>1, <1>2 DEF queue

\* The queue loses its head, which is the next event of its session.
LEMMA HandleTakesHead ==
  ASSUME IInv, NEW c \in Context, HandleNext(c)
  PROVE  /\ Context' = Context
         /\ Len(queue[c]) > 0
         /\ DOMAIN queue'[c] = 1 .. Len(queue[c]) - 1
         /\ \A i \in 1 .. Len(queue[c]) - 1 : queue'[c][i] = queue[c][i + 1]
         /\ \A d \in Context \ {c} : queue'[d] = queue[d]
         /\ seen' = [seen EXCEPT ![queue[c][1][1]] = queue[c][1][2]]
<1> USE DEF IInv
<1>1. batch[c] \in Seq(Event) /\ waiting[c] \in Seq(Event) /\ batch[c] # << >>
  BY DEF TypeOK, Event, HandleNext
<1>2. Context' = Context
  BY DEF HandleNext, Context
<1>3. /\ batch'[c] = Tail(batch[c])
      /\ \A d \in Context \ {c} : batch'[d] = batch[d]
      /\ waiting' = waiting
  BY DEF HandleNext, TypeOK
<1>4. \A d \in Context : queue[d] = batch[d] \o waiting[d]
  BY DEF queue
<1>5. \A d \in Context : queue'[d] = batch'[d] \o waiting[d]
  BY <1>2, <1>3 DEF queue
<1>6. /\ queue[c] # << >>
      /\ Head(batch[c]) = Head(queue[c])
      /\ queue'[c] = Tail(queue[c])
  <2>1. /\ batch[c] \o waiting[c] # << >>
        /\ Head(batch[c]) = Head(batch[c] \o waiting[c])
        /\ Tail(batch[c]) \o waiting[c] = Tail(batch[c] \o waiting[c])
    BY <1>1, TailOfPart
  <2>2. queue[c] = batch[c] \o waiting[c]
    BY <1>4
  <2>3. queue'[c] = Tail(batch[c]) \o waiting[c]
    BY <1>3, <1>5
  <2> QED
    BY <2>1, <2>2, <2>3
<1>7. queue[c] \in Seq(Event)
  BY QueueElements
<1>8. /\ Len(queue[c]) > 0
      /\ DOMAIN queue'[c] = 1 .. Len(queue[c]) - 1
      /\ \A i \in 1 .. Len(queue[c]) - 1 : queue'[c][i] = queue[c][i + 1]
      /\ Head(queue[c]) = queue[c][1]
  BY <1>6, <1>7
<1>9. seen' = [seen EXCEPT ![queue[c][1][1]] = queue[c][1][2]]
  BY <1>6, <1>8 DEF HandleNext
<1>10. \A d \in Context \ {c} : queue'[d] = queue[d]
  BY <1>3, <1>4, <1>5
<1> QED
  BY <1>2, <1>8, <1>9, <1>10

LEMMA HeadIsNext ==
  ASSUME IInv, NEW c \in Context, Len(queue[c]) > 0
  PROVE  queue[c][1][2] = seen[queue[c][1][1]] + 1
<1> USE DEF IInv
<1> DEFINE s == queue[c][1][1]
           k == queue[c][1][2]
           n == seen[s] + 1
<1>1. /\ DOMAIN queue[c] = 1 .. Len(queue[c]) /\ Len(queue[c]) \in Nat
      /\ 1 \in DOMAIN queue[c]
  BY QueueElements
<1>2. /\ s \in Session /\ k \in Nat /\ seen[s] \in Nat /\ pushed[s] \in Nat
      /\ seen[s] < k /\ k <= pushed[s]
      /\ context[s] = c
  BY <1>1, QueueElements DEF QueueInv, Numbered, Own
<1> HIDE DEF s, k
<1>3. PICK i \in DOMAIN queue[c] : queue[c][i] = << s, n >>
  <2>1. n \in Nat /\ seen[s] < n /\ n <= pushed[s]
    BY <1>2
  <2> HIDE DEF n
  <2> QED
    BY <1>2, <2>1 DEF QueueInv, Complete
<1>4. CASE i = 1
  BY <1>3, <1>4 DEF k
<1>5. CASE i # 1
  <2>1. 1 < i /\ queue[c][1][1] = queue[c][i][1]
    BY <1>1, <1>3, <1>5 DEF s
  <2>2. k < n
    BY <1>1, <1>3, <2>1 DEF QueueInv, Ordered, k
  <2> QED
    BY <1>2, <2>2
<1> QED
  BY <1>4, <1>5 DEF s, k

LEMMA HandleQueueInv ==
  ASSUME IInv, NEW c \in Context, HandleNext(c)
  PROVE  QueueInv'
<1> USE DEF IInv
<1> DEFINE n == Len(queue[c])
           s == queue[c][1][1]
           k == queue[c][1][2]
<1>1. /\ Context' = Context
      /\ n \in Nat /\ n > 0 /\ DOMAIN queue[c] = 1 .. n
      /\ DOMAIN queue'[c] = 1 .. n - 1
      /\ \A i \in 1 .. n - 1 : queue'[c][i] = queue[c][i + 1]
      /\ \A d \in Context \ {c} : queue'[d] = queue[d]
  BY HandleTakesHead, QueueElements
<1>2. UNCHANGED << context, phase, pushed >>
  BY DEF HandleNext, sessionVars
<1>3. /\ s \in Session /\ k = seen[s] + 1 /\ k <= pushed[s] /\ context[s] = c
      /\ seen[s] \in Nat /\ pushed[s] \in Nat
  <2>1. 1 \in DOMAIN queue[c]
    BY <1>1
  <2> QED
    BY <1>1, <2>1, HeadIsNext, QueueElements DEF QueueInv, Numbered, Own
<1>4. /\ seen'[s] = k
      /\ \A t \in Session \ {s} : seen'[t] = seen[t]
  BY <1>3, HandleTakesHead DEF TypeOK
<1> HIDE DEF n, s, k
<1>5. ASSUME NEW d \in Context, NEW i \in DOMAIN queue'[d]
      PROVE  \/ d # c /\ i \in DOMAIN queue[d] /\ queue'[d][i] = queue[d][i]
             \/ d = c /\ i \in 1 .. n - 1 /\ i + 1 \in DOMAIN queue[c] /\ queue'[c][i] = queue[c][i + 1]
  <2>1. CASE d = c
    BY <1>1, <1>5, <2>1
  <2>2. CASE d # c
    BY <1>1, <1>5, <2>2
  <2> QED
    BY <2>1, <2>2
<1>6. Placed'
  BY <1>1, <1>2 DEF QueueInv, Placed
<1>7. SeenPushed'
  BY <1>2, <1>3, <1>4 DEF QueueInv, SeenPushed
<1>8. Own'
  <2> SUFFICES ASSUME NEW d \in Context, NEW i \in DOMAIN queue'[d]
               PROVE  context[queue'[d][i][1]] = d
    BY <1>1, <1>2 DEF Own
  <2> QED
    BY <1>5 DEF QueueInv, Own
<1>9. Numbered'
  <2> SUFFICES ASSUME NEW d \in Context, NEW i \in DOMAIN queue'[d]
               PROVE  /\ seen'[queue'[d][i][1]] < queue'[d][i][2]
                      /\ queue'[d][i][2] <= pushed[queue'[d][i][1]]
    BY <1>1, <1>2 DEF Numbered
  <2>1. CASE d # c /\ i \in DOMAIN queue[d] /\ queue'[d][i] = queue[d][i]
    <3>1. queue[d][i][1] \in Session /\ context[queue[d][i][1]] = d
      BY <2>1, QueueElements DEF QueueInv, Own
    <3>2. seen'[queue[d][i][1]] = seen[queue[d][i][1]]
      BY <2>1, <3>1, <1>3, <1>4
    <3> QED
      BY <2>1, <3>2 DEF QueueInv, Numbered
  <2>2. CASE d = c /\ i \in 1 .. n - 1 /\ i + 1 \in DOMAIN queue[c] /\ queue'[c][i] = queue[c][i + 1]
    <3>1. /\ queue[c][i + 1][1] \in Session /\ queue[c][i + 1][2] \in Nat
          /\ seen[queue[c][i + 1][1]] < queue[c][i + 1][2]
          /\ queue[c][i + 1][2] <= pushed[queue[c][i + 1][1]]
      BY <2>2, QueueElements DEF QueueInv, Numbered
    <3>2. CASE queue[c][i + 1][1] = s
      <4>1. 1 \in DOMAIN queue[c] /\ 1 < i + 1
        BY <1>1, <2>2
      <4>2. k < queue[c][i + 1][2]
        BY <2>2, <3>2, <4>1 DEF QueueInv, Ordered, s, k
      <4> QED
        BY <2>2, <3>1, <3>2, <4>2, <1>4
    <3>3. CASE queue[c][i + 1][1] # s
      BY <2>2, <3>1, <3>3, <1>4
    <3> QED
      BY <3>2, <3>3
  <2> QED
    BY <2>1, <2>2, <1>5
<1>10. Ordered'
  <2> SUFFICES ASSUME NEW d \in Context, NEW i \in DOMAIN queue'[d], NEW j \in DOMAIN queue'[d],
                      i < j, queue'[d][i][1] = queue'[d][j][1]
               PROVE  queue'[d][i][2] < queue'[d][j][2]
    BY <1>1 DEF Ordered
  <2>1. CASE d = c
    <3>1. i \in 1 .. n - 1 /\ j \in 1 .. n - 1 /\ i + 1 < j + 1
      BY <1>1, <2>1
    <3>2. /\ i + 1 \in DOMAIN queue[c] /\ queue'[c][i] = queue[c][i + 1]
          /\ j + 1 \in DOMAIN queue[c] /\ queue'[c][j] = queue[c][j + 1]
      BY <1>1, <3>1
    <3> QED
      BY <2>1, <3>1, <3>2 DEF QueueInv, Ordered
  <2>2. CASE d # c
    BY <1>1, <2>2 DEF QueueInv, Ordered
  <2> QED
    BY <2>1, <2>2
<1>11. Complete'
  <2> SUFFICES ASSUME NEW t \in Session, NEW m \in Nat, seen'[t] < m, m <= pushed[t]
               PROVE  /\ context[t] \in Context
                      /\ \E i \in DOMAIN queue'[context[t]] : queue'[context[t]][i] = << t, m >>
    BY <1>1, <1>2 DEF Complete
  <2>1. seen[t] < m
    <3>1. CASE t = s
      BY <1>3, <1>4, <3>1
    <3>2. CASE t # s
      BY <1>4, <3>2
    <3> QED
      BY <3>1, <3>2
  <2>2. context[t] \in Context
    BY <2>1 DEF QueueInv, Complete
  <2>3. PICK i \in DOMAIN queue[context[t]] : queue[context[t]][i] = << t, m >>
    BY <2>1 DEF QueueInv, Complete
  <2>4. CASE context[t] # c
    BY <1>1, <2>2, <2>3, <2>4
  <2>5. CASE context[t] = c
    <3>1. i # 1
      <4> SUFFICES ASSUME i = 1
                   PROVE  FALSE
        OBVIOUS
      <4>1. s = t /\ k = m
        BY <2>3, <2>5 DEF s, k
      <4> QED
        BY <4>1, <1>3, <1>4
    <3>2. i \in 1 .. n
      BY <1>1, <2>3, <2>5
    <3>3. i - 1 \in 1 .. n - 1 /\ (i - 1) + 1 = i
      BY <1>1, <3>1, <3>2
    <3>4. i - 1 \in DOMAIN queue'[c] /\ queue'[c][i - 1] = queue[c][i]
      BY <1>1, <3>3
    <3> QED
      BY <2>2, <2>3, <2>5, <3>4
  <2> QED
    BY <2>4, <2>5
<1> QED
  BY <1>6, <1>7, <1>8, <1>9, <1>10, <1>11 DEF QueueInv

-----------------------------------------------------------------------------
LEMMA NextQueueInv ==
  ASSUME IInv, [Next]_vars
  PROVE  QueueInv'
<1>1. CASE StartServer \/ addEventListener \/ UNCHANGED vars
  <2>1. queue' = queue /\ Context' = Context
    BY <1>1, SameSessions DEF StartServer, addEventListener, vars, queueVars
  <2>2. UNCHANGED << context, phase, pushed, seen >>
    BY <1>1 DEF StartServer, addEventListener, vars, queueVars, sessionVars
  <2>3. Placed'
    BY <2>1, <2>2 DEF IInv, QueueInv, Placed
  <2> QED
    BY <2>1, <2>2, <2>3, QueuesUntouched
<1>2. ASSUME NEW s \in Session, SessionStep(s)
      PROVE  QueueInv'
  <2>1. CASE Accept(s) \/ StartConnect(s)
    BY <2>1, TakePosQueueInv DEF Accept, StartConnect
  <2>2. CASE CreateAccepted(s) \/ Connect(s)
    BY <2>2, MakeSessionQueueInv DEF CreateAccepted, Connect
  <2>3. CASE PushEvent(s) \/ Close(s)
    <3>1. phase[s] = "open" /\ PushTo(context[s], s)
      BY <2>3 DEF PushEvent, Close, QueueOf
    <3>2. /\ context' = context /\ Context' = Context
          /\ \A t \in Session \ {s} : phase'[t] = phase[t]
          /\ phase'[s] \in {"open", "closed"}
      BY <2>3, <3>1 DEF PushEvent, Close, PushTo, Context, IInv, TypeOK
    <3>3. Placed'
      BY <3>1, <3>2 DEF IInv, QueueInv, Placed
    <3> QED
      BY <3>1, <3>3, PushQueueInv
  <2> QED
    BY <1>2, <2>1, <2>2, <2>3 DEF SessionStep
<1>3. ASSUME NEW c \in Context, TakeBatch(c)
      PROVE  QueueInv'
  <2>1. queue' = queue /\ Context' = Context
    BY <1>3, TakeBatchKeeps DEF IInv
  <2>2. UNCHANGED << context, phase, pushed, seen >>
    BY <1>3 DEF TakeBatch, sessionVars
  <2>3. Placed'
    BY <2>1, <2>2 DEF IInv, QueueInv, Placed
  <2> QED
    BY <2>1, <2>2, <2>3, QueuesUntouched
<1>4. ASSUME NEW c \in Context, HandleNext(c)
      PROVE  QueueInv'
  BY <1>4, HandleQueueInv
<1> QED
  BY <1>1, <1>2, <1>3, <1>4 DEF Next

-----------------------------------------------------------------------------
(***************************************************************************)
(* How the sessions are spread. The sessions that have called getContext   *)
(* hold the numbers 0 .. pos - 1, one each, and each is in the context its *)
(* number stands for, whatever the order in which the calls ended.         *)
(***************************************************************************)
Begun == {s \in Session : phase[s] # "new"}

Numbering ==
  listener.isAsync =>
    /\ \A s \in Begun : ticket[s] < pos
    /\ \A s, t \in Begun : ticket[s] = ticket[t] => s = t
    /\ \A k \in 0 .. pos - 1 : \E s \in Begun : ticket[s] = k

GivenOwn == \A s \in Session : phase[s] \in {"open", "closed"} => context[s] = contextOf(s)

SpreadInv ==
  /\ IsFiniteSet(Begun)
  /\ ~listener.isAsync => listener.size = 1
  /\ Numbering
  /\ GivenOwn

LEMMA InitSpread ==
  ASSUME Init
  PROVE  SpreadInv
<1>1. Begun = {}
  BY DEF Init, Begun
<1>2. IsFiniteSet(Begun)
  BY <1>1, FS_EmptySet
<1>3. ~listener.isAsync => listener.size = 1
  <2>1. CASE listener = [isAsync |-> FALSE, size |-> 1]
    BY <2>1
  <2>2. ASSUME NEW n \in ThreadNums, listener = [isAsync |-> TRUE, size |-> n]
        PROVE  ~listener.isAsync => listener.size = 1
    BY <2>2
  <2> QED
    BY <2>1, <2>2 DEF Init
<1>4. pos = 0 /\ GivenOwn
  BY DEF Init, GivenOwn
<1>5. Numbering
  BY <1>1, <1>4 DEF Numbering
<1> QED
  BY <1>2, <1>3, <1>4, <1>5 DEF SpreadInv

\* A step in which no session calls getContext or is given a context.
LEMMA SpreadUntouched ==
  ASSUME SpreadInv, TypeOK, UNCHANGED << listener, pos, ticket, context >>,
         \A s \in Session : phase'[s] # "new" <=> phase[s] # "new",
         \A s \in Session : phase'[s] \in {"open", "closed"} => phase[s] \in {"open", "closed"}
  PROVE  SpreadInv'
<1>1. Begun' = Begun
  BY DEF Begun
<1>2. GivenOwn'
  BY DEF SpreadInv, GivenOwn, contextOf
<1>3. Numbering'
  BY <1>1 DEF SpreadInv, Numbering
<1> QED
  BY <1>1, <1>2, <1>3 DEF SpreadInv

\* The number taken is new, and the next.
LEMMA TakePosSpread ==
  ASSUME SpreadInv, TypeOK, NEW s \in Session, TakePos(s)
  PROVE  SpreadInv'
<1>1. /\ phase[s] = "new" /\ phase'[s] = "placing"
      /\ \A t \in Session \ {s} : phase'[t] = phase[t] /\ ticket'[t] = ticket[t]
      /\ ticket'[s] = pos
      /\ pos' = IF listener.isAsync THEN pos + 1 ELSE pos
      /\ UNCHANGED << listener, context >>
      /\ pos \in Nat
      /\ \A t \in Session : ticket[t] \in Nat
  BY DEF TypeOK, TakePos
<1>2. Begun' = Begun \cup {s} /\ s \notin Begun
  BY <1>1 DEF Begun
<1>3. IsFiniteSet(Begun')
  BY <1>2, FS_AddElement DEF SpreadInv
<1>4. \A t \in Begun : t \in Session \ {s} /\ ticket'[t] = ticket[t] /\ ticket[t] \in Nat
  BY <1>1, <1>2 DEF Begun
<1>5. ASSUME listener.isAsync
      PROVE  /\ \A t \in Begun' : ticket'[t] < pos'
             /\ \A t, u \in Begun' : ticket'[t] = ticket'[u] => t = u
             /\ \A k \in 0 .. pos' - 1 : \E t \in Begun' : ticket'[t] = k
  <2>1. /\ \A t \in Begun : ticket[t] < pos
        /\ \A t, u \in Begun : ticket[t] = ticket[u] => t = u
        /\ \A k \in 0 .. pos - 1 : \E t \in Begun : ticket[t] = k
    BY <1>5 DEF SpreadInv, Numbering
  <2>2. pos' = pos + 1
    BY <1>1, <1>5
  <2>3. \A t \in Begun' : ticket'[t] < pos'
    BY <1>1, <1>2, <1>4, <2>1, <2>2
  <2>4. \A t, u \in Begun' : ticket'[t] = ticket'[u] => t = u
    BY <1>1, <1>2, <1>4, <2>1
  <2>5. ASSUME NEW k \in 0 .. pos' - 1
        PROVE  \E t \in Begun' : ticket'[t] = k
    <3>1. CASE k = pos
      BY <1>1, <1>2, <3>1
    <3>2. CASE k # pos
      <4>1. k \in 0 .. pos - 1
        BY <1>1, <2>2, <3>2
      <4> QED
        BY <1>2, <1>4, <2>1, <4>1
    <3> QED
      BY <3>1, <3>2
  <2> QED
    BY <2>3, <2>4, <2>5
<1>6. GivenOwn'
  <2> SUFFICES ASSUME NEW t \in Session, phase'[t] \in {"open", "closed"}
               PROVE  context'[t] = contextOf(t)'
    BY DEF GivenOwn
  <2>1. t # s /\ phase[t] \in {"open", "closed"} /\ ticket'[t] = ticket[t]
    BY <1>1
  <2> QED
    BY <1>1, <2>1 DEF SpreadInv, GivenOwn, contextOf
<1>7. Numbering'
  BY <1>1, <1>5 DEF Numbering
<1> QED
  BY <1>1, <1>3, <1>6, <1>7 DEF SpreadInv

LEMMA MakeSessionSpread ==
  ASSUME SpreadInv, TypeOK, NEW s \in Session, MakeSession(s)
  PROVE  SpreadInv'
<1>1. /\ phase[s] = "placing" /\ phase'[s] = "open"
      /\ \A t \in Session \ {s} : phase'[t] = phase[t] /\ context'[t] = context[t]
      /\ context'[s] = contextOf(s)
      /\ UNCHANGED << listener, pos, ticket >>
  BY DEF TypeOK, MakeSession
<1>2. Begun' = Begun
  BY <1>1 DEF Begun
<1>3. GivenOwn'
  <2> SUFFICES ASSUME NEW t \in Session, phase'[t] \in {"open", "closed"}
               PROVE  context'[t] = contextOf(t)'
    BY DEF GivenOwn
  <2>1. contextOf(t)' = contextOf(t)
    BY <1>1 DEF contextOf
  <2> QED
    BY <1>1, <2>1 DEF SpreadInv, GivenOwn
<1>4. Numbering'
  BY <1>1, <1>2 DEF SpreadInv, Numbering
<1> QED
  BY <1>1, <1>2, <1>3, <1>4 DEF SpreadInv

LEMMA NextSpread ==
  ASSUME SpreadInv, TypeOK, [Next]_vars
  PROVE  SpreadInv'
<1>1. CASE StartServer \/ addEventListener \/ UNCHANGED vars
  BY <1>1, SpreadUntouched DEF StartServer, addEventListener, vars, sessionVars
<1>2. ASSUME NEW s \in Session, SessionStep(s)
      PROVE  SpreadInv'
  <2>1. CASE Accept(s) \/ StartConnect(s)
    BY <2>1, TakePosSpread DEF Accept, StartConnect
  <2>2. CASE CreateAccepted(s) \/ Connect(s)
    BY <2>2, MakeSessionSpread DEF CreateAccepted, Connect
  <2>3. CASE PushEvent(s) \/ Close(s)
    <3>1. UNCHANGED << listener, pos, ticket, context >>
      BY <2>3 DEF PushEvent, Close, PushTo
    <3>2. /\ phase[s] = "open" /\ phase'[s] \in {"open", "closed"}
          /\ \A t \in Session \ {s} : phase'[t] = phase[t]
      BY <2>3 DEF PushEvent, Close, TypeOK
    <3> QED
      BY <3>1, <3>2, SpreadUntouched
  <2> QED
    BY <1>2, <2>1, <2>2, <2>3 DEF SessionStep
<1>3. ASSUME NEW c \in Context, TakeBatch(c) \/ HandleNext(c)
      PROVE  SpreadInv'
  BY <1>3, SpreadUntouched DEF TakeBatch, HandleNext, sessionVars
<1> QED
  BY <1>1, <1>2, <1>3 DEF Next

LEMMA Division ==
  ASSUME NEW n \in Nat \ {0}
  PROVE  /\ \A k \in Nat : k = n * (k \div n) + (k % n) /\ k \div n \in Nat
         /\ \A p \in Nat, d \in 0 .. n - 1 : (n * p + d) % n = d
OBVIOUS

\* Two numbers of one context differ by a multiple of the number of contexts.
LEMMA Remainder ==
  ASSUME NEW n \in Nat \ {0}, NEW k \in Nat, NEW c \in 0 .. n - 1, k % n = c, k # c,
         NEW d \in 0 .. n - 1
  PROVE  /\ k - c + d - n \in Nat
         /\ k - c + d - n < k
         /\ (k - c + d - n) % n = d
<1> DEFINE q == k \div n
           p == q - 1
<1>1. k = n * q + c /\ q \in Nat
  BY Division
<1> HIDE DEF q
<1>2. q # 0
  BY <1>1
<1>3. p \in Nat /\ q = p + 1
  BY <1>1, <1>2
<1> HIDE DEF p
<1>4. n * q = n * p + n /\ n * p \in Nat
  BY <1>3
<1> DEFINE m == n * p
<1>5. k = m + n + c /\ m \in Nat
  BY <1>1, <1>4
<1>6. (m + d) % n = d
  BY <1>3, Division
<1> HIDE DEF m
<1>7. k - c + d - n = m + d
  BY <1>5
<1> QED
  BY <1>5, <1>6, <1>7

\* As many sessions stand in one context as in another, or one more: the session
\* with the number k of context c stands for the one with the last number before
\* k of context d, and only the first of c stands for none.
LEMMA SpreadEvenly ==
  ASSUME SpreadInv, TypeOK, \A s \in Session : phase[s] # "placing", Placed,
         NEW c \in Context, NEW d \in Context
  PROVE  Cardinality(SessionsOn(c)) <= Cardinality(SessionsOn(d)) + 1
<1> DEFINE S == SessionsOn(c)
           T == SessionsOn(d)
           n == listener.size
           U == {s \in S : ticket[s] # c}
<1>1. n \in Nat \ {0} /\ c \in 0 .. n - 1 /\ d \in 0 .. n - 1
  BY DEF TypeOK, Context
<1>2. S \subseteq Begun /\ T \subseteq Begun
  BY NoneIsNoContext DEF SessionsOn, Begun, Placed
<1>3. /\ IsFiniteSet(S) /\ Cardinality(S) \in Nat
      /\ IsFiniteSet(T) /\ Cardinality(T) \in Nat
  BY <1>2, FS_Subset, FS_CardinalityType DEF SpreadInv
<1>4. CASE ~listener.isAsync
  BY <1>1, <1>3, <1>4 DEF SpreadInv
<1>5. CASE listener.isAsync
  <2>1. \A s \in Begun : s \in Session /\ ticket[s] \in Nat /\ context[s] = ticket[s] % n
    <3> TAKE s \in Begun
    <3>1. s \in Session /\ phase[s] \in {"open", "closed"}
      BY DEF Begun, TypeOK
    <3> QED
      BY <1>5, <3>1 DEF SpreadInv, GivenOwn, contextOf, TypeOK
  <2>2. /\ \A s \in Begun : ticket[s] < pos
        /\ \A s, t \in Begun : ticket[s] = ticket[t] => s = t
        /\ \A k \in 0 .. pos - 1 : \E s \in Begun : ticket[s] = k
        /\ pos \in Nat
    BY <1>5 DEF SpreadInv, Numbering, TypeOK
  <2>3. \A s \in S : ticket[s] % n = c
    BY <1>2, <2>1 DEF SessionsOn
  <2> DEFINE before(s) == ticket[s] - c + d - n
             g == [s \in U |-> CHOOSE t \in Begun : ticket[t] = before(s)]
  <2>4. ASSUME NEW s \in U
        PROVE  before(s) \in 0 .. pos - 1 /\ before(s) % n = d
    <3>1. /\ ticket[s] \in Nat /\ ticket[s] % n = c /\ ticket[s] # c /\ ticket[s] < pos
      BY <1>2, <2>1, <2>2, <2>3
    <3> DEFINE k == ticket[s]
    <3> HIDE DEF k
    <3>2. k \in Nat /\ k % n = c /\ k # c
      BY <3>1 DEF k
    <3>3. k - c + d - n \in Nat /\ k - c + d - n < k /\ (k - c + d - n) % n = d
      <4> HIDE DEF n
      <4> QED
        BY <1>1, <3>2, Remainder
    <3> QED
      BY <1>1, <2>2, <3>1, <3>3 DEF k
  <2>5. ASSUME NEW s \in U
        PROVE  g[s] \in T /\ ticket[g[s]] = before(s)
    <3>1. \E t \in Begun : ticket[t] = before(s)
      <4> HIDE DEF before
      <4> QED
        BY <2>2, <2>4
    <3>2. g[s] = CHOOSE t \in Begun : ticket[t] = before(s)
      OBVIOUS
    <3> HIDE DEF g
    <3>3. g[s] \in Begun /\ ticket[g[s]] = before(s)
      <4> HIDE DEF before
      <4> QED
        BY <3>1, <3>2
    <3> HIDE DEF before
    <3>4. context[g[s]] = d /\ g[s] \in Session
      BY <2>1, <2>4, <3>3
    <3> QED
      BY <3>3, <3>4 DEF SessionsOn
  <2>6. \A s, t \in U : g[s] = g[t] => s = t
    <3> TAKE s, t \in U
    <3>1. ticket[g[s]] = before(s) /\ ticket[g[t]] = before(t)
      BY <2>5
    <3> HIDE DEF g
    <3>2. s \in Begun /\ t \in Begun /\ ticket[s] \in Nat /\ ticket[t] \in Nat
      BY <1>2, <2>1
    <3>3. g[s] = g[t] => ticket[s] = ticket[t]
      BY <1>1, <3>1, <3>2
    <3> QED
      BY <2>2, <3>2, <3>3
  <2>7. g \in [U -> T]
    <3>1. g = [s \in U |-> g[s]]
      OBVIOUS
    <3> HIDE DEF g
    <3> QED
      BY <2>5, <3>1
  <2>8. g \in Injection(U, T)
    <3> HIDE DEF g
    <3> QED
      BY <2>6, <2>7 DEF Injection, IsInjective
  <2>9. IsFiniteSet(U) /\ Cardinality(U) <= Cardinality(T) /\ Cardinality(U) \in Nat
    <3> HIDE DEF g, U, T
    <3> QED
      BY <1>3, <2>8, FS_Injection, FS_CardinalityType
  <2>10. CASE \E z \in S : ticket[z] = c
    <3>1. PICK z \in S : ticket[z] = c
      BY <2>10
    <3>2. S = U \cup {z}
      <4>1. \A s \in S : ticket[s] = c => s = z
        BY <1>2, <2>2, <3>1
      <4> QED
        BY <3>1, <4>1
    <3>3. Cardinality(S) <= Cardinality(U) + 1
      <4> HIDE DEF S, U
      <4> QED
        BY <2>9, <3>2, FS_AddElement
    <3> QED
      BY <1>3, <2>9, <3>3
  <2>11. CASE ~ \E z \in S : ticket[z] = c
    <3>1. S = U
      BY <2>11
    <3> HIDE DEF S, T, U
    <3>2. Cardinality(S) <= Cardinality(T) + 1
      BY <1>3, <2>9, <3>1
    <3> QED
      BY <3>2 DEF S, T
  <2> QED
    BY <2>10, <2>11
<1> QED
  BY <1>4, <1>5

\* The inductive invariant holds in every reachable state.
THEOREM Inductive == Spec => []IInv
<1>1. Init => IInv
  BY InitTypeOK, InitQueueInv DEF IInv
<1>2. IInv /\ [Next]_vars => IInv'
  BY NextTypeOK, NextQueueInv DEF IInv
<1> QED
  BY <1>1, <1>2, PTL DEF Spec

\* Types: a session that has a context has one of the listener's, and every queue
\* holds events of sessions.
THEOREM TypeCorrect == Spec => []TypeOK
<1>1. IInv => TypeOK
  BY DEF IInv
<1> QED
  BY <1>1, Inductive, PTL

\* The events of a session are handled once each, in the order of their pushes.
THEOREM InOrder == Spec => HandledInOrder
<1>1. ASSUME IInv, [Next]_vars, NEW s \in Session
      PROVE  seen'[s] \in {seen[s], seen[s] + 1}
  <2>1. CASE seen' = seen
    BY <2>1
  <2>2. ASSUME NEW c \in Context, HandleNext(c)
        PROVE  seen'[s] \in {seen[s], seen[s] + 1}
    <3>1. /\ seen' = [seen EXCEPT ![queue[c][1][1]] = queue[c][1][2]]
          /\ queue[c][1][2] = seen[queue[c][1][1]] + 1
      BY <1>1, <2>2, HandleTakesHead, HeadIsNext
    <3>2. CASE s = queue[c][1][1]
      BY <1>1, <3>1, <3>2 DEF IInv, TypeOK
    <3>3. CASE s # queue[c][1][1]
      BY <1>1, <3>1, <3>3 DEF IInv, TypeOK
    <3> QED
      BY <3>2, <3>3
  <2>3. ASSUME ~ \E c \in Context : HandleNext(c)
        PROVE  seen' = seen
    <3>1. CASE StartServer \/ addEventListener \/ UNCHANGED vars
      BY <3>1 DEF StartServer, addEventListener, vars, queueVars
    <3>2. ASSUME NEW t \in Session, SessionStep(t)
          PROVE  seen' = seen
      BY <3>2 DEF SessionStep, Accept, CreateAccepted, StartConnect, Connect, PushEvent, Close,
                  TakePos, MakeSession, PushTo, queueVars
    <3>3. ASSUME NEW c \in Context, TakeBatch(c)
          PROVE  seen' = seen
      BY <3>3 DEF TakeBatch
    <3> QED
      BY <1>1, <2>3, <3>1, <3>2, <3>3 DEF Next
  <2> QED
    BY <2>1, <2>2, <2>3
<1>2. IInv /\ [Next]_vars => [\A s \in Session : seen'[s] \in {seen[s], seen[s] + 1}]_vars
  BY <1>1
<1> QED
  BY <1>2, Inductive, PTL DEF Spec, HandledInOrder

\* However many workers and connecting threads call getContext at the same time,
\* no context ever has two sessions more than another once the calls have returned
\* (TCPEventListener.h:86-89).
THEOREM SpreadAlways == Spec => []SessionsSpread
<1>1. Init => SpreadInv
  BY InitSpread
<1>2. IInv /\ SpreadInv /\ [Next]_vars => SpreadInv'
  BY NextSpread DEF IInv
<1>3. IInv /\ SpreadInv => SessionsSpread
  BY SpreadEvenly DEF SessionsSpread, IInv, QueueInv
<1> QED
  BY <1>1, <1>2, <1>3, Inductive, PTL DEF Spec
=============================================================================
