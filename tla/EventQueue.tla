----------------------------- MODULE EventQueue -----------------------------
(***************************************************************************)
(* What a queue of TCP events promises: threads add events, one dispatcher *)
(* takes all that are waiting at once and handles them one by one, each    *)
(* once, in the order they were added.                                     *)
(***************************************************************************)
EXTENDS Sequences

CONSTANT Event

VARIABLES
  waiting,    \* the events added since the dispatcher last took a batch
  batch,      \* what is left of the batch it took
  handled     \* the events it has handled

queueVars == << waiting, batch, handled >>

QueueInit == waiting = << >> /\ batch = << >> /\ handled = << >>

Add(e) ==
  /\ waiting' = Append(waiting, e)
  /\ UNCHANGED << batch, handled >>

TakeBatch ==
  /\ batch = << >>
  /\ batch' = waiting
  /\ waiting' = << >>
  /\ UNCHANGED handled

HandleNext ==
  /\ batch # << >>
  /\ handled' = Append(handled, Head(batch))
  /\ batch' = Tail(batch)
  /\ UNCHANGED waiting

QueueNext == (\E e \in Event : Add(e)) \/ TakeBatch \/ HandleNext

QueueSpec == QueueInit /\ [][QueueNext]_queueVars
=============================================================================
