--------------------------- MODULE MessageChannel ---------------------------
(***************************************************************************)
(* What a connection between two sessions promises: every message that is  *)
(* sent is received whole, once, and in the order of sending, until the    *)
(* connection breaks, which loses the messages that are on their way.      *)
(***************************************************************************)
EXTENDS Sequences

CONSTANT Message

VARIABLES
  channel,    \* the messages on their way
  received    \* the messages of this connection that have arrived

channelVars == << channel, received >>

ChannelInit == channel = << >> /\ received = << >>

SendMessage(m) ==
  /\ channel' = Append(channel, m)
  /\ UNCHANGED received

ReceiveMessage ==
  /\ channel # << >>
  /\ received' = Append(received, Head(channel))
  /\ channel' = Tail(channel)

Break ==
  /\ channel' = << >>
  /\ received' = << >>

ChannelNext ==
  \/ \E m \in Message : SendMessage(m)
  \/ ReceiveMessage
  \/ Break

ChannelSpec == ChannelInit /\ [][ChannelNext]_channelVars
=============================================================================
