--------------------------- MODULE EventChannel ---------------------------
(***************************************************************************)
(* What an event stream promises to the client at its other end: it sees   *)
(* what was sent in the order in which it was sent, from the first message *)
(* on, without a gap and without a repetition.  It may stop at any point.  *)
(***************************************************************************)
EXTENDS Naturals, Sequences

CONSTANT Payload    \* what can be sent

VARIABLES asked,    \* everything sent so far, in order
          wrote     \* what has reached the connection, in order

channel == <<asked, wrote>>

ChannelInit == asked = <<>> /\ wrote = <<>>

Ask ==
    \E m \in Payload : asked' = Append(asked, m) /\ UNCHANGED wrote

Deliver ==
    /\ Len(wrote) < Len(asked)
    /\ wrote' = Append(wrote, asked[Len(wrote) + 1])
    /\ UNCHANGED asked

ChannelSpec == ChannelInit /\ [][Ask \/ Deliver]_channel
=============================================================================
