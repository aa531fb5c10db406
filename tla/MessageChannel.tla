--------------------------- MODULE MessageChannel ---------------------------
(***************************************************************************)
(* What the frame codec promises the two ends of a connection: messages go *)
(* in at one end and come out at the other, whole, in order and once, as   *)
(* far as the connection gets.  What is no message never comes out, and    *)
(* nothing that was sent after it does.                                    *)
(***************************************************************************)
EXTENDS Naturals, Sequences

CONSTANTS Message,  \* what one muxtop has to say to another
          Noise     \* what another program may write

VARIABLES sent,  \* what was written
          got    \* what was read

channelVars == <<sent, got>>

Init == sent = <<>> /\ got = <<>>

Send(m) ==
  /\ sent' = Append(sent, m)
  /\ UNCHANGED got

Receive ==
  /\ Len(got) < Len(sent)
  /\ sent[Len(got) + 1] \in Message
  /\ got' = Append(got, sent[Len(got) + 1])
  /\ UNCHANGED sent

Next == (\E m \in Message \cup Noise : Send(m)) \/ Receive

Spec == Init /\ [][Next]_channelVars
=============================================================================
