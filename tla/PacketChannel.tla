----------------------------- MODULE PacketChannel -----------------------------
(***************************************************************************)
(* What the packet reader (SServerConn::readHead, readBody) promises: the  *)
(* packets a peer writes into a connection reach the application one by    *)
(* one, whole and in the order they were written, none twice, none made    *)
(* up, until the connection is closed; a packet that is not acceptable is  *)
(* never handed over.                                                      *)
(***************************************************************************)
EXTENDS Integers, Sequences

CONSTANT Acceptable         \* the packets that may be handed over

VARIABLES
    sent,                   \* what the peer wrote, in order
    received,               \* what the application was given, in order
    connected               \* is the connection there?

channelVars == <<sent, received, connected>>

ChannelInit == sent = <<>> /\ received = <<>> /\ connected = TRUE

\* Whatever packet, it comes after those sent before.
Send == /\ Len(sent') = Len(sent) + 1
        /\ sent' = Append(sent, sent'[Len(sent) + 1])
        /\ UNCHANGED <<received, connected>>

Receive ==
    /\ connected
    /\ Len(received) < Len(sent)
    /\ sent[Len(received) + 1] \in Acceptable
    /\ received' = Append(received, sent[Len(received) + 1])
    /\ UNCHANGED <<sent, connected>>

Close == /\ connected' = FALSE
         /\ UNCHANGED <<sent, received>>

ChannelNext == Send \/ Receive \/ Close

ChannelSpec == ChannelInit /\ [][ChannelNext]_channelVars
=============================================================================
