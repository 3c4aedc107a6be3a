------------------------------- MODULE AckRuns ------------------------------
(***************************************************************************)
(* Acknowledgements of one socket on their way to the peer: numbers of     *)
(* received packets wait in SocketData.acks, append_sorted_acks of         *)
(* packet_builder.rs moves some into a packet, and the peer decodes them.  *)
(***************************************************************************)
EXTENDS AckCodec

CONSTANTS
    Numbers,   \* packet numbers that may be received
    Spaces     \* bytes a packet may have left when acknowledgements are added

ASSUME AckAssumption ==
    /\ Numbers \subseteq 0 .. (2^(4 * ByteBits) - 1)
    /\ \A c \in Spaces : c >= 5

VARIABLES
    acks,      \* SocketData.acks
    packet,    \* acknowledgement frames under way, and the space they had
    received,  \* history: the packet numbers received, in order
    told       \* history: the packet numbers that reached the peer, in order

vars == <<acks, packet, received, told>>

Init ==
    /\ acks = <<>>
    /\ packet = [buf |-> <<>>, space |-> 0]
    /\ received = <<>>
    /\ told = <<>>

\* "Ack numbers must be added in sorted order from smallest to largest."
Receive(n) ==
    /\ \A k \in DOMAIN received : received[k] < n
    /\ received' = Append(received, n)
    /\ acks' = Append(acks, n)
    /\ UNCHANGED <<packet, told>>

\* append_sorted_acks.
Flush(space) ==
    LET res == encode([i |-> 0, buf |-> <<>>], acks, space) IN
    /\ packet.buf = <<>> /\ acks # <<>>
    /\ packet' = [buf |-> res.buf, space |-> space]
    /\ acks' = SubSeq(acks, res.i + 1, Len(acks))
    /\ UNCHANGED <<received, told>>

Deliver ==
    /\ packet.buf # <<>>
    /\ told' = told \o Decoded(packet.buf, 1)
    /\ packet' = [buf |-> <<>>, space |-> 0]
    /\ UNCHANGED <<acks, received>>

Next ==
    \/ \E n \in Numbers : Receive(n)
    \/ \E space \in Spaces : Flush(space)
    \/ Deliver

Spec == Init /\ [][Next]_vars

-----------------------------------------------------------------------------
\* Type invariant: a packet is made of bytes, and only packet numbers wait.
TypeOK ==
    /\ acks \in Seq(Numbers)
    /\ packet.buf \in Seq(Byte)
    /\ received \in Seq(Numbers)

\* What the peer was told, what is in the packet and what still waits are together the
\* numbers received, each once and in order: a run that is cut short by the capacity of
\* the packet or by its own length byte goes on in the next frame or packet with exactly
\* the number that was not written (the assertion of the tests, for every capacity).
AcksExact ==
    told \o Decoded(packet.buf, 1) \o acks = received

\* encode stays within the capacity it was given and, with the least space a packet that
\* is not full has, still takes a number: acknowledgements cannot get stuck.
FilledWithinCapacity ==
    packet.space > 0 => packet.buf # <<>> /\ Len(packet.buf) <= packet.space
=============================================================================
