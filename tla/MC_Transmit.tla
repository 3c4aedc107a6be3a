---------------------------- MODULE MC_Transmit -----------------------------
EXTENDS Transmit

Symmetry == Permutations(Threads)

\* Packets of 64 bytes: document 2 leaves too little room for a segment of document 4,
\* which takes two packets.
Lengths == [d \in SendDocs |-> IF d = 2 THEN 33 ELSE 60]
Parents == [d \in SendDocs |-> 1]
OwnSlots == [d \in SendDocs |-> d]
SharedSlot == [d \in SendDocs |-> d % 4]
Queued == <<2, 4>>

\* More acknowledgements than one packet can take.
ManyAcks == <<[k \in 1..75 |-> 2 * k]>>
FewAcks == <<[k \in 1..6 |-> 2 * k]>>
Socket == <<1>>

\* Document 2 takes two packets; its second segment ends beyond offset 64, where offsets
\* get two bytes.  Document 4 leaves no room for a segment in its packet.
LongLengths == [d \in SendDocs |-> IF d = 2 THEN 82 ELSE 34]
QueuedTwice == <<2, 4, 2>>
QueuedAlone == <<2, 2>>

\* Two sockets with acknowledgements, and their numbers.
TwoAcks == <<<<2, 4>>, <<6>>>>
Uids == <<1, 2>>
=============================================================================
