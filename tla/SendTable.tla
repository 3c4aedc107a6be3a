----------------------------- MODULE SendTable ------------------------------
(***************************************************************************)
(* try_send_any of session/src/channel.rs, by several threads at once, and *)
(* the poll of SendFuture (and of SendReplyFuture until it has sent) that  *)
(* waits when the table is full.  Each access to an atomic, to a slot's    *)
(* mutex or to send_wakers is a step.                                      *)
(*                                                                         *)
(* Nothing in the source frees a send slot yet: Fin, Close and the wake-up *)
(* that goes with them are modelled from how the rest uses the counters.   *)
(* A slot is counted out of send_total when its document is finished and   *)
(* its channel is closed, which is what the search for a free slot needs.  *)
(***************************************************************************)
EXTENDS Integers, Sequences, FiniteSets

CONSTANTS
    Senders,   \* tasks that send documents
    Waits,     \* those that wait for space, with SendFuture; the others try again
    LenOf,     \* sender -> lengths of its documents, the last one first
    Count,     \* documents each sender has to send
    N,         \* send_table.len()
    BytesMax   \* send_bytes_max

ASSUME SendAssumption ==
    /\ IsFiniteSet(Senders) /\ Waits \subseteq Senders
    /\ \A s \in Senders : \A k \in 1..Count : LenOf[s][k] \in Nat \ {0}
    /\ Count \in Nat /\ N \in Nat \ {0} /\ BytesMax \in Nat \ {0}

VARIABLES
    table,             \* the slots of send_table
    send_total,
    send_bytes_total,
    send_doc_no,
    send_wakers,       \* queue of the tasks' wakers
    pc,                \* where each sender is in its poll
    no,                \* the doc_no its loop is at
    waited,            \* has_waited
    left,              \* documents it has still to send
    refused            \* history: sends that ended with TooLarge

vars == <<table, send_total, send_bytes_total, send_doc_no, send_wakers, pc, no, waited, left, refused>>

Slots == 0..(N - 1)

FreeSlot == [doc_no |-> 0, parent |-> 0, doc |-> FALSE, channel |-> FALSE, len |-> 0]

IsFree(e) == ~e.doc /\ ~e.channel

Init ==
    /\ table = [i \in Slots |-> FreeSlot]
    /\ send_total = 0
    /\ send_bytes_total = 0
    /\ send_doc_no = 1
    /\ send_wakers = <<>>
    /\ pc = [s \in Senders |-> "idle"]
    /\ no = [s \in Senders |-> 0]
    /\ waited = [s \in Senders |-> FALSE]
    /\ left = [s \in Senders |-> Count]
    /\ refused = 0

\* The length of the document that s is sending.
Length(s) == LenOf[s][left[s]]

Goto(s, label) == pc' = [pc EXCEPT ![s] = label]

\* TrySendError::Full: a waiting sender goes on to leave its waker, another one returns.
Full(s) == Goto(s, IF s \in Waits THEN "register" ELSE "idle")

\* A task that waits is polled again; a stale waker does nothing.
Woken(s) == IF pc[s] = "asleep" THEN [pc EXCEPT ![s] = "idle"] ELSE pc

\* Mutant: the table may be overfilled by one.
TableFullLate(total) == total > N

\* The check of send_total, on the value before the increment.
TableFull(total) == total + 1 >= N

\* send_total.fetch_add.
AddTotal(s) ==
    /\ pc[s] = "idle" /\ left[s] > 0
    /\ send_total' = send_total + 1
    /\ Goto(s, IF TableFull(send_total) THEN "undo total" ELSE "bytes")
    /\ UNCHANGED <<table, send_bytes_total, send_doc_no, send_wakers, no, waited, left, refused>>

\* Mutant: decremented once too often.
UndoTotalTwice(s) ==
    /\ pc[s] = "undo total"
    /\ send_total' = send_total - 2
    /\ Full(s)
    /\ UNCHANGED <<table, send_bytes_total, send_doc_no, send_wakers, no, waited, left, refused>>

UndoTotal(s) ==
    /\ pc[s] = "undo total"
    /\ send_total' = send_total - 1
    /\ Full(s)
    /\ UNCHANGED <<table, send_bytes_total, send_doc_no, send_wakers, no, waited, left, refused>>

\* Mutant: the document itself is not counted.
BytesFullWithout(total, len) == total >= BytesMax

\* The check of send_bytes_total, on the value before the increment.
BytesFull(total, len) == total + len >= BytesMax

\* The load of send_bytes_max, which may end the call (and its future) with TooLarge, and
\* send_bytes_total.fetch_add.
AddBytes(s) ==
    /\ pc[s] = "bytes"
    /\ \/ /\ Length(s) >= BytesMax
          /\ Goto(s, "idle")
          /\ left' = [left EXCEPT ![s] = @ - 1]
          /\ waited' = [waited EXCEPT ![s] = FALSE]
          /\ refused' = refused + 1
          /\ UNCHANGED send_bytes_total
       \/ /\ Length(s) < BytesMax
          /\ send_bytes_total' = send_bytes_total + Length(s)
          /\ Goto(s, IF BytesFull(send_bytes_total, Length(s)) THEN "undo bytes" ELSE "pick")
          /\ UNCHANGED <<waited, left, refused>>
    /\ UNCHANGED <<table, send_total, send_doc_no, send_wakers, no>>

\* send_bytes_total.fetch_sub; send_total is decremented next.
UndoBytes(s) ==
    /\ pc[s] = "undo bytes"
    /\ send_bytes_total' = send_bytes_total - Length(s)
    /\ Goto(s, "undo total")
    /\ UNCHANGED <<table, send_total, send_doc_no, send_wakers, no, waited, left, refused>>

\* Top of the loop: send_doc_no.fetch_add.
Pick(s) ==
    /\ pc[s] = "pick"
    /\ no' = [no EXCEPT ![s] = send_doc_no]
    /\ send_doc_no' = send_doc_no + 2
    /\ Goto(s, "slot")
    /\ UNCHANGED <<table, send_total, send_bytes_total, send_wakers, waited, left, refused>>

\* Mutant: a slot whose document is finished is taken with its channel still open.
TakeableOnFin(e) == ~e.doc

Takeable(e) == IsFree(e)

\* Rest of the loop, under the slot's lock.
TakeSlot(s) ==
    LET i == (no[s] \div 2) % N IN
    /\ pc[s] = "slot"
    /\ IF Takeable(table[i])
       THEN /\ table' = [table EXCEPT ![i] = [doc_no |-> no[s], parent |-> no[s], doc |-> TRUE,
                                              channel |-> TRUE, len |-> Length(s)]]
            /\ left' = [left EXCEPT ![s] = @ - 1]
            /\ Goto(s, IF waited[s] THEN "chain" ELSE "idle")
       ELSE /\ Goto(s, "pick")
            /\ UNCHANGED <<table, left>>
    /\ UNCHANGED <<send_total, send_bytes_total, send_doc_no, send_wakers, no, waited, refused>>

\* A send that has waited wakes the next one.
Chain(s) ==
    LET next == IF send_wakers = <<>> THEN s ELSE Head(send_wakers) IN
    /\ pc[s] = "chain"
    /\ pc' = [Woken(next) EXCEPT ![s] = "idle"]
    /\ send_wakers' = IF send_wakers = <<>> THEN <<>> ELSE Tail(send_wakers)
    /\ waited' = [waited EXCEPT ![s] = FALSE]
    /\ UNCHANGED <<table, send_total, send_bytes_total, send_doc_no, no, left, refused>>

\* The table was full: leave the waker and return Pending.
Register(s) ==
    /\ pc[s] = "register"
    /\ send_wakers' = Append(send_wakers, s)
    /\ waited' = [waited EXCEPT ![s] = TRUE]
    /\ Goto(s, "asleep")
    /\ UNCHANGED <<table, send_total, send_bytes_total, send_doc_no, no, left, refused>>

\* External: space was freed, the first waker is called.
WakeFirst ==
    /\ pc' = IF send_wakers = <<>> THEN pc ELSE Woken(Head(send_wakers))
    /\ send_wakers' = IF send_wakers = <<>> THEN <<>> ELSE Tail(send_wakers)

\* External: the peer's fin for the document in slot i.
Fin(i) ==
    /\ table[i].doc
    /\ table' = [table EXCEPT ![i].doc = FALSE, ![i].len = 0]
    /\ send_bytes_total' = send_bytes_total - table[i].len
    /\ send_total' = IF table[i].channel THEN send_total ELSE send_total - 1
    /\ WakeFirst
    /\ UNCHANGED <<send_doc_no, no, waited, left, refused>>

\* The channel of slot i is closed; external: what it frees.
Close(i) ==
    /\ table[i].channel
    /\ table' = [table EXCEPT ![i].channel = FALSE]
    /\ send_total' = IF table[i].doc THEN send_total ELSE send_total - 1
    /\ WakeFirst
    /\ UNCHANGED <<send_bytes_total, send_doc_no, no, waited, left, refused>>

SendStep(s) ==
    \/ AddTotal(s) \/ UndoTotal(s) \/ AddBytes(s) \/ UndoBytes(s)
    \/ Pick(s) \/ TakeSlot(s) \/ Chain(s) \/ Register(s)

Next ==
    \/ \E s \in Senders : SendStep(s)
    \/ \E i \in Slots : Fin(i) \/ Close(i)

Spec == Init /\ [][Next]_vars

\* Tasks are run, a caller tries again, documents are finished and channels closed.
FairSpec ==
    /\ Spec
    /\ \A s \in Senders : WF_vars(SendStep(s))
    /\ \A i \in Slots : WF_vars(Fin(i)) /\ WF_vars(Close(i))

-----------------------------------------------------------------------------
(* Properties.                                                             *)

\* The types of the counters and of the table; the counters never wrap below zero.
TypeOK ==
    /\ send_total \in Nat /\ send_bytes_total \in Nat
    /\ \A i \in Slots : table[i].len \in Nat
    /\ pc \in [Senders -> {"idle", "undo total", "bytes", "undo bytes", "pick", "slot", "chain",
                           "register", "asleep"}]

Taken == {i \in Slots : ~IsFree(table[i])}

Looping == {s \in Senders : pc[s] \in {"pick", "slot"}}

\* The bytes of documents of lengths len, one for each element of S.
BytesIn(S, len) == {x \in S \X (1..BytesMax) : x[2] <= len[x[1]]}

\* The bytes of the documents in the table, and of those about to be put into it.
TableBytes == BytesIn(Slots, [i \in Slots |-> table[i].len])
LoopBytes == BytesIn(Looping, [s \in Looping |-> Length(s)])

\* Whoever is in the search for an unused document number has a free slot to find: the
\* limit checks before it keep the loop from spinning for ever (channel.rs:163).
SlotForEach == Cardinality(Slots \ Taken) >= Cardinality(Looping)

\* The documents being sent and those about to be put into the table stay below
\* send_bytes_max, whatever the order of the unsynchronised increments and decrements.
BytesBelowMax == Cardinality(TableBytes) + Cardinality(LoopBytes) < BytesMax

\* When no call is under way send_total counts the taken slots and the refused sends, whose
\* increment nothing takes back, and send_bytes_total the bytes in the slots: attempts that
\* fail because of others leave nothing behind (channel.rs:137-141, 154), and no document is
\* written over another one or over an open channel.
CountersSettle ==
    (\A s \in Senders : pc[s] \in {"idle", "asleep"}) =>
        /\ send_total = Cardinality(Taken) + refused
        /\ send_bytes_total = Cardinality(TableBytes)

\* A document's parent is older: its number is smaller, as the receiver demands
\* (recv.rs:223-227).
ParentIsOlder == \A i \in Slots : table[i].doc => table[i].parent < table[i].doc_no

\* When nothing is in the table and no call is under way nobody is left asleep
\* (channel.rs:357-358).
NobodyLeftAsleep ==
    Taken = {} /\ (\A s \in Senders : pc[s] = "asleep" \/ (pc[s] = "idle" /\ left[s] = 0)) =>
        \A s \in Senders : pc[s] # "asleep"

\* A document that did not fit because of others is sent in the end: being blocked is
\* self-resolving for a caller that tries again (channel.rs:137-141).
AllSent == <>(\A s \in Senders : left[s] = 0)
=============================================================================
