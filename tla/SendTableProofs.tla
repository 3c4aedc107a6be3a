--------------------------- MODULE SendTableProofs --------------------------
(***************************************************************************)
(* The limit of send_table, for any number of senders and of slots: the    *)
(* unsynchronised increments and decrements of send_total never let more   *)
(* calls into the search for a slot than there are free slots.  The same   *)
(* holds of the bytes, whose total is a sum over the table.                *)
(***************************************************************************)
EXTENDS SendTable, FiniteSetTheorems, TLAPS

\* A leaf that names no prover is tried with these, in this order.
USE SMTT(10), Zenon, Z3T(30)

Labels == {"idle", "undo total", "bytes", "undo bytes", "pick", "slot", "chain", "register", "asleep"}

Entry == [doc_no : Nat, parent : Nat, doc : BOOLEAN, channel : BOOLEAN, len : Nat]

\* Labels of a call whose increment of send_total has neither been taken back nor become a
\* document, and of one that has also passed the check of send_total.
CountedAt == {"undo total", "bytes", "undo bytes", "pick", "slot"}
PassedAt == {"bytes", "undo bytes", "pick", "slot"}

Counted == {s \in Senders : pc[s] \in CountedAt}
Passed == {s \in Senders : pc[s] \in PassedAt}

\* What the proofs need of the types; a call under way has a document to send.
Typed ==
    /\ table \in [Slots -> Entry]
    /\ send_total \in Nat /\ refused \in Nat /\ send_doc_no \in Nat
    /\ pc \in [Senders -> Labels]
    /\ no \in [Senders -> Nat]
    /\ left \in [Senders -> 0..Count]
    /\ \A s \in Senders : pc[s] \in CountedAt => left[s] > 0

\* send_total counts the taken slots, the refused sends and the calls that have incremented
\* it and are still under way, in every state (channel.rs:135-157).
TotalExact == send_total = Cardinality(Taken) + refused + Cardinality(Counted)

\* The taken slots and the calls past the check are fewer than the slots.
Room == Cardinality(Taken) + Cardinality(Passed) < N

SendInv == Typed /\ TotalExact /\ Room

-----------------------------------------------------------------------------
\* The sets that are counted are finite, and those who search or hold a slot are counted.
LEMMA Finite ==
    /\ IsFiniteSet(Slots) /\ Cardinality(Slots) = N
    /\ IsFiniteSet(Taken) /\ Cardinality(Taken) \in Nat
    /\ IsFiniteSet(Counted) /\ Cardinality(Counted) \in Nat
    /\ IsFiniteSet(Passed) /\ Cardinality(Passed) \in Nat
    /\ Cardinality(Passed) <= Cardinality(Counted)
<1>1. IsFiniteSet(Slots) /\ Cardinality(Slots) = N
  <2>1. N \in Nat /\ N - 1 \in Int /\ 0 \in Int /\ N > 0
    BY SendAssumption
  <2> QED
    BY <2>1, FS_Interval DEF Slots
<1>2. Taken \subseteq Slots /\ Counted \subseteq Senders /\ Passed \subseteq Counted
  BY Zenon DEF Taken, Counted, Passed, CountedAt, PassedAt
<1>3. IsFiniteSet(Taken) /\ IsFiniteSet(Counted)
  BY <1>1, <1>2, FS_Subset, SendAssumption
<1>4. IsFiniteSet(Passed) /\ Cardinality(Passed) <= Cardinality(Counted)
  BY <1>2, <1>3, FS_Subset
<1> QED
  BY <1>1, <1>3, <1>4, FS_CardinalityType

\* One element more.
LEMMA OneMore ==
    ASSUME NEW S, NEW T, NEW x, IsFiniteSet(S), x \notin S, T = S \cup {x}
    PROVE  Cardinality(T) = Cardinality(S) + 1
  BY FS_AddElement

\* One element less.
LEMMA OneLess ==
    ASSUME NEW S, NEW T, NEW x, IsFiniteSet(S), x \in S, T = S \ {x}
    PROVE  Cardinality(T) = Cardinality(S) - 1
  BY FS_RemoveElement

\* A sender whose label alone changes enters or leaves the two sets with its label.
LEMMA Moves ==
    ASSUME Typed, NEW s \in Senders, NEW label \in Labels, Goto(s, label)
    PROVE  /\ pc' \in [Senders -> Labels] /\ pc'[s] = label
           /\ \A t \in Senders : t # s => pc'[t] = pc[t]
           /\ Counted' = IF label \in CountedAt THEN Counted \cup {s} ELSE Counted \ {s}
           /\ Passed' = IF label \in PassedAt THEN Passed \cup {s} ELSE Passed \ {s}
<1>1. /\ pc' \in [Senders -> Labels] /\ pc'[s] = label
      /\ \A t \in Senders : t # s => pc'[t] = pc[t]
  BY DEF Typed, Goto
<1>2. Counted' = IF label \in CountedAt THEN Counted \cup {s} ELSE Counted \ {s}
  BY <1>1 DEF Counted
<1>3. Passed' = IF label \in PassedAt THEN Passed \cup {s} ELSE Passed \ {s}
  BY <1>1 DEF Passed
<1> QED
  BY <1>1, <1>2, <1>3

\* A sender that goes on with its document has one.
LEMMA MovesOn ==
    ASSUME Typed, NEW s \in Senders, NEW label \in Labels, Goto(s, label), left[s] > 0
    PROVE  pc' \in [Senders -> Labels] /\ \A t \in Senders : pc'[t] \in CountedAt => left[t] > 0
<1>1. pc' \in [Senders -> Labels] /\ \A t \in Senders : t # s => pc'[t] = pc[t]
  BY Moves
<1> QED
  BY <1>1 DEF Typed

\* Waking a sleeping sender changes neither set.
LEMMA Wakes ==
    ASSUME Typed, NEW x, pc' = Woken(x)
    PROVE  /\ pc' \in [Senders -> Labels]
           /\ \A t \in Senders : pc'[t] \in CountedAt <=> pc[t] \in CountedAt
           /\ Counted' = Counted /\ Passed' = Passed
<1>1. /\ pc' \in [Senders -> Labels]
      /\ \A t \in Senders : pc'[t] = pc[t] \/ (pc[t] = "asleep" /\ pc'[t] = "idle")
  BY Zenon DEF Typed, Woken, Labels
<1> QED
  BY <1>1, Zenon DEF Counted, Passed, CountedAt, PassedAt

\* The length of the document of a call under way is a number.
LEMMA LengthIsNat ==
    ASSUME Typed, NEW s \in Senders, pc[s] \in CountedAt
    PROVE  Length(s) \in Nat /\ left[s] - 1 \in 0..Count
<1>1. left[s] \in 1..Count
  BY SendAssumption DEF Typed
<1> QED
  BY <1>1, SendAssumption DEF Length

\* SendInv holds at first: no slot is taken and no call is under way.
LEMMA InitInv == Init => SendInv
<1> SUFFICES ASSUME Init PROVE SendInv
  OBVIOUS
<1>1. Typed
  BY SendAssumption DEF Init, Typed, Entry, FreeSlot, Labels, CountedAt
<1>2. Taken = {} /\ Counted = {} /\ Passed = {}
  BY Zenon DEF Init, Taken, IsFree, FreeSlot, Counted, Passed, CountedAt, PassedAt
<1>3. Cardinality({}) = 0
  BY FS_EmptySet
<1> QED
  BY <1>1, <1>2, <1>3, SendAssumption DEF SendInv, TotalExact, Room, Init

\* A step of the call of one sender preserves SendInv.
LEMMA SenderInv ==
    ASSUME SendInv, NEW s \in Senders, SendStep(s)
    PROVE  SendInv'
<1> USE DEF SendInv
<1>n. N \in Nat \ {0}
  BY SendAssumption
<1>f. Typed /\ TotalExact /\ Room
  OBVIOUS
<1>c. /\ Cardinality(Taken) \in Nat /\ Cardinality(Counted) \in Nat /\ Cardinality(Passed) \in Nat
      /\ Cardinality(Passed) <= Cardinality(Counted) /\ send_total \in Nat /\ refused \in Nat
  BY Finite, <1>f DEF Typed
<1>t. table' = table => Taken' = Taken
  BY DEF Taken, IsFree, Slots
<1>1. CASE AddTotal(s)
  <2>1. CASE TableFull(send_total)
    <3>1. Goto(s, "undo total") /\ "undo total" \in Labels /\ "undo total" \in CountedAt /\ "undo total" \notin PassedAt
      BY <1>1, <2>1, Zenon DEF AddTotal, Labels, CountedAt, PassedAt
    <3>2. s \notin Counted /\ s \notin Passed
      BY <1>1, Zenon DEF AddTotal, Counted, Passed, CountedAt, PassedAt
    <3>3. Counted' = Counted \cup {s} /\ Passed' = Passed \ {s}
      BY <3>1, <1>f, Moves, Zenon
    <3>4. Cardinality(Counted') = Cardinality(Counted) + 1
      BY <3>2, <3>3, Finite, OneMore, Zenon
    <3>5. pc' \in [Senders -> Labels] /\ \A t \in Senders : pc'[t] \in CountedAt => left[t] > 0
      BY <1>1, <3>1, <1>f, MovesOn, Zenon DEF AddTotal
    <3>6. Typed'
      <4>1. send_total' = send_total + 1
        BY <1>1, Zenon DEF AddTotal
      <4>2. send_total' \in Nat
        BY <4>1, <1>c
      <4> QED
        BY <1>1, <1>f, <3>5, <4>2, Zenon DEF AddTotal, Typed
    <3>7. send_total' = send_total + 1 /\ refused' = refused /\ Taken' = Taken /\ Passed' = Passed
      BY <1>1, <1>t, <3>2, <3>3, Zenon DEF AddTotal
    <3> QED
      BY <1>f, <1>c, <3>4, <3>6, <3>7 DEF TotalExact, Room
  <2>2. CASE ~TableFull(send_total)
    <3>1. Goto(s, "bytes") /\ "bytes" \in Labels /\ "bytes" \in CountedAt /\ "bytes" \in PassedAt
      BY <1>1, <2>2 DEF AddTotal, Labels, CountedAt, PassedAt
    <3>2. s \notin Counted /\ s \notin Passed
      BY <1>1, Zenon DEF AddTotal, Counted, Passed, CountedAt, PassedAt
    <3>3. Counted' = Counted \cup {s} /\ Passed' = Passed \cup {s}
      BY <3>1, <1>f, Moves, Zenon
    <3>4. Cardinality(Counted') = Cardinality(Counted) + 1 /\ Cardinality(Passed') = Cardinality(Passed) + 1
      BY <3>2, <3>3, Finite, OneMore
    <3>5. pc' \in [Senders -> Labels] /\ \A t \in Senders : pc'[t] \in CountedAt => left[t] > 0
      BY <1>1, <3>1, <1>f, MovesOn, Zenon DEF AddTotal
    <3>6. Typed'
      <4>1. send_total' = send_total + 1
        BY <1>1, Zenon DEF AddTotal
      <4>2. send_total' \in Nat
        BY <4>1, <1>c
      <4> QED
        BY <1>1, <1>f, <3>5, <4>2, Zenon DEF AddTotal, Typed
    <3>7. send_total' = send_total + 1 /\ refused' = refused /\ Taken' = Taken
      BY <1>1, <1>t, Zenon DEF AddTotal
    <3>8. send_total + 1 < N
      BY <2>2, <1>c, <1>n DEF TableFull
    <3> QED
      BY <1>f, <1>c, <1>n, <3>4, <3>6, <3>7, <3>8 DEF TotalExact, Room
  <2> QED
    BY <2>1, <2>2
<1>2. CASE UndoTotal(s)
  <2>1. PICK label \in {"register", "idle"} : Goto(s, label)
    BY <1>2, Zenon DEF UndoTotal, Full
  <2>2. label \in Labels /\ label \notin CountedAt /\ label \notin PassedAt
    BY Zenon DEF Labels, CountedAt, PassedAt
  <2>3. s \in Counted /\ s \notin Passed
    BY <1>2, Zenon DEF UndoTotal, Counted, Passed, CountedAt, PassedAt
  <2>4. Counted' = Counted \ {s} /\ Passed' = Passed
    BY <2>1, <2>2, <2>3, <1>f, Moves
  <2>5. Cardinality(Counted') = Cardinality(Counted) - 1
    BY <2>3, <2>4, Finite, OneLess
  <2>6. send_total' = send_total - 1 /\ refused' = refused /\ Taken' = Taken
    BY <1>2, <1>t, Zenon DEF UndoTotal
  <2>7. Cardinality(Counted') \in Nat
    BY <2>4, Finite, FS_RemoveElement, FS_CardinalityType, Zenon
  <2>8. send_total' \in Nat
    BY <1>c, <1>f, <2>5, <2>6, <2>7 DEF TotalExact
  <2>9. Typed'
    BY <1>2, <2>1, <2>2, <2>8, <1>f, Moves, Zenon DEF UndoTotal, Typed
  <2> QED
    BY <1>c, <1>f, <2>4, <2>5, <2>6, <2>9 DEF TotalExact, Room
<1>3. CASE AddBytes(s)
  <2>1. s \in Counted /\ s \in Passed /\ pc[s] \in CountedAt
    BY <1>3, Zenon DEF AddBytes, Counted, Passed, CountedAt, PassedAt
  <2>2. CASE Length(s) >= BytesMax /\ Goto(s, "idle") /\ left' = [left EXCEPT ![s] = @ - 1] /\ refused' = refused + 1
    <3>1. "idle" \in Labels /\ "idle" \notin CountedAt /\ "idle" \notin PassedAt
      BY DEF Labels, CountedAt, PassedAt
    <3>2. Counted' = Counted \ {s} /\ Passed' = Passed \ {s}
      BY <2>2, <3>1, <1>f, Moves
    <3>3. Cardinality(Counted') = Cardinality(Counted) - 1 /\ Cardinality(Passed') = Cardinality(Passed) - 1
      BY <2>1, <3>2, Finite, OneLess
    <3>4. left[s] - 1 \in 0..Count
      BY <2>1, <1>f, LengthIsNat
    <3>5. /\ pc' \in [Senders -> Labels] /\ pc'[s] \notin CountedAt
          /\ \A t \in Senders : t # s => pc'[t] = pc[t]
      BY <2>2, <3>1, <1>f, Moves
    <3>6. left' \in [Senders -> 0..Count] /\ \A t \in Senders : t # s => left'[t] = left[t]
      BY <2>2, <3>4, <1>f DEF Typed
    <3>7. send_total' = send_total /\ refused' = refused + 1 /\ Taken' = Taken
      BY <1>3, <1>t, <2>2, Zenon DEF AddBytes
    <3>8. refused' \in Nat
      BY <3>7, <1>c
    <3>9. Typed'
      BY <1>3, <1>f, <3>5, <3>6, <3>8, Zenon DEF AddBytes, Typed
    <3> QED
      BY <1>c, <1>f, <1>n, <3>3, <3>7, <3>9 DEF TotalExact, Room
  <2>3. CASE Length(s) < BytesMax /\ (Goto(s, "undo bytes") \/ Goto(s, "pick")) /\ UNCHANGED <<left, refused>>
    <3>1. PICK label \in {"undo bytes", "pick"} : Goto(s, label)
      BY <2>3, Zenon
    <3>2. label \in Labels /\ label \in CountedAt /\ label \in PassedAt
      BY Zenon DEF Labels, CountedAt, PassedAt
    <3>3. Counted' = Counted /\ Passed' = Passed
      <4>1. Counted' = Counted \cup {s} /\ Passed' = Passed \cup {s}
        BY <3>1, <3>2, <1>f, Moves, Zenon
      <4> QED
        BY <4>1, <2>1, Zenon
    <3>4. Typed'
      BY <1>3, <2>1, <2>3, <3>1, <3>2, <1>f, Moves, Zenon DEF AddBytes, Typed
    <3> QED
      BY <1>3, <1>t, <1>f, <2>3, <3>3, <3>4, Zenon DEF AddBytes, TotalExact, Room
  <2> QED
    BY <1>3, <2>2, <2>3, Zenon DEF AddBytes
<1>4. CASE UndoBytes(s)
  <2>1. Goto(s, "undo total") /\ "undo total" \in Labels /\ "undo total" \in CountedAt /\ "undo total" \notin PassedAt
    BY <1>4, Zenon DEF UndoBytes, Labels, CountedAt, PassedAt
  <2>2. s \in Counted /\ s \in Passed /\ pc[s] \in CountedAt
    BY <1>4, Zenon DEF UndoBytes, Counted, Passed, CountedAt, PassedAt
  <2>3. Counted' = Counted \cup {s} /\ Passed' = Passed \ {s}
    BY <2>1, <1>f, Moves, Zenon
  <2>4. Cardinality(Passed') = Cardinality(Passed) - 1
    BY <2>2, <2>3, Finite, OneLess
  <2>5. Typed'
    BY <1>4, <2>1, <2>2, <1>f, Moves, Zenon DEF UndoBytes, Typed
  <2> QED
    <3>1. send_total' = send_total /\ refused' = refused /\ Taken' = Taken /\ Counted' = Counted
      BY <1>4, <1>t, <2>2, <2>3, Zenon DEF UndoBytes
    <3> QED
      BY <1>c, <1>f, <1>n, <2>4, <2>5, <3>1 DEF TotalExact, Room
<1>5. CASE Pick(s)
  <2>1. Goto(s, "slot") /\ "slot" \in Labels /\ "slot" \in CountedAt /\ "slot" \in PassedAt
    BY <1>5 DEF Pick, Labels, CountedAt, PassedAt
  <2>2. s \in Counted /\ s \in Passed /\ pc[s] \in CountedAt
    BY <1>5, Zenon DEF Pick, Counted, Passed, CountedAt, PassedAt
  <2>3. Counted' = Counted /\ Passed' = Passed
    BY <2>1, <2>2, <1>f, Moves
  <2>4. Typed'
    BY <1>5, <2>1, <2>2, <1>f, Moves DEF Pick, Typed
  <2> QED
    BY <1>5, <1>t, <1>f, <2>3, <2>4, Zenon DEF Pick, TotalExact, Room
<1>6. CASE TakeSlot(s)
  <2> DEFINE i == (no[s] \div 2) % N
  <2>1. s \in Counted /\ s \in Passed /\ pc[s] \in CountedAt
    BY <1>6, Zenon DEF TakeSlot, Counted, Passed, CountedAt, PassedAt
  <2>2. i \in Slots
    BY <1>n, <1>f DEF Typed, Slots
  <2>3. CASE Takeable(table[i])
    <3> DEFINE e == [doc_no |-> no[s], parent |-> no[s], doc |-> TRUE, channel |-> TRUE, len |-> Length(s)]
    <3>1. table' = [table EXCEPT ![i] = e] /\ left' = [left EXCEPT ![s] = @ - 1]
      BY <1>6, <2>3 DEF TakeSlot
    <3>2. PICK label \in {"chain", "idle"} : Goto(s, label)
      BY <1>6, <2>3 DEF TakeSlot
    <3>3. label \in Labels /\ label \notin CountedAt /\ label \notin PassedAt
      BY Zenon DEF Labels, CountedAt, PassedAt
    <3>4. Counted' = Counted \ {s} /\ Passed' = Passed \ {s}
      BY <3>2, <3>3, <1>f, Moves, Zenon
    <3>5. Cardinality(Counted') = Cardinality(Counted) - 1 /\ Cardinality(Passed') = Cardinality(Passed) - 1
      BY <2>1, <3>4, Finite, OneLess, Zenon
    <3>6. Length(s) \in Nat /\ left[s] - 1 \in 0..Count
      BY <2>1, <1>f, LengthIsNat
    <3>7. e \in Entry
      BY <3>6, <1>f, Zenon DEF Entry, Typed
    <3>8. table' \in [Slots -> Entry]
      BY <3>1, <3>7, <1>f, Zenon DEF Typed
    <3>9. Typed'
      BY <1>6, <3>1, <3>2, <3>3, <3>6, <3>8, <1>f, Moves, ZenonT(30) DEF TakeSlot, Typed
    <3>10. i \notin Taken /\ ~IsFree(e)
      BY <2>3 DEF Taken, Takeable, IsFree
    <3>11. table'[i] = e /\ \A j \in Slots : j # i => table'[j] = table[j]
      BY <3>1, <2>2, <1>f DEF Typed
    <3>12. Taken' = {j \in Slots : ~IsFree(table'[j])}
      BY Zenon DEF Taken, IsFree, Slots
    <3>13. Taken' = Taken \cup {i}
      BY <2>2, <3>10, <3>11, <3>12, Zenon DEF Taken
    <3>14. Cardinality(Taken') = Cardinality(Taken) + 1
      BY <3>10, <3>13, Finite, OneMore, Zenon
    <3> QED
      BY <1>6, <1>f, <1>n, <3>5, <3>9, <3>14, Finite DEF TakeSlot, TotalExact, Room, Typed
  <2>4. CASE ~Takeable(table[i])
    <3>1. Goto(s, "pick") /\ UNCHANGED <<table, left>>
      BY <1>6, <2>4 DEF TakeSlot
    <3>2. "pick" \in Labels /\ "pick" \in CountedAt /\ "pick" \in PassedAt
      BY DEF Labels, CountedAt, PassedAt
    <3>3. Counted' = Counted /\ Passed' = Passed
      BY <2>1, <3>1, <3>2, <1>f, Moves
    <3>4. Typed'
      BY <1>6, <2>1, <3>1, <3>2, <1>f, Moves, Zenon DEF TakeSlot, Typed
    <3> QED
      BY <1>6, <1>t, <1>f, <3>1, <3>3, <3>4, Zenon DEF TakeSlot, TotalExact, Room
  <2> QED
    BY <2>3, <2>4
<1>7. CASE Chain(s)
  <2>1. \A t \in Senders : pc'[t] = pc[t] \/ (pc[t] \in {"asleep", "chain"} /\ pc'[t] = "idle")
    BY <1>7, <1>f DEF Chain, Woken, Typed
  <2>2. pc' \in [Senders -> Labels]
    BY <1>7, <1>f, Zenon DEF Chain, Woken, Typed, Labels
  <2>3. \A t \in Senders : (pc'[t] \in CountedAt <=> pc[t] \in CountedAt) /\ (pc'[t] \in PassedAt <=> pc[t] \in PassedAt)
    BY <2>1, Zenon DEF CountedAt, PassedAt
  <2>4. Counted' = Counted /\ Passed' = Passed
    BY <2>3, Zenon DEF Counted, Passed
  <2>5. Typed'
    BY <1>7, <2>2, <2>3, <1>f DEF Chain, Typed
  <2> QED
    BY <1>7, <1>t, <1>f, <2>4, <2>5, Zenon DEF Chain, TotalExact, Room
<1>8. CASE Register(s)
  <2>1. Goto(s, "asleep") /\ "asleep" \in Labels /\ "asleep" \notin CountedAt /\ "asleep" \notin PassedAt
    BY <1>8 DEF Register, Labels, CountedAt, PassedAt
  <2>2. s \notin Counted /\ s \notin Passed
    BY <1>8, Zenon DEF Register, Counted, Passed, CountedAt, PassedAt
  <2>3. Counted' = Counted /\ Passed' = Passed
    <3>1. Counted' = Counted \ {s} /\ Passed' = Passed \ {s}
      BY <2>1, <1>f, Moves
    <3> QED
      BY <3>1, <2>2
  <2>4. Typed'
    BY <1>8, <2>1, <1>f, Moves, Zenon DEF Register, Typed
  <2> QED
    BY <1>8, <1>t, <1>f, <2>3, <2>4 DEF Register, TotalExact, Room
<1> QED
  BY <1>1, <1>2, <1>3, <1>4, <1>5, <1>6, <1>7, <1>8, Zenon DEF SendStep

\* The first waker, if there is one, wakes its task and nothing else.
LEMMA FirstWakes ==
    ASSUME Typed, WakeFirst
    PROVE  /\ pc' \in [Senders -> Labels]
           /\ \A t \in Senders : pc'[t] \in CountedAt <=> pc[t] \in CountedAt
           /\ Counted' = Counted /\ Passed' = Passed
<1>1. CASE pc' = pc
  BY <1>1 DEF Typed, Counted, Passed
<1>2. CASE pc' = Woken(Head(send_wakers))
  BY <1>2, Wakes
<1> QED
  BY <1>1, <1>2, Zenon DEF WakeFirst

\* An entry of a slot is freed exactly when the decrement of send_total goes with it.
LEMMA Released ==
    ASSUME SendInv, NEW i \in Slots, NEW e \in Entry,
           table[i].doc \/ table[i].channel,
           table' = [table EXCEPT ![i] = e],
           send_total' = IF IsFree(e) THEN send_total - 1 ELSE send_total,
           WakeFirst, UNCHANGED <<send_doc_no, no, left, refused>>
    PROVE  SendInv'
<1>f. Typed /\ TotalExact /\ Room /\ N \in Nat
  BY SendAssumption DEF SendInv
<1>1. table' \in [Slots -> Entry] /\ table'[i] = e /\ \A j \in Slots : j # i => table'[j] = table[j]
  BY <1>f DEF Typed
<1>2. Taken' = {j \in Slots : ~IsFree(table'[j])} /\ i \in Taken
  BY DEF Taken, IsFree, Slots
<1>3. Taken' = IF IsFree(e) THEN Taken \ {i} ELSE Taken
  BY <1>1, <1>2 DEF Taken
<1>4. Cardinality(Taken') = IF IsFree(e) THEN Cardinality(Taken) - 1 ELSE Cardinality(Taken)
  BY <1>2, <1>3, Finite, OneLess, Zenon
<1>5. Cardinality(Taken') \in Nat
  BY <1>2, <1>3, Finite, FS_RemoveElement, FS_CardinalityType, Zenon
<1>6. Counted' = Counted /\ Passed' = Passed
  BY <1>f, FirstWakes
<1>7. TotalExact' /\ Room'
  BY <1>f, <1>4, <1>5, <1>6, Finite DEF TotalExact, Room, Typed
<1>8. send_total' \in Nat
  BY <1>7, <1>5, <1>6, <1>f, Finite DEF TotalExact, Typed
<1>9. Typed'
  BY <1>f, <1>1, <1>8, FirstWakes DEF Typed
<1> QED
  BY <1>7, <1>9 DEF SendInv

\* The end of a document or of its channel preserves SendInv.
LEMMA SlotInv ==
    ASSUME SendInv, NEW i \in Slots, Fin(i) \/ Close(i)
    PROVE  SendInv'
<1>1. table \in [Slots -> Entry] /\ table[i] \in Entry
  BY DEF SendInv, Typed
<1>2. CASE Fin(i)
  <2> DEFINE e == [table[i] EXCEPT !.doc = FALSE, !.len = 0]
  <2>1. e \in Entry /\ e.channel = table[i].channel /\ e.doc = FALSE
    BY <1>1, Zenon DEF Entry
  <2>2. table' = [table EXCEPT ![i] = e]
    BY <1>2, <1>1, Zenon DEF Fin, Entry
  <2>3. send_total' = IF IsFree(e) THEN send_total - 1 ELSE send_total
    BY <1>2, <2>1 DEF Fin, IsFree
  <2> HIDE DEF e
  <2> QED
    BY <1>2, <2>1, <2>2, <2>3, Released, Zenon DEF Fin
<1>3. CASE Close(i)
  <2> DEFINE e == [table[i] EXCEPT !.channel = FALSE]
  <2>1. e \in Entry /\ e.doc = table[i].doc /\ e.channel = FALSE
    BY <1>1, Zenon DEF Entry
  <2>2. table' = [table EXCEPT ![i] = e]
    BY <1>3, <1>1 DEF Close, Entry
  <2>3. send_total' = IF IsFree(e) THEN send_total - 1 ELSE send_total
    BY <1>3, <2>1 DEF Close, IsFree
  <2> HIDE DEF e
  <2> QED
    BY <1>3, <2>1, <2>2, <2>3, Released, Zenon DEF Close
<1> QED
  BY <1>2, <1>3

\* SendInv is preserved by every step.
LEMMA StepInv == SendInv /\ [Next]_vars => SendInv'
<1> SUFFICES ASSUME SendInv, [Next]_vars PROVE SendInv'
  BY Zenon
<1>1. CASE UNCHANGED vars
  BY <1>1 DEF vars, SendInv, Typed, TotalExact, Room, Taken, IsFree, Slots, Counted, Passed
<1>2. CASE Next
  BY <1>2, SenderInv, SlotInv DEF Next
<1> QED
  BY <1>1, <1>2

-----------------------------------------------------------------------------
\* In every state send_total is exactly the taken slots, the refused sends and the calls under
\* way: no interleaving of the unsynchronised increments and decrements of try_send_any loses
\* a count, and only refused sends make it drift (channel.rs:135-157).
THEOREM SendTotalExact == Spec => []TotalExact
<1>1. SendInv => TotalExact
  BY Zenon DEF SendInv
<1> QED
  BY <1>1, InitInv, StepInv, PTL DEF Spec

\* A call in the search for a document number always has a free slot left to find, for any
\* number of senders and slots: the loop of channel.rs:163 never spins on a full table.
THEOREM SearchHasASlot == Spec => []SlotForEach
<1>1. SendInv => SlotForEach
  <2> SUFFICES ASSUME SendInv PROVE SlotForEach
    OBVIOUS
  <2>1. Looping \subseteq Passed /\ Taken \subseteq Slots
    BY Zenon DEF Looping, Passed, PassedAt, Taken
  <2>2. IsFiniteSet(Looping) /\ Cardinality(Looping) <= Cardinality(Passed) /\ Cardinality(Looping) \in Nat
    BY <2>1, Finite, FS_Subset, FS_CardinalityType, Zenon
  <2>3. Slots \cap Taken = Taken
    BY <2>1
  <2>4. Cardinality(Slots \ Taken) = N - Cardinality(Taken)
    BY <2>3, Finite, FS_Difference, ZenonT(30)
  <2> QED
    BY <2>2, <2>4, Finite, SendAssumption DEF SendInv, Room, SlotForEach
<1> QED
  BY <1>1, InitInv, StepInv, PTL DEF Spec

-----------------------------------------------------------------------------
(* send_bytes_total and its limit.                                         *)

\* Labels of a call whose bytes have been added to send_bytes_total.
AddedAt == {"undo bytes", "pick", "slot"}

Added == {s \in Senders : pc[s] \in AddedAt}

AddedBytes == BytesIn(Added, [s \in Added |-> Length(s)])

\* A document that is in the table or counted is shorter than send_bytes_max, and a slot
\* without a document has no bytes.
Short ==
    /\ \A i \in Slots : table[i].len < BytesMax /\ (~table[i].doc => table[i].len = 0)
    /\ \A s \in Added : Length(s) < BytesMax

\* send_bytes_total counts the bytes in the table and those of the calls that have added
\* theirs and are still under way, in every state (channel.rs:152-156).
BytesTotalExact == send_bytes_total = Cardinality(TableBytes) + Cardinality(AddedBytes)

BytesInv == send_bytes_total \in Nat /\ Short /\ BytesTotalExact /\ BytesBelowMax

\* A set of bytes depends only on the lengths of the documents in it.
LEMMA BytesSame ==
    ASSUME NEW S, NEW f, NEW g, \A x \in S : f[x] = g[x]
    PROVE  BytesIn(S, f) = BytesIn(S, g)
<1>1. \A x \in S \X (1..BytesMax) : f[x[1]] = g[x[1]]
  OBVIOUS
<1> QED
  BY <1>1 DEF BytesIn

\* A finite set of documents has a finite number of bytes.
LEMMA BytesFinite ==
    ASSUME NEW S, IsFiniteSet(S), NEW f
    PROVE  IsFiniteSet(BytesIn(S, f)) /\ Cardinality(BytesIn(S, f)) \in Nat
<1>1. IsFiniteSet(1..BytesMax)
  BY SendAssumption, FS_Interval
<1>2. IsFiniteSet(S \X (1..BytesMax))
  BY <1>1, FS_Product, Zenon
<1>3. BytesIn(S, f) \subseteq S \X (1..BytesMax)
  BY DEF BytesIn
<1> QED
  BY <1>2, <1>3, FS_Subset, FS_CardinalityType

\* One more document has as many bytes more as it is long.
LEMMA BytesOneMore ==
    ASSUME NEW S, IsFiniteSet(S), NEW y, y \notin S, NEW f, NEW g,
           \A x \in S : f[x] = g[x], g[y] \in 0..BytesMax
    PROVE  Cardinality(BytesIn(S \cup {y}, g)) = Cardinality(BytesIn(S, f)) + g[y]
<1> DEFINE Y == {y} \X (1..g[y])
<1>0. BytesMax \in Nat /\ g[y] \in Nat
  BY SendAssumption
<1>1. BytesIn(S \cup {y}, g) = BytesIn(S, f) \cup Y
  <2>1. \A x \in S \X (1..BytesMax) : f[x[1]] = g[x[1]]
    OBVIOUS
  <2>2. ASSUME NEW x \in BytesIn(S \cup {y}, g) PROVE x \in BytesIn(S, f) \cup Y
    <3>1. x = <<x[1], x[2]>> /\ x[1] \in S \cup {y} /\ x[2] \in 1..BytesMax /\ x[2] <= g[x[1]]
      BY <2>2 DEF BytesIn
    <3>2. CASE x[1] \in S
      BY <3>1, <3>2, <2>1, Zenon DEF BytesIn
    <3>3. CASE x[1] = y
      BY <3>1, <3>3, <1>0
    <3> QED
      BY <3>1, <3>2, <3>3
  <2>3. ASSUME NEW x \in BytesIn(S, f) \cup Y PROVE x \in BytesIn(S \cup {y}, g)
    <3>1. CASE x \in BytesIn(S, f)
      BY <3>1, <2>1 DEF BytesIn
    <3>2. CASE x \in Y
      <4>1. x = <<x[1], x[2]>> /\ x[1] = y /\ x[2] \in 1..g[y]
        BY <3>2
      <4> QED
        BY <4>1, <1>0 DEF BytesIn
    <3> QED
      BY <2>3, <3>1, <3>2
  <2> QED
    BY <2>2, <2>3
<1>2. BytesIn(S, f) \cap Y = {}
  BY DEF BytesIn
<1>3. IsFiniteSet(Y) /\ Cardinality(Y) = g[y]
  <2>1. IsFiniteSet({y}) /\ Cardinality({y}) = 1
    BY FS_Singleton
  <2>2. IsFiniteSet(1..g[y]) /\ Cardinality(1..g[y]) = g[y]
    <3>1. 1 \in Int /\ g[y] \in Int
      BY <1>0
    <3>2. IsFiniteSet(1..g[y]) /\ Cardinality(1..g[y]) = IF 1 > g[y] THEN 0 ELSE g[y] - 1 + 1
      BY <3>1, FS_Interval, Zenon
    <3> QED
      BY <3>2, <1>0
  <2>3. IsFiniteSet(Y) /\ Cardinality(Y) = Cardinality({y}) * Cardinality(1..g[y])
    BY <2>1, <2>2, FS_Product, Zenon
  <2> HIDE DEF Y
  <2> QED
    BY <2>1, <2>2, <2>3, <1>0
<1>4. IsFiniteSet(BytesIn(S, f)) /\ Cardinality(BytesIn(S, f)) \in Nat
  BY BytesFinite, Zenon
<1>5. Cardinality(BytesIn(S, f) \cup Y) = Cardinality(BytesIn(S, f)) + Cardinality(Y) - Cardinality({})
  BY <1>2, <1>3, <1>4, FS_Union
<1>6. Cardinality({}) = 0
  BY FS_EmptySet, Zenon
<1>7. Cardinality(BytesIn(S, f) \cup Y) = Cardinality(BytesIn(S, f)) + g[y]
  <2> HIDE DEF Y
  <2> QED
    BY <1>0, <1>3, <1>4, <1>5, <1>6
<1> QED
  BY <1>1, <1>7, Zenon

\* A document is replaced by another one.
LEMMA BytesReplaced ==
    ASSUME NEW S, IsFiniteSet(S), NEW y \in S, NEW f, NEW g,
           \A x \in S \ {y} : f[x] = g[x], f[y] \in 0..BytesMax, g[y] \in 0..BytesMax
    PROVE  Cardinality(BytesIn(S, g)) = Cardinality(BytesIn(S, f)) - f[y] + g[y]
<1> DEFINE R == S \ {y}
<1>1. IsFiniteSet(R) /\ y \notin R /\ S = R \cup {y}
  BY FS_RemoveElement, Zenon
<1>2. Cardinality(BytesIn(R \cup {y}, g)) = Cardinality(BytesIn(R, f)) + g[y]
  BY <1>1, BytesOneMore
<1>3. Cardinality(BytesIn(R \cup {y}, f)) = Cardinality(BytesIn(R, f)) + f[y]
  BY <1>1, BytesOneMore
<1>4. Cardinality(BytesIn(R, f)) \in Nat
  BY <1>1, BytesFinite
<1>5. f[y] \in Nat /\ g[y] \in Nat
  BY SendAssumption
<1> HIDE DEF R
<1> QED
  BY <1>1, <1>2, <1>3, <1>4, <1>5

\* The bytes are finitely many, and those of calls in the loop are among those added.
LEMMA BytesCounts ==
    /\ IsFiniteSet(Slots) /\ IsFiniteSet(Added) /\ IsFiniteSet(Looping)
    /\ Cardinality(TableBytes) \in Nat /\ Cardinality(AddedBytes) \in Nat
    /\ Cardinality(LoopBytes) \in Nat
    /\ Cardinality(LoopBytes) <= Cardinality(AddedBytes)
<1>1. IsFiniteSet(Slots)
  BY Finite
<1>2. Added \subseteq Senders /\ Looping \subseteq Added
  BY Zenon DEF Added, Looping, AddedAt
<1>3. IsFiniteSet(Added)
  BY <1>2, FS_Subset, SendAssumption
<1>4. IsFiniteSet(Looping)
  BY <1>2, <1>3, FS_Subset, Zenon
<1>5. LoopBytes \subseteq AddedBytes
  <2>1. ASSUME NEW x \in LoopBytes PROVE x \in AddedBytes
    <3>1. x = <<x[1], x[2]>> /\ x[1] \in Looping /\ x[2] \in 1..BytesMax /\ x[2] <= Length(x[1])
      BY <2>1 DEF LoopBytes, BytesIn
    <3> QED
      BY <3>1, <1>2 DEF AddedBytes, BytesIn
  <2> QED
    BY <2>1
<1>6. /\ Cardinality(TableBytes) \in Nat /\ Cardinality(LoopBytes) \in Nat
      /\ IsFiniteSet(AddedBytes) /\ Cardinality(AddedBytes) \in Nat
  BY <1>1, <1>3, <1>4, BytesFinite, Zenon DEF TableBytes, AddedBytes, LoopBytes
<1>7. Cardinality(LoopBytes) <= Cardinality(AddedBytes)
  BY <1>5, <1>6, FS_Subset, Zenon
<1> QED
  BY <1>1, <1>3, <1>4, <1>6, <1>7

\* A step that leaves the table and the calls in the two sets alone keeps the bytes.
LEMMA BytesKept ==
    ASSUME BytesInv, Added' = Added, Looping' = Looping, \A s \in Added : left'[s] = left[s],
           UNCHANGED <<table, send_bytes_total>>
    PROVE  BytesInv'
<1>1. Looping \subseteq Added
  BY Zenon DEF Added, Looping, AddedAt
<1>2. \A s \in Added : Length(s)' = Length(s)
  BY DEF Length
<1>3. TableBytes' = TableBytes
  BY DEF TableBytes, BytesIn, Slots
<1>4. AddedBytes' = BytesIn(Added, [s \in Added |-> Length(s)'])
  BY Zenon DEF AddedBytes, BytesIn
<1>5. AddedBytes' = AddedBytes
  BY <1>2, <1>4, BytesSame DEF AddedBytes
<1>6. LoopBytes' = BytesIn(Looping, [s \in Looping |-> Length(s)'])
  BY DEF LoopBytes, BytesIn
<1>7. LoopBytes' = LoopBytes
  BY <1>1, <1>2, <1>6, BytesSame, Zenon DEF LoopBytes
<1>8. Short'
  BY <1>2, Zenon DEF BytesInv, Short, Slots
<1> QED
  BY <1>3, <1>5, <1>7, <1>8, Zenon DEF BytesInv, BytesTotalExact, BytesBelowMax

\* A sender whose label alone changes enters or leaves the two sets with its label.
LEMMA BytesMoves ==
    ASSUME Typed, NEW s \in Senders, NEW label \in Labels, Goto(s, label)
    PROVE  /\ (s \in Added <=> label \in AddedAt) => Added' = Added
           /\ s \notin Added /\ label \in AddedAt => Added' = Added \cup {s}
           /\ s \in Added /\ label \notin AddedAt => Added' = Added \ {s}
           /\ (s \in Looping <=> label \in {"pick", "slot"}) => Looping' = Looping
           /\ s \notin Looping /\ label \in {"pick", "slot"} => Looping' = Looping \cup {s}
           /\ s \in Looping /\ label \notin {"pick", "slot"} => Looping' = Looping \ {s}
<1>1. pc'[s] = label /\ \A t \in Senders : t # s => pc'[t] = pc[t]
  BY Moves
<1>2. /\ (s \in Added <=> label \in AddedAt) => Added' = Added
      /\ s \notin Added /\ label \in AddedAt => Added' = Added \cup {s}
      /\ s \in Added /\ label \notin AddedAt => Added' = Added \ {s}
  BY <1>1, Zenon DEF Added
<1>3. /\ (s \in Looping <=> label \in {"pick", "slot"}) => Looping' = Looping
      /\ s \notin Looping /\ label \in {"pick", "slot"} => Looping' = Looping \cup {s}
      /\ s \in Looping /\ label \notin {"pick", "slot"} => Looping' = Looping \ {s}
  BY <1>1, Zenon DEF Looping
<1> QED
  BY <1>2, <1>3

\* The bytes of the sender's document are added to those of the others, or taken away.
LEMMA BytesOfSender ==
    ASSUME SendInv, BytesInv, NEW s \in Senders, Length(s) \in Nat, Length(s) < BytesMax,
           \A t \in Senders \ {s} : left'[t] = left[t]
    PROVE  /\ s \notin Added /\ left'[s] = left[s] /\ Added' = Added \cup {s} =>
                Cardinality(AddedBytes') = Cardinality(AddedBytes) + Length(s)
           /\ s \in Added /\ Added' = Added \ {s} =>
                Cardinality(AddedBytes') = Cardinality(AddedBytes) - Length(s)
           /\ s \notin Looping /\ left'[s] = left[s] /\ Looping' = Looping \cup {s} =>
                Cardinality(LoopBytes') = Cardinality(LoopBytes) + Length(s)
           /\ s \in Looping /\ Looping' = Looping \ {s} =>
                Cardinality(LoopBytes') = Cardinality(LoopBytes) - Length(s)
<1>1. Length(s) \in 0..BytesMax
  BY SendAssumption
<1>2. /\ \A t \in Senders \ {s} : Length(t)' = Length(t)
      /\ left'[s] = left[s] => Length(s)' = Length(s)
  BY DEF Length
<1>3. Added \subseteq Senders /\ Looping \subseteq Senders
  BY DEF Added, Looping
<1>4. /\ AddedBytes' = BytesIn(Added', [t \in Added' |-> Length(t)'])
      /\ LoopBytes' = BytesIn(Looping', [t \in Looping' |-> Length(t)'])
  BY DEF AddedBytes, LoopBytes, BytesIn
<1>5. ASSUME s \notin Added, left'[s] = left[s], Added' = Added \cup {s}
      PROVE  Cardinality(AddedBytes') = Cardinality(AddedBytes) + Length(s)
  <2> DEFINE f == [t \in Added |-> Length(t)]
             g == [t \in Added' |-> Length(t)']
  <2>1. (\A t \in Added : f[t] = g[t]) /\ g[s] = Length(s)
    BY <1>2, <1>3, <1>5, Zenon
  <2>2. AddedBytes = BytesIn(Added, f) /\ AddedBytes' = BytesIn(Added \cup {s}, g)
    BY <1>4, <1>5, Zenon DEF AddedBytes
  <2> HIDE DEF f, g
  <2>3. Cardinality(BytesIn(Added \cup {s}, g)) = Cardinality(BytesIn(Added, f)) + g[s]
    BY <2>1, <1>1, <1>5, BytesCounts, BytesOneMore
  <2> QED
    BY <2>1, <2>2, <2>3, Zenon
<1>6. ASSUME s \in Added, Added' = Added \ {s}
      PROVE  Cardinality(AddedBytes') = Cardinality(AddedBytes) - Length(s)
  <2> DEFINE f == [t \in Added' |-> Length(t)']
             g == [t \in Added |-> Length(t)]
             R == Added \ {s}
  <2>1. (\A t \in R : f[t] = g[t]) /\ g[s] = Length(s)
    BY <1>2, <1>3, <1>6, Zenon
  <2>2. AddedBytes = BytesIn(Added, g) /\ AddedBytes' = BytesIn(R, f)
    BY <1>4, <1>6 DEF AddedBytes
  <2>3. IsFiniteSet(R) /\ s \notin R /\ R \cup {s} = Added
    BY <1>6, BytesCounts, FS_RemoveElement
  <2> HIDE DEF f, g, R
  <2>4. Cardinality(BytesIn(R \cup {s}, g)) = Cardinality(BytesIn(R, f)) + g[s]
    BY <2>1, <2>3, <1>1, BytesOneMore
  <2>5. Cardinality(BytesIn(R, f)) \in Nat
    BY <2>3, BytesFinite
  <2>6. /\ Cardinality(AddedBytes) = Cardinality(AddedBytes') + Length(s)
        /\ Cardinality(AddedBytes') \in Nat
    BY <2>1, <2>2, <2>3, <2>4, <2>5, Zenon
  <2> QED
    BY <2>6
<1>7. ASSUME s \notin Looping, left'[s] = left[s], Looping' = Looping \cup {s}
      PROVE  Cardinality(LoopBytes') = Cardinality(LoopBytes) + Length(s)
  <2> DEFINE f == [t \in Looping |-> Length(t)]
             g == [t \in Looping' |-> Length(t)']
  <2>1. (\A t \in Looping : f[t] = g[t]) /\ g[s] = Length(s)
    BY <1>2, <1>3, <1>7, Zenon
  <2>2. LoopBytes = BytesIn(Looping, f) /\ LoopBytes' = BytesIn(Looping \cup {s}, g)
    BY <1>4, <1>7, Zenon DEF LoopBytes
  <2> HIDE DEF f, g
  <2>3. Cardinality(BytesIn(Looping \cup {s}, g)) = Cardinality(BytesIn(Looping, f)) + g[s]
    BY <2>1, <1>1, <1>7, BytesCounts, BytesOneMore
  <2> QED
    BY <2>1, <2>2, <2>3, Zenon
<1>8. ASSUME s \in Looping, Looping' = Looping \ {s}
      PROVE  Cardinality(LoopBytes') = Cardinality(LoopBytes) - Length(s)
  <2> DEFINE f == [t \in Looping' |-> Length(t)']
             g == [t \in Looping |-> Length(t)]
             R == Looping \ {s}
  <2>1. (\A t \in R : f[t] = g[t]) /\ g[s] = Length(s)
    BY <1>2, <1>3, <1>8, Zenon
  <2>2. LoopBytes = BytesIn(Looping, g) /\ LoopBytes' = BytesIn(R, f)
    BY <1>4, <1>8 DEF LoopBytes
  <2>3. IsFiniteSet(R) /\ s \notin R /\ R \cup {s} = Looping
    BY <1>8, BytesCounts, FS_RemoveElement
  <2> HIDE DEF f, g, R
  <2>4. Cardinality(BytesIn(R \cup {s}, g)) = Cardinality(BytesIn(R, f)) + g[s]
    BY <2>1, <2>3, <1>1, BytesOneMore
  <2>5. Cardinality(BytesIn(R, f)) \in Nat
    BY <2>3, BytesFinite
  <2>6. /\ Cardinality(LoopBytes) = Cardinality(LoopBytes') + Length(s)
        /\ Cardinality(LoopBytes') \in Nat
    BY <2>1, <2>2, <2>3, <2>4, <2>5, Zenon
  <2> QED
    BY <2>6
<1> QED
  BY <1>5, <1>6, <1>7, <1>8, Zenon

\* BytesInv holds at first: there are no documents.
LEMMA InitBytes == Init => BytesInv
<1> SUFFICES ASSUME Init PROVE BytesInv
  OBVIOUS
<1>1. Added = {} /\ Looping = {}
  BY Zenon DEF Init, Added, Looping, AddedAt
<1>2. AddedBytes = {} /\ LoopBytes = {}
  BY <1>1, Zenon DEF AddedBytes, LoopBytes, BytesIn
<1>3. \A i \in Slots : table[i].len = 0
  BY DEF Init, FreeSlot
<1>4. TableBytes = {}
  <2>1. ASSUME NEW x \in TableBytes PROVE FALSE
    <3>1. x[1] \in Slots /\ x[2] \in 1..BytesMax /\ x[2] <= table[x[1]].len
      BY <2>1 DEF TableBytes, BytesIn
    <3> QED
      BY <3>1, <1>3
  <2> QED
    BY <2>1, Zenon
<1>5. Short
  BY <1>1, <1>3, SendAssumption DEF Short
<1>6. Cardinality({}) = 0
  BY FS_EmptySet
<1> QED
  BY <1>2, <1>4, <1>5, <1>6, SendAssumption
  DEF BytesInv, BytesTotalExact, BytesBelowMax, Init

\* A step of the call of one sender preserves BytesInv.
LEMMA SenderBytes ==
    ASSUME SendInv, BytesInv, NEW s \in Senders, SendStep(s)
    PROVE  BytesInv'
<1>t. Typed
  BY Zenon DEF SendInv
<1>n. /\ BytesMax \in Nat /\ send_bytes_total \in Nat
      /\ Cardinality(TableBytes) \in Nat /\ Cardinality(AddedBytes) \in Nat
      /\ Cardinality(LoopBytes) \in Nat /\ Cardinality(LoopBytes) <= Cardinality(AddedBytes)
      /\ send_bytes_total = Cardinality(TableBytes) + Cardinality(AddedBytes)
      /\ Cardinality(TableBytes) + Cardinality(LoopBytes) < BytesMax
  BY SendAssumption, BytesCounts DEF BytesInv, BytesTotalExact, BytesBelowMax
<1>s. Short
  BY DEF BytesInv
<1>1. CASE AddTotal(s)
  <2>1. /\ UNCHANGED <<table, send_bytes_total, left>> /\ s \notin Added /\ s \notin Looping
        /\ \E label \in {"undo total", "bytes"} : Goto(s, label)
    BY <1>1, Zenon DEF AddTotal, Added, Looping, AddedAt
  <2>2. PICK label \in {"undo total", "bytes"} : Goto(s, label)
    BY <2>1, Zenon
  <2>3. Added' = Added /\ Looping' = Looping
    BY <1>t, <2>1, <2>2, BytesMoves, Zenon DEF Labels, AddedAt
  <2> QED
    BY <2>1, <2>3, BytesKept, Zenon
<1>2. CASE UndoTotal(s)
  <2>1. /\ UNCHANGED <<table, send_bytes_total, left>> /\ s \notin Added /\ s \notin Looping
        /\ \E label \in {"register", "idle"} : Goto(s, label)
    BY <1>2, Zenon DEF UndoTotal, Full, Added, Looping, AddedAt
  <2>2. PICK label \in {"register", "idle"} : Goto(s, label)
    BY <2>1
  <2>3. Added' = Added /\ Looping' = Looping
    BY <1>t, <2>1, <2>2, BytesMoves, Zenon DEF Labels, AddedAt
  <2> QED
    BY <2>1, <2>3, BytesKept
<1>3. CASE AddBytes(s)
  <2>1. pc[s] = "bytes" /\ s \notin Added /\ s \notin Looping /\ table' = table
    BY <1>3, Zenon DEF AddBytes, Added, Looping, AddedAt
  <2>2. Length(s) \in Nat
    BY <1>t, <2>1, LengthIsNat, Zenon DEF CountedAt
  <2>3. CASE Length(s) >= BytesMax
    <3>0. ~(Length(s) < BytesMax)
      BY <1>n, <2>2, <2>3
    <3>1. /\ Goto(s, "idle") /\ UNCHANGED send_bytes_total
          /\ left' = [left EXCEPT ![s] = @ - 1]
      BY <1>3, <3>0, Zenon DEF AddBytes
    <3>2. Added' = Added /\ Looping' = Looping
      BY <1>t, <2>1, <3>1, BytesMoves, Zenon DEF Labels, AddedAt
    <3>3. \A t \in Added : left'[t] = left[t]
      BY <1>t, <2>1, <3>1, Zenon DEF Typed, Added
    <3> QED
      BY <2>1, <3>1, <3>2, <3>3, BytesKept, Zenon
  <2>4. CASE Length(s) < BytesMax
    <3>0. ~(Length(s) >= BytesMax)
      BY <1>n, <2>2, <2>4
    <3>1. send_bytes_total' = send_bytes_total + Length(s) /\ left' = left
      BY <1>3, <3>0, Zenon DEF AddBytes
    <3>2. TableBytes' = TableBytes
      BY <2>1 DEF TableBytes, BytesIn, Slots
    <3>3. CASE send_bytes_total + Length(s) >= BytesMax
      <4>1. Goto(s, "undo bytes")
        BY <1>3, <3>0, <3>3, Zenon DEF AddBytes, BytesFull
      <4>2. Added' = Added \cup {s} /\ Looping' = Looping
        BY <1>t, <2>1, <4>1, BytesMoves, Zenon DEF Labels, AddedAt
      <4>3. Cardinality(AddedBytes') = Cardinality(AddedBytes) + Length(s)
        BY <2>1, <2>2, <2>4, <3>1, <4>2, BytesOfSender, Zenon
      <4>4. LoopBytes' = LoopBytes
        BY <3>1, <4>2, Zenon DEF LoopBytes, BytesIn, Length
      <4>5. \A t \in Senders : Length(t)' = Length(t)
        BY <3>1, Zenon DEF Length
      <4>6. Short'
        <5>1. Added \subseteq Senders
          BY Zenon DEF Added
        <5>2. \A t \in Added' : Length(t)' < BytesMax
          BY <1>s, <2>4, <4>2, <4>5, <5>1, Zenon DEF Short
        <5> QED
          BY <1>s, <2>1, <5>2, Zenon DEF Short, Slots
      <4>7. BytesTotalExact' /\ BytesBelowMax' /\ send_bytes_total' \in Nat
        BY <1>n, <2>2, <3>1, <3>2, <4>3, <4>4 DEF BytesTotalExact, BytesBelowMax
      <4> QED
        BY <4>6, <4>7 DEF BytesInv
    <3>4. CASE send_bytes_total + Length(s) < BytesMax
      <4>0. ~(send_bytes_total + Length(s) >= BytesMax)
        BY <1>n, <2>2, <3>4
      <4>1. Goto(s, "pick")
        BY <1>3, <3>0, <4>0 DEF AddBytes, BytesFull
      <4>2. Added' = Added \cup {s} /\ Looping' = Looping \cup {s}
        BY <1>t, <2>1, <4>1, BytesMoves, Zenon DEF Labels, AddedAt
      <4>3. /\ Cardinality(AddedBytes') = Cardinality(AddedBytes) + Length(s)
            /\ Cardinality(LoopBytes') = Cardinality(LoopBytes) + Length(s)
        BY <2>1, <2>2, <2>4, <3>1, <4>2, BytesOfSender, Zenon
      <4>5. \A t \in Senders : Length(t)' = Length(t)
        BY <3>1 DEF Length
      <4>6. Short'
        <5>1. Added \subseteq Senders
          BY DEF Added
        <5>2. \A t \in Added' : Length(t)' < BytesMax
          BY <1>s, <2>4, <4>2, <4>5, <5>1, Zenon DEF Short
        <5> QED
          BY <1>s, <2>1, <5>2 DEF Short, Slots
      <4>7. BytesTotalExact' /\ BytesBelowMax' /\ send_bytes_total' \in Nat
        BY <1>n, <2>2, <3>1, <3>2, <3>4, <4>3 DEF BytesTotalExact, BytesBelowMax
      <4> QED
        BY <4>6, <4>7 DEF BytesInv
    <3> QED
      BY <1>n, <2>2, <3>3, <3>4
  <2> QED
    BY <1>n, <2>2, <2>3, <2>4
<1>4. CASE UndoBytes(s)
  <2>1. /\ pc[s] = "undo bytes" /\ s \in Added /\ s \notin Looping
        /\ table' = table /\ left' = left /\ Goto(s, "undo total")
        /\ send_bytes_total' = send_bytes_total - Length(s)
    BY <1>4, Zenon DEF UndoBytes, Added, Looping, AddedAt
  <2>2. Length(s) \in Nat /\ Length(s) < BytesMax
    BY <1>t, <1>s, <2>1, LengthIsNat, Zenon DEF CountedAt, Short
  <2>3. TableBytes' = TableBytes
    BY <2>1, Zenon DEF TableBytes, BytesIn, Slots
  <2>4. Added' = Added \ {s} /\ Looping' = Looping
    BY <1>t, <2>1, BytesMoves, Zenon DEF Labels, AddedAt
  <2>5. Cardinality(AddedBytes') = Cardinality(AddedBytes) - Length(s)
    BY <2>1, <2>2, <2>4, BytesOfSender, Zenon
  <2>6. LoopBytes' = LoopBytes
    BY <2>1, <2>4, Zenon DEF LoopBytes, BytesIn, Length
  <2>7. IsFiniteSet(Added')
    BY <2>4, BytesCounts, FS_RemoveElement, Zenon
  <2>8. Cardinality(AddedBytes') \in Nat
    BY <2>7, BytesFinite DEF AddedBytes
  <2>9. Short'
    BY <1>s, <2>1, <2>4, Zenon DEF Short, Slots, Length
  <2>10. send_bytes_total' = send_bytes_total - Length(s)
    BY <2>1, Zenon
  <2>11. /\ send_bytes_total' = Cardinality(TableBytes) + Cardinality(AddedBytes')
         /\ send_bytes_total' \in Nat
    BY <1>n, <2>2, <2>5, <2>8, <2>10
  <2>12. BytesTotalExact' /\ BytesBelowMax'
    BY <1>n, <2>3, <2>6, <2>11, Zenon DEF BytesTotalExact, BytesBelowMax
  <2> QED
    BY <2>9, <2>11, <2>12 DEF BytesInv
<1>5. CASE Pick(s)
  <2>1. /\ UNCHANGED <<table, send_bytes_total, left>> /\ s \in Added /\ s \in Looping
        /\ Goto(s, "slot")
    BY <1>5, Zenon DEF Pick, Added, Looping, AddedAt
  <2>2. Added' = Added /\ Looping' = Looping
    BY <1>t, <2>1, BytesMoves, Zenon DEF Labels, AddedAt
  <2> QED
    BY <2>1, <2>2, BytesKept
<1>6. CASE TakeSlot(s)
  <2> DEFINE i == (no[s] \div 2) % N
  <2>1. pc[s] = "slot" /\ s \in Added /\ s \in Looping /\ UNCHANGED send_bytes_total
    BY <1>6, Zenon DEF TakeSlot, Added, Looping, AddedAt
  <2>2. Length(s) \in Nat /\ Length(s) < BytesMax
    BY <1>t, <1>s, <2>1, LengthIsNat, Zenon DEF CountedAt, Short
  <2>3. CASE ~Takeable(table[i])
    <3>1. Goto(s, "pick") /\ UNCHANGED <<table, left>>
      BY <1>6, <2>3 DEF TakeSlot
    <3>2. Added' = Added /\ Looping' = Looping
      BY <1>t, <2>1, <3>1, BytesMoves, Zenon DEF Labels, AddedAt
    <3> QED
      BY <2>1, <3>1, <3>2, BytesKept, Zenon
  <2>4. CASE Takeable(table[i])
    <3>1. i \in Slots
      BY <1>t, SendAssumption DEF Typed, Slots
    <3>2. /\ table' = [table EXCEPT ![i] = [doc_no |-> no[s], parent |-> no[s], doc |-> TRUE,
                                            channel |-> TRUE, len |-> Length(s)]]
          /\ left' = [left EXCEPT ![s] = @ - 1]
          /\ \E label \in {"chain", "idle"} : Goto(s, label)
      BY <1>6, <2>4, Zenon DEF TakeSlot
    <3> HIDE DEF i
    <3>3. PICK label \in {"chain", "idle"} : Goto(s, label)
      BY <3>2
    <3>4. Added' = Added \ {s} /\ Looping' = Looping \ {s}
      BY <1>t, <2>1, <3>3, BytesMoves, Zenon DEF Labels, AddedAt
    <3>5. \A t \in Senders \ {s} : left'[t] = left[t]
      BY <1>t, <3>2, Zenon DEF Typed
    <3>6. /\ Cardinality(AddedBytes') = Cardinality(AddedBytes) - Length(s)
          /\ Cardinality(LoopBytes') = Cardinality(LoopBytes) - Length(s)
      BY <2>1, <2>2, <3>4, <3>5, BytesOfSender, Zenon
    <3>7. /\ table'[i].len = Length(s) /\ table'[i].doc
          /\ \A j \in Slots \ {i} : table'[j] = table[j]
      BY <1>t, <3>1, <3>2, Zenon DEF Typed
    <3>8. table[i].len = 0
      BY <1>s, <2>4, <3>1, Zenon DEF Short, Takeable, IsFree
    <3>9. Cardinality(TableBytes') = Cardinality(TableBytes) + Length(s)
      <4> DEFINE f == [j \in Slots |-> table[j].len]
                 g == [j \in Slots |-> table'[j].len]
      <4>1. f[i] = 0 /\ g[i] = Length(s) /\ \A j \in Slots \ {i} : f[j] = g[j]
        BY <3>1, <3>7, <3>8, Zenon
      <4>2. TableBytes = BytesIn(Slots, f) /\ TableBytes' = BytesIn(Slots, g)
        BY Zenon DEF TableBytes, BytesIn, Slots
      <4>3. f[i] \in 0..BytesMax /\ g[i] \in 0..BytesMax
        BY <1>n, <2>2, <4>1
      <4> HIDE DEF f, g
      <4>4. Cardinality(BytesIn(Slots, g)) = Cardinality(BytesIn(Slots, f)) - f[i] + g[i]
        BY <3>1, <4>1, <4>3, BytesCounts, BytesReplaced
      <4> QED
        BY <1>n, <2>2, <4>1, <4>2, <4>4
    <3>10. Short'
      <4>1. \A t \in Added' : Length(t)' = Length(t) /\ t \in Added
        BY <3>4, <3>5, Zenon DEF Length, Added
      <4>2. \A j \in Slots : table'[j].len < BytesMax /\ (~table'[j].doc => table'[j].len = 0)
        BY <1>s, <2>2, <3>7, Zenon DEF Short
      <4> QED
        BY <1>s, <4>1, <4>2, Zenon DEF Short, Slots
    <3>11. BytesTotalExact' /\ BytesBelowMax' /\ send_bytes_total' \in Nat
      BY <1>n, <2>1, <2>2, <3>6, <3>9 DEF BytesTotalExact, BytesBelowMax
    <3> QED
      BY <3>10, <3>11, Zenon DEF BytesInv
  <2> QED
    BY <2>3, <2>4
<1>7. CASE Chain(s)
  <2> DEFINE next == IF send_wakers = <<>> THEN s ELSE Head(send_wakers)
  <2>1. /\ pc[s] = "chain" /\ UNCHANGED <<table, send_bytes_total, left>>
        /\ pc' = [Woken(next) EXCEPT ![s] = "idle"]
    BY <1>7 DEF Chain
  <2> HIDE DEF next
  <2>2. \A t \in Senders : pc'[t] = pc[t] \/ (pc[t] \in {"chain", "asleep"} /\ pc'[t] = "idle")
    BY <1>t, <2>1 DEF Woken, Typed
  <2>3. Added' = Added /\ Looping' = Looping
    BY <2>2, Zenon DEF Added, Looping, AddedAt
  <2> QED
    BY <2>1, <2>3, BytesKept, Zenon
<1>8. CASE Register(s)
  <2>1. /\ UNCHANGED <<table, send_bytes_total, left>> /\ s \notin Added /\ s \notin Looping
        /\ Goto(s, "asleep")
    BY <1>8, Zenon DEF Register, Added, Looping, AddedAt
  <2>2. Added' = Added /\ Looping' = Looping
    BY <1>t, <2>1, BytesMoves, Zenon DEF Labels, AddedAt
  <2> QED
    BY <2>1, <2>2, BytesKept, Zenon
<1> QED
  BY <1>1, <1>2, <1>3, <1>4, <1>5, <1>6, <1>7, <1>8, Zenon DEF SendStep

\* Finishing a document or closing a channel preserves BytesInv.
LEMMA SlotBytes ==
    ASSUME SendInv, BytesInv, NEW i \in Slots, Fin(i) \/ Close(i)
    PROVE  BytesInv'
<1>t. Typed
  BY Zenon DEF SendInv
<1>n. /\ BytesMax \in Nat /\ send_bytes_total \in Nat
      /\ Cardinality(TableBytes) \in Nat /\ Cardinality(AddedBytes) \in Nat
      /\ Cardinality(LoopBytes) \in Nat
      /\ send_bytes_total = Cardinality(TableBytes) + Cardinality(AddedBytes)
      /\ Cardinality(TableBytes) + Cardinality(LoopBytes) < BytesMax
  BY SendAssumption, BytesCounts, Zenon DEF BytesInv, BytesTotalExact, BytesBelowMax
<1>s. Short
  BY DEF BytesInv
<1>w. WakeFirst /\ left' = left
  BY DEF Fin, Close
<1>1. \A t \in Senders : pc'[t] = pc[t] \/ (pc[t] = "asleep" /\ pc'[t] = "idle")
  BY <1>t, <1>w DEF WakeFirst, Woken, Typed
<1>2. Added' = Added /\ Looping' = Looping
  BY <1>1, Zenon DEF Added, Looping, AddedAt
<1>3. AddedBytes' = AddedBytes /\ LoopBytes' = LoopBytes
  BY <1>w, <1>2 DEF AddedBytes, LoopBytes, BytesIn, Length
<1>4. CASE Fin(i)
  <2>1. /\ table[i].doc
        /\ table' = [table EXCEPT ![i].doc = FALSE, ![i].len = 0]
        /\ send_bytes_total' = send_bytes_total - table[i].len
    BY <1>4 DEF Fin
  <2>2. /\ table'[i].len = 0 /\ \A j \in Slots \ {i} : table'[j] = table[j]
        /\ table[i].len \in Nat
    BY <1>t, <2>1, Zenon DEF Typed, Entry
  <2>3. table[i].len < BytesMax
    BY <1>s, Zenon DEF Short
  <2>4. Cardinality(TableBytes') = Cardinality(TableBytes) - table[i].len
    <3> DEFINE f == [j \in Slots |-> table[j].len]
               g == [j \in Slots |-> table'[j].len]
    <3>1. f[i] = table[i].len /\ g[i] = 0 /\ \A j \in Slots \ {i} : f[j] = g[j]
      BY <2>2, Zenon
    <3>2. TableBytes = BytesIn(Slots, f) /\ TableBytes' = BytesIn(Slots, g)
      BY Zenon DEF TableBytes, BytesIn, Slots
    <3>3. f[i] \in 0..BytesMax /\ g[i] \in 0..BytesMax
      BY <1>n, <2>2, <2>3, <3>1
    <3> HIDE DEF f, g
    <3>4. Cardinality(BytesIn(Slots, g)) = Cardinality(BytesIn(Slots, f)) - f[i] + g[i]
      BY <3>1, <3>3, BytesCounts, BytesReplaced
    <3> QED
      BY <1>n, <2>2, <3>1, <3>2, <3>4
  <2>5. Cardinality(TableBytes') \in Nat
    BY BytesCounts, BytesFinite, Zenon DEF TableBytes, Slots
  <2>6. Short'
    BY <1>s, <1>n, <1>w, <1>2, <2>2 DEF Short, Slots, Length
  <2>7. BytesTotalExact' /\ BytesBelowMax' /\ send_bytes_total' \in Nat
    BY <1>n, <1>3, <2>1, <2>2, <2>4, <2>5 DEF BytesTotalExact, BytesBelowMax
  <2> QED
    BY <2>6, <2>7 DEF BytesInv
<1>5. CASE Close(i)
  <2>1. table' = [table EXCEPT ![i].channel = FALSE] /\ UNCHANGED send_bytes_total
    BY <1>5 DEF Close
  <2>2. \A j \in Slots : table'[j].len = table[j].len /\ table'[j].doc = table[j].doc
    BY <1>t, <2>1, Zenon DEF Typed, Entry
  <2>3. TableBytes' = TableBytes
    BY <2>2, Zenon DEF TableBytes, BytesIn, Slots
  <2>4. Short'
    BY <1>s, <1>w, <1>2, <2>2, Zenon DEF Short, Slots, Length
  <2> QED
    BY <1>3, <2>1, <2>3, <2>4, Zenon DEF BytesInv, BytesTotalExact, BytesBelowMax
<1> QED
  BY <1>4, <1>5

\* BytesInv is preserved by every step.
LEMMA StepBytes == SendInv /\ BytesInv /\ [Next]_vars => BytesInv'
<1> SUFFICES ASSUME SendInv, BytesInv, [Next]_vars PROVE BytesInv'
  OBVIOUS
<1>1. CASE UNCHANGED vars
  <2>1. UNCHANGED <<table, send_bytes_total, pc, left>>
    BY <1>1 DEF vars
  <2>2. Added' = Added /\ Looping' = Looping
    BY <2>1, Zenon DEF Added, Looping
  <2> QED
    BY <2>1, <2>2, BytesKept, Zenon
<1>2. CASE Next
  BY <1>2, SenderBytes, SlotBytes DEF Next
<1> QED
  BY <1>1, <1>2

-----------------------------------------------------------------------------
\* The counters never wrap below zero: what try_send_any takes back it has added before
\* (channel.rs:143-156), in every interleaving and for any number of senders and slots.
THEOREM CountersStayNat == Spec => []TypeOK
<1>1. SendInv /\ BytesInv => TypeOK
  BY Zenon DEF SendInv, BytesInv, Typed, Entry, TypeOK, Labels
<1> QED
  BY <1>1, InitInv, StepInv, InitBytes, StepBytes, PTL DEF Spec

\* The documents in the table and those about to be put into it stay below send_bytes_max,
\* for any number of senders: a thread that is past the check has its bytes in the counter, and
\* the threads that are not only make the counter too large (channel.rs:152-156).
THEOREM DocumentsBelowMax == Spec => []BytesBelowMax
<1>1. BytesInv => BytesBelowMax
  BY Zenon DEF BytesInv
<1> QED
  BY <1>1, InitInv, StepInv, InitBytes, StepBytes, PTL DEF Spec

\* When no call is under way the two counters are exact again: an attempt that fails because
\* of others takes back all it has added (channel.rs:137-141, 154).
THEOREM CountersExactAtRest == Spec => []CountersSettle
<1>1. SendInv /\ BytesInv => CountersSettle
  <2> SUFFICES ASSUME SendInv, BytesInv, \A s \in Senders : pc[s] \in {"idle", "asleep"}
               PROVE  /\ send_total = Cardinality(Taken) + refused
                      /\ send_bytes_total = Cardinality(TableBytes)
    BY DEF CountersSettle
  <2>1. Counted = {} /\ Added = {}
    BY Zenon DEF Counted, Added, CountedAt, AddedAt
  <2>2. AddedBytes = {}
    BY <2>1 DEF AddedBytes, BytesIn
  <2>3. Cardinality({}) = 0
    BY FS_EmptySet
  <2>4. Cardinality(Taken) + refused \in Nat /\ Cardinality(TableBytes) \in Nat
    BY Finite, BytesCounts DEF SendInv, Typed
  <2>5. /\ send_total = Cardinality(Taken) + refused + Cardinality(Counted)
        /\ send_bytes_total = Cardinality(TableBytes) + Cardinality(AddedBytes)
    BY DEF SendInv, TotalExact, BytesInv, BytesTotalExact
  <2> QED
    BY <2>1, <2>2, <2>3, <2>4, <2>5
<1> QED
  BY <1>1, InitInv, StepInv, InitBytes, StepBytes, PTL DEF Spec
=============================================================================
