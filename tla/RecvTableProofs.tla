-------------------------- MODULE RecvTableProofs ---------------------------
(***************************************************************************)
(* The receiving half of a session for any tables, any documents and any   *)
(* number of threads.  Shape (the types, and that orphans wait for their   *)
(* parent) is inductive by itself and holds whatever the peer sends.       *)
(*                                                                         *)
(* A call holds a lock while it waits for another only in                  *)
(* drop_unfinished_recv_doc, called with the slot of a parent locked.      *)
(* KinOK says that documents are kept in and posted to the slots of their  *)
(* ancestors; LockOK that a lock is held only by a call that has still to  *)
(* lock slots of descendants.  Both are for one relation R that is an      *)
(* Ancestry; AscendInv is for all of them.                                 *)
(***************************************************************************)
EXTENDS RecvTable, TLAPS

\* A leaf that names no prover is tried with these, in this order.
USE SMTT(10), Zenon, Z3T(30)

-----------------------------------------------------------------------------
(* The inductive invariant.                                                *)

Elems(q) == {q[i] : i \in 1..Len(q)}

States == {"reserved", "active", "finishing", "finack", "parentclose"}

Channels == [open : BOOLEAN, ref : Int, ready : Seq(DocNos), buf : Int]

Entries ==
    [doc_no : Nat, doc : States, got : SUBSET [d : DocNos, i : Nat], parent : Nat,
     reply : BOOLEAN, channel : Channels, orphans : Seq(DocNos), expected : Nat]

Segs == [d : DocNos, i : Nat, closed : BOOLEAN]

Calls ==
    [pc : {"idle", "parent", "relock", "wait", "woken", "post", "drop", "droplock"},
     seg : Segs \cup {NoSeg}, fin : [parent : Nat, reply : BOOLEAN],
     held : Slots \cup {NoSlot}, notify : Slots \cup {NoSlot},
     stack : Seq(DocNos), later : Seq(DocNos)]

\* The tables and the calls have their types, and orphans wait for their parent.
EntryTyped(e) == e \in Entries /\ (e.orphans # <<>> => e.doc_no < e.expected)

CallTyped(r) ==
    /\ r \in Calls
    /\ r.pc \in {"parent", "relock", "wait", "woken", "post"} => r.seg \in Segs
    /\ r.pc = "droplock" => r.stack # <<>>

Typed(en, T) ==
    /\ DOMAIN en = Slots /\ en = [s \in Slots |-> en[s]] /\ \A s \in Slots : EntryTyped(en[s])
    /\ DOMAIN T = Actors /\ T = [a \in Actors |-> T[a]] /\ \A a \in Actors : CallTyped(T[a])

Shape == Typed(entry, th) /\ net \subseteq Segs

-----------------------------------------------------------------------------
(* Values.                                                                 *)

\* The empty sequence.
LEMMA NoElems ==
    /\ \A S : <<>> \in Seq(S)
    /\ Elems(<<>>) = {}
<1>1. \A S : <<>> \in Seq(S) /\ Len(<<>>) = 0
  OBVIOUS
<1> QED
  BY <1>1 DEF Elems

\* The elements of a sequence.
LEMMA SomeElems ==
    ASSUME NEW S, NEW q \in Seq(S)
    PROVE  Elems(q) \subseteq S /\ (q # <<>> => Elems(q) # {}) /\ (q = <<>> => Elems(q) = {})
<1>1. Len(q) \in Nat /\ \A i \in 1..Len(q) : q[i] \in S
  OBVIOUS
<1>2. q # <<>> => Len(q) # 0
  OBVIOUS
<1>3. q # <<>> => 1 \in 1..Len(q)
  BY <1>1, <1>2
<1> QED
  BY <1>1, <1>3, NoElems DEF Elems

\* A document is appended.
LEMMA AppendElems ==
    ASSUME NEW S, NEW q \in Seq(S), NEW e \in S
    PROVE  Append(q, e) \in Seq(S) /\ Elems(Append(q, e)) = Elems(q) \cup {e}
<1>1. /\ Append(q, e) \in Seq(S) /\ Len(q) \in Nat /\ Len(Append(q, e)) = Len(q) + 1
      /\ \A i \in 1..Len(q) : Append(q, e)[i] = q[i]
      /\ Append(q, e)[Len(q) + 1] = e
  OBVIOUS
<1>2. /\ \A i \in 1..(Len(q) + 1) : i \in 1..Len(q) \/ i = Len(q) + 1
      /\ 1..Len(q) \subseteq 1..(Len(q) + 1) /\ Len(q) + 1 \in 1..(Len(q) + 1)
  BY <1>1
<1>3. Elems(Append(q, e)) = Elems(q) \cup {e}
  BY <1>1, <1>2 DEF Elems
<1> QED
  BY <1>1, <1>3

\* One sequence is appended to another.
LEMMA ConcatElems ==
    ASSUME NEW S, NEW q \in Seq(S), NEW r \in Seq(S)
    PROVE  q \o r \in Seq(S) /\ Elems(q \o r) = Elems(q) \cup Elems(r)
<1>1. /\ q \o r \in Seq(S) /\ Len(q) \in Nat /\ Len(r) \in Nat /\ Len(q \o r) = Len(q) + Len(r)
      /\ \A i \in 1..(Len(q) + Len(r)) : (q \o r)[i] = IF i <= Len(q) THEN q[i] ELSE r[i - Len(q)]
  OBVIOUS
<1>2. \A i \in 1..Len(q) : i \in 1..(Len(q) + Len(r)) /\ (q \o r)[i] = q[i]
  BY <1>1
<1>3. \A i \in 1..Len(r) : i + Len(q) \in 1..(Len(q) + Len(r)) /\ (q \o r)[i + Len(q)] = r[i]
  <2>1. \A i \in 1..Len(r) : /\ i + Len(q) \in 1..(Len(q) + Len(r))
                             /\ ~(i + Len(q) <= Len(q)) /\ (i + Len(q)) - Len(q) = i
    BY <1>1
  <2> QED
    BY <1>1, <2>1
<1>4. \A i \in 1..(Len(q) + Len(r)) :
        \/ i \in 1..Len(q) /\ (q \o r)[i] = q[i]
        \/ i - Len(q) \in 1..Len(r) /\ (q \o r)[i] = r[i - Len(q)]
  BY <1>1
<1>5. Elems(q \o r) = Elems(q) \cup Elems(r)
  <2>1. ASSUME NEW x \in Elems(q \o r) PROVE x \in Elems(q) \cup Elems(r)
    BY <1>1, <1>4, <2>1 DEF Elems
  <2>2. ASSUME NEW x \in Elems(q) PROVE x \in Elems(q \o r)
    BY <1>1, <1>2, <2>2 DEF Elems
  <2>3. ASSUME NEW x \in Elems(r) PROVE x \in Elems(q \o r)
    BY <1>1, <1>3, <2>3 DEF Elems
  <2> QED
    BY <2>1, <2>2, <2>3
<1> QED
  BY <1>1, <1>5

\* A sequence is turned round.
LEMMA ReverseElems ==
    ASSUME NEW S, NEW q \in Seq(S)
    PROVE  Reverse(q) \in Seq(S) /\ Elems(Reverse(q)) = Elems(q)
<1> DEFINE n == Len(q)
           r == [i \in 1..n |-> q[(n - i) + 1]]
<1>1. n \in Nat /\ \A i \in 1..n : q[i] \in S
  OBVIOUS
<1> HIDE DEF n
<1>2. Reverse(q) = r
  BY DEF Reverse, n
<1>3. \A i \in 1..n : (n - i) + 1 \in 1..n /\ (n - ((n - i) + 1)) + 1 = i
  BY <1>1
<1>4. r \in Seq(S) /\ Len(r) = n
  <2>1. \A i \in 1..n : q[(n - i) + 1] \in S
    BY <1>1, <1>3
  <2> QED
    BY <1>1, <2>1
<1>5. Elems(r) = Elems(q)
  BY <1>3, <1>4, Zenon DEF Elems, n
<1> QED
  BY <1>2, <1>4, <1>5

\* The last document is taken.
LEMMA FrontElems ==
    ASSUME NEW S, NEW q \in Seq(S), q # <<>>
    PROVE  Front(q) \in Seq(S) /\ Last(q) \in S /\ Elems(q) = Elems(Front(q)) \cup {Last(q)}
<1>1. Len(q) \in Nat \ {0} /\ \A i \in 1..Len(q) : q[i] \in S
  OBVIOUS
<1>2. PICK n \in Nat : n = Len(q) - 1
  BY <1>1
<1>3. 1 \in Int /\ n \in Int /\ \A i \in 1..n : q[i] \in S /\ i \in 1..(n - 1 + 1) /\ 1 + i - 1 = i
  BY <1>1, <1>2
<1>4. Front(q) = SubSeq(q, 1, n)
  BY <1>2 DEF Front
<1>5. /\ SubSeq(q, 1, n) \in Seq(S)
      /\ Len(SubSeq(q, 1, n)) = IF 1 <= n THEN n - 1 + 1 ELSE 0
      /\ \A i \in 1..(n - 1 + 1) : SubSeq(q, 1, n)[i] = q[1 + i - 1]
  BY <1>3
<1>6. Len(SubSeq(q, 1, n)) = n
  BY <1>3, <1>5
<1>7. \A i \in 1..n : SubSeq(q, 1, n)[i] = q[i]
  BY <1>3, <1>5
<1>8. /\ Last(q) = q[n + 1] /\ Len(q) = n + 1 /\ n + 1 \in 1..(n + 1) /\ n + 1 \notin 1..n
      /\ \A i \in 1..(n + 1) : i \in 1..n \/ i = n + 1
      /\ 1..n \subseteq 1..(n + 1)
  BY <1>1, <1>2 DEF Last
<1>9. Elems(q) = Elems(Front(q)) \cup {Last(q)}
  BY <1>4, <1>6, <1>7, <1>8 DEF Elems
<1>10. Last(q) \in S
  BY <1>1, <1>8
<1> QED
  BY <1>4, <1>5, <1>9, <1>10

-----------------------------------------------------------------------------
(* Types.                                                                  *)

\* The slot of a document number.
LEMMA SlotTypes ==
    /\ \A n \in Nat : SlotOf(n) \in Slots
    /\ NoSlot \notin Slots
    /\ \A d \in DocNos : /\ d \in Nat \ {0} /\ Docs[d].parent \in Nat \ {0} /\ Docs[d].parent < d
                         /\ Docs[d].segs \in Nat \ {0} /\ d \notin Own /\ ~Sending(d)
    /\ \A p \in Own : p \in Nat \ {0} /\ Sending(p)
<1>1. \A n \in Nat : (n \div 2) % NSend \in 0..(NSend - 1) /\ (n \div 2) % NRecv \in 0..(NRecv - 1)
  <2>1. \A n \in Nat : n \div 2 \in Nat
    OBVIOUS
  <2>2. \A m \in Nat, n \in Nat \ {0} : m % n \in 0..(n - 1)
    OBVIOUS
  <2> QED
    BY <2>1, <2>2, TableAssumption
<1>2. \A n \in Nat : SlotOf(n) \in Slots
  BY <1>1 DEF SlotOf, Slots
<1>3. NoSlot \notin Slots
  BY DEF NoSlot, Slots
<1>4. \A d \in DocNos : /\ d \in Nat \ {0} /\ Docs[d].parent \in Nat \ {0} /\ Docs[d].parent < d
                        /\ Docs[d].segs \in Nat \ {0} /\ d % 2 = 0
  BY TableAssumption
<1>5. \A p \in Own : p \in Nat /\ p % 2 = 1
  BY TableAssumption
<1>6. \A d \in DocNos : d \notin Own /\ ~Sending(d)
  BY <1>4, <1>5 DEF Sending
<1>7. \A p \in Own : p # 0
  BY <1>5
<1> QED
  BY <1>2, <1>3, <1>4, <1>5, <1>6, <1>7 DEF Sending

\* A closed channel.
LEMMA ClosedFields ==
    /\ Closed \in Channels /\ Closed.open = FALSE /\ Closed.ref = 0 /\ Closed.ready = <<>>
    /\ Closed.buf = None
BY NoElems DEF Closed, Channels, None

\* A new channel.
LEMMA NewChannelFields ==
    ASSUME NEW ref \in Int, NEW q \in Seq(DocNos), NEW buf \in Int, NEW c, c = NewChannel(ref, q, buf)
    PROVE  c \in Channels /\ c.open = TRUE /\ c.ref = ref /\ c.ready = q /\ c.buf = buf
BY DEF Channels, NewChannel

\* The fields of a channel.
LEMMA ChannelFields ==
    ASSUME NEW c \in Channels
    PROVE  c.open \in BOOLEAN /\ c.ref \in Int /\ c.ready \in Seq(DocNos) /\ c.buf \in Int
BY DEF Channels

\* A channel whose ref count is changed.
LEMMA ChannelRef ==
    ASSUME NEW c \in Channels, NEW n \in Int
    PROVE  LET x == [c EXCEPT !.ref = n] IN
           x \in Channels /\ x.ref = n /\ x.open = c.open /\ x.ready = c.ready /\ x.buf = c.buf
BY DEF Channels

\* A channel whose ready documents are changed.
LEMMA ChannelReady ==
    ASSUME NEW c \in Channels, NEW q \in Seq(DocNos)
    PROVE  LET x == [c EXCEPT !.ready = q] IN
           x \in Channels /\ x.ready = q /\ x.open = c.open /\ x.ref = c.ref /\ x.buf = c.buf
BY DEF Channels

\* A channel whose reply state is changed.
LEMMA ChannelBuf ==
    ASSUME NEW c \in Channels, NEW n \in Int
    PROVE  LET x == [c EXCEPT !.buf = n] IN
           x \in Channels /\ x.buf = n /\ x.open = c.open /\ x.ref = c.ref /\ x.ready = c.ready
BY DEF Channels

\* Two entries that differ in their channel only.
SameBut(e, f) ==
    /\ f.doc_no = e.doc_no /\ f.doc = e.doc /\ f.got = e.got /\ f.parent = e.parent
    /\ f.reply = e.reply /\ f.orphans = e.orphans /\ f.expected = e.expected

\* An entry whose channel is changed.
LEMMA EntryChannel ==
    ASSUME NEW e \in Entries, NEW c \in Channels
    PROVE  LET f == [e EXCEPT !.channel = c] IN
           f \in Entries /\ f.channel = c /\ SameBut(e, f)
BY Zenon DEF Entries, SameBut

\* The fields of an entry.
LEMMA EntryFields ==
    ASSUME NEW e \in Entries
    PROVE  /\ e.doc_no \in Nat /\ e.doc \in States /\ e.got \in SUBSET [d : DocNos, i : Nat]
           /\ e.parent \in Nat /\ e.reply \in BOOLEAN /\ e.channel \in Channels
           /\ e.orphans \in Seq(DocNos) /\ e.expected \in Nat
BY DEF Entries

\* An entry that is reserved for a new document.
LEMMA ReservedFields ==
    ASSUME NEW e \in Entries, NEW g \in Segs
    PROVE  LET f == Reserved(e, g) IN
           /\ f \in Entries /\ f.doc_no = g.d /\ f.doc = "reserved" /\ f.got = {}
           /\ f.parent = None /\ f.reply = FALSE /\ f.orphans = <<>> /\ f.expected = e.expected
           /\ f.channel = IF g.closed THEN Closed ELSE NewChannel(0, e.orphans, None)
<1> DEFINE c == IF g.closed THEN Closed ELSE NewChannel(0, e.orphans, None)
<1>1. e.orphans \in Seq(DocNos) /\ e.expected \in Nat
  BY EntryFields
<1>2. c \in Channels
  <2>1. 0 \in Int /\ None \in Int
    BY DEF None
  <2>2. NewChannel(0, e.orphans, None) \in Channels
    BY <1>1, <2>1, NewChannelFields, ZenonT(60)
  <2> QED
    BY <2>2, ClosedFields
<1>3. g.d \in DocNos /\ g.d \in Nat
  BY SlotTypes DEF Segs
<1>0. Reserved(e, g) = [EmptyEntry EXCEPT !.doc_no = g.d, !.doc = "reserved",
                                          !.expected = e.expected, !.channel = c]
  BY DEF Reserved
<1> HIDE DEF c
<1>4. Reserved(e, g) = [doc_no |-> g.d, doc |-> "reserved", got |-> {}, parent |-> None,
                        reply |-> FALSE, channel |-> c, orphans |-> <<>>, expected |-> e.expected]
  BY <1>0, Zenon DEF EmptyEntry
<1>5. Reserved(e, g) \in Entries
  BY <1>1, <1>2, <1>3, <1>4, NoElems DEF Entries, States, None
<1> QED
  BY <1>4, <1>5 DEF c

\* The document is put into a reserved slot.
LEMMA ActivatedFields ==
    ASSUME NEW e \in Entries, NEW g \in Segs, NEW reply \in BOOLEAN
    PROVE  LET f == Activated(e, g, reply) IN
           /\ f \in Entries /\ f.doc_no = e.doc_no /\ f.doc = "active"
           /\ f.parent = ParentOfSeg(g) /\ f.reply = reply /\ f.orphans = e.orphans
           /\ f.expected = e.expected /\ f.channel = e.channel
<1>1. ParentOfSeg(g) \in Nat
  BY SlotTypes DEF ParentOfSeg, Segs, None
<1>2. [d |-> g.d, i |-> g.i] \in [d : DocNos, i : Nat]
  BY DEF Segs
<1> QED
  BY <1>1, <1>2, Zenon DEF Activated, RecvDoc, Entries, States

\* A segment is written.
LEMMA RecvDocFields ==
    ASSUME NEW e \in Entries, NEW g \in Segs
    PROVE  LET f == RecvDoc(e, g) IN
           /\ f \in Entries /\ f.channel = e.channel /\ f.doc_no = e.doc_no /\ f.doc = e.doc
           /\ f.parent = e.parent /\ f.reply = e.reply /\ f.orphans = e.orphans
           /\ f.expected = e.expected
<1>2. [d |-> g.d, i |-> g.i] \in [d : DocNos, i : Nat]
  BY DEF Segs
<1> QED
  BY <1>2 DEF RecvDoc, Entries

\* The document is complete.
LEMMA FinishedFields ==
    ASSUME NEW e \in Entries
    PROVE  LET f == Finished(e) IN
           /\ f \in Entries /\ f.doc_no = e.doc_no /\ f.doc = "finishing" /\ f.parent = e.parent
           /\ f.reply = e.reply /\ f.orphans = e.orphans /\ f.expected = e.expected
           /\ f.channel.open = e.channel.open /\ f.channel.ready = e.channel.ready
           /\ f.channel.buf = e.channel.buf
           /\ f.channel.ref = e.channel.ref + (IF e.channel.open THEN 1 ELSE 0)
           /\ ~e.channel.open => f.channel = e.channel
<1>1. e.channel \in Channels
  BY EntryFields
<1>2. e.channel.ref \in Int
  BY <1>1, ChannelFields
<1>0. PICK n \in Int : /\ n = IF e.channel.open THEN e.channel.ref + 1 ELSE e.channel.ref
                      /\ n = e.channel.ref + (IF e.channel.open THEN 1 ELSE 0)
  BY <1>2
<1> DEFINE c == [e.channel EXCEPT !.ref = n]
<1>3. /\ c \in Channels /\ c.open = e.channel.open /\ c.ready = e.channel.ready
      /\ c.buf = e.channel.buf /\ c.ref = e.channel.ref + (IF e.channel.open THEN 1 ELSE 0)
  BY <1>0, <1>1, ChannelRef
<1>4. ~e.channel.open => c = e.channel
  BY <1>0, <1>1 DEF Channels
<1>5. Finished(e) = [e EXCEPT !.doc = "finishing", !.channel = c]
  BY <1>0 DEF Finished
<1> HIDE DEF c
<1>6. /\ Finished(e) \in Entries /\ Finished(e).channel = c /\ Finished(e).doc = "finishing"
      /\ Finished(e).doc_no = e.doc_no /\ Finished(e).parent = e.parent
      /\ Finished(e).reply = e.reply /\ Finished(e).orphans = e.orphans
      /\ Finished(e).expected = e.expected
  BY <1>3, <1>5, Zenon DEF Entries, States
<1> QED
  BY <1>3, <1>4, <1>6

\* A call that goes on to drop documents.
LEMMA DroppingFields ==
    ASSUME NEW stack \in Seq(DocNos), NEW later \in Seq(DocNos),
           NEW notify \in Slots \cup {NoSlot}, NEW held \in Slots \cup {NoSlot}
    PROVE  LET r == Dropping(stack, later, notify, held) IN
           /\ CallTyped(r) /\ r.pc \in {"idle", "drop"} /\ r.seg = NoSeg /\ r.fin = NoFin
           /\ r.stack = stack /\ r.later = later /\ r.notify = notify /\ r.held = held
           /\ r.pc = "idle" => stack = <<>> /\ later = <<>> /\ held = NoSlot
<1>1. CASE stack = <<>> /\ later = <<>> /\ notify = NoSlot /\ held = NoSlot
  <2>1. Dropping(stack, later, notify, held) = Idle
    BY <1>1, Zenon DEF Dropping
  <2>2. Idle \in Calls
    BY NoElems, Zenon DEF Idle, Calls, NoSeg, NoFin, None
  <2> QED
    BY <1>1, <2>1, <2>2 DEF CallTyped, Idle
<1>2. CASE ~(stack = <<>> /\ later = <<>> /\ notify = NoSlot /\ held = NoSlot)
  <2>1. Dropping(stack, later, notify, held) =
          [Idle EXCEPT !.pc = "drop", !.stack = stack, !.later = later,
                       !.notify = notify, !.held = held]
    BY <1>2 DEF Dropping
  <2>2. Dropping(stack, later, notify, held) =
          [pc |-> "drop", seg |-> NoSeg, fin |-> NoFin, held |-> held, notify |-> notify,
           stack |-> stack, later |-> later]
    BY <2>1, Zenon DEF Idle
  <2>3. NoFin \in [parent : Nat, reply : BOOLEAN]
    BY DEF NoFin, None
  <2> QED
    BY <2>2, <2>3 DEF CallTyped, Calls
<1> QED
  BY <1>1, <1>2, Zenon

\* A call that has a segment at hand.
Calling(pc, g, fin, notify, later) ==
    [pc |-> pc, seg |-> g, fin |-> fin, held |-> NoSlot, notify |-> notify,
     stack |-> <<>>, later |-> later]

Fins == [parent : Nat, reply : BOOLEAN]

\* Its type.
LEMMA CallingTyped ==
    ASSUME NEW pc \in {"parent", "relock", "wait", "woken", "post"}, NEW g \in Segs,
           NEW fin \in Fins, NEW notify \in Slots \cup {NoSlot}, NEW later \in Seq(DocNos)
    PROVE  CallTyped(Calling(pc, g, fin, notify, later))
BY NoElems DEF CallTyped, Calling, Calls, Fins

\* What fin_doc takes out of a document.
LEMMA FinTypes ==
    /\ NoFin \in Fins /\ NoFin.parent = None /\ NoFin.reply = FALSE
    /\ \A p \in Nat, b \in BOOLEAN : [parent |-> p, reply |-> b] \in Fins
BY DEF NoFin, None, Fins

\* A thread that waits for a reserved slot.
LEMMA WaitForm ==
    ASSUME NEW g, NEW later, NEW r, r = [Idle EXCEPT !.pc = "wait", !.seg = g, !.later = later]
    PROVE  r = Calling("wait", g, NoFin, NoSlot, later)
BY Zenon DEF Idle, Calling

\* A thread that has reserved a slot.
LEMMA ParentForm ==
    ASSUME NEW g, NEW notify, NEW later, NEW r,
           r = [Idle EXCEPT !.pc = "parent", !.seg = g, !.notify = notify, !.later = later]
    PROVE  r = Calling("parent", g, NoFin, notify, later)
BY Zenon DEF Idle, Calling

\* A thread in fin_doc.
LEMMA PostForm ==
    ASSUME NEW g, NEW fin, NEW notify, NEW later, NEW r,
           r = [Idle EXCEPT !.pc = "post", !.seg = g, !.fin = fin, !.notify = notify, !.later = later]
    PROVE  r = Calling("post", g, fin, notify, later)
BY Zenon DEF Idle, Calling

\* The fields of a call.
LEMMA CallFields ==
    ASSUME NEW r, CallTyped(r)
    PROVE  /\ r.fin.parent \in Nat /\ r.fin.reply \in BOOLEAN /\ r.held \in Slots \cup {NoSlot}
           /\ r.notify \in Slots \cup {NoSlot} /\ r.stack \in Seq(DocNos) /\ r.later \in Seq(DocNos)
           /\ r.pc \in {"parent", "relock", "wait", "woken", "post"} =>
                /\ r.seg \in Segs /\ r.seg.d \in DocNos /\ r.seg.d \in Nat
                /\ SlotOf(r.seg.d) \in Slots /\ Docs[r.seg.d].parent \in Nat
           /\ r.pc = "droplock" => r.stack # <<>> /\ Last(r.stack) \in DocNos
<1>1. /\ r.fin.parent \in Nat /\ r.fin.reply \in BOOLEAN /\ r.held \in Slots \cup {NoSlot}
      /\ r.notify \in Slots \cup {NoSlot} /\ r.stack \in Seq(DocNos) /\ r.later \in Seq(DocNos)
  BY DEF CallTyped, Calls
<1>2. r.pc \in {"parent", "relock", "wait", "woken", "post"} => r.seg \in Segs
  BY DEF CallTyped
<1>3. \A g \in Segs : g.d \in DocNos
  BY DEF Segs
<1>4. r.pc = "droplock" => r.stack # <<>>
  BY DEF CallTyped
<1>5. r.stack # <<>> => Last(r.stack) \in DocNos
  BY <1>1, FrontElems
<1> QED
  BY <1>1, <1>2, <1>3, <1>4, <1>5, SlotTypes, Zenon

\* One entry is replaced.
LEMMA SetEntry ==
    ASSUME NEW en, NEW T, Typed(en, T), NEW s \in Slots, NEW e, EntryTyped(e)
    PROVE  Typed([en EXCEPT ![s] = e], T)
BY DEF Typed

\* One call is replaced.
LEMMA SetCall ==
    ASSUME NEW en, NEW T, Typed(en, T), NEW a \in Actors, NEW r, CallTyped(r)
    PROVE  Typed(en, [T EXCEPT ![a] = r])
BY DEF Typed

\* An entry and a call are replaced.
LEMMA SetBoth ==
    ASSUME NEW en, NEW T, Typed(en, T), NEW s \in Slots, NEW e, EntryTyped(e),
           NEW a \in Actors, NEW r, CallTyped(r)
    PROVE  Typed([en EXCEPT ![s] = e], [T EXCEPT ![a] = r])
BY SetEntry, SetCall

\* A segment is written into an entry.
LEMMA WrittenTyped ==
    ASSUME NEW t \in Actors, NEW s \in Slots, NEW e, EntryTyped(e), NEW g \in Segs,
           NEW notify \in Slots \cup {NoSlot}, NEW later \in Seq(DocNos),
           Typed(entry, th), Written(t, s, e, g, notify, later)
    PROVE  Typed(entry', th')
<1>1. CASE ~Whole(e)
  <2>1. entry' = [entry EXCEPT ![s] = e] /\ th' = [th EXCEPT ![t] = Dropping(<<>>, later, notify, NoSlot)]
    BY <1>1 DEF Written
  <2>2. CallTyped(Dropping(<<>>, later, notify, NoSlot))
    BY DroppingFields, NoElems, Zenon
  <2> QED
    BY <2>1, <2>2, SetBoth, Zenon
<1>2. CASE Whole(e) /\ e.parent = None
  BY <1>2, Zenon DEF Written
<1>3. CASE Whole(e) /\ e.parent # None
  <2>0. PICK fin \in Fins : fin = [parent |-> e.parent, reply |-> e.reply]
    BY EntryFields, FinTypes, Zenon DEF EntryTyped
  <2>5. PICK r : r = [Idle EXCEPT !.pc = "post", !.seg = g, !.fin = fin, !.notify = notify,
                                  !.later = later]
    OBVIOUS
  <2>1. entry' = [entry EXCEPT ![s] = Finished(e)] /\ th' = [th EXCEPT ![t] = r]
    BY <1>3, <2>0, <2>5 DEF Written
  <2>2. r = Calling("post", g, fin, notify, later)
    BY <2>5, PostForm, Zenon
  <2>3. CallTyped(r)
    BY <2>2, CallingTyped, Zenon
  <2>4. EntryTyped(Finished(e))
    BY FinishedFields DEF EntryTyped
  <2> QED
    BY <2>1, <2>3, <2>4, SetBoth, Zenon
<1> QED
  BY <1>1, <1>2, <1>3

\* A segment of a known document.
LEMMA UpdateTyped ==
    ASSUME NEW t \in Actors, NEW s \in Slots, NEW e, EntryTyped(e), NEW g \in Segs,
           NEW later \in Seq(DocNos), Typed(entry, th), Update(t, s, e, g, later)
    PROVE  Typed(entry', th')
<1>1. CASE e.doc = "reserved"
  <2>0. PICK r : r = [Idle EXCEPT !.pc = "wait", !.seg = g, !.later = later]
    OBVIOUS
  <2>1. entry' = [entry EXCEPT ![s] = e] /\ th' = [th EXCEPT ![t] = r]
    BY <1>1, <2>0 DEF Update
  <2>2. r = Calling("wait", g, NoFin, NoSlot, later)
    BY <2>0, WaitForm, Zenon
  <2>3. CallTyped(r)
    BY <2>2, CallingTyped, FinTypes, Zenon
  <2> QED
    BY <2>1, <2>3, SetBoth, Zenon
<1>2. CASE e.doc # "reserved" /\ e.doc # "active"
  <2>1. entry' = [entry EXCEPT ![s] = e] /\ th' = [th EXCEPT ![t] = Dropping(<<>>, later, NoSlot, NoSlot)]
    BY <1>2 DEF Update
  <2>2. CallTyped(Dropping(<<>>, later, NoSlot, NoSlot))
    BY DroppingFields, NoElems, Zenon
  <2> QED
    BY <2>1, <2>2, SetBoth, Zenon
<1>3. CASE e.doc = "active"
  <2>1. Written(t, s, RecvDoc(e, g), g, NoSlot, later)
    BY <1>3 DEF Update
  <2>2. EntryTyped(RecvDoc(e, g))
    BY RecvDocFields DEF EntryTyped
  <2> QED
    BY <2>1, <2>2, WrittenTyped, Zenon
<1> QED
  BY <1>1, <1>2, <1>3

\* What is left to drop.
LEMMA LeftoversElems ==
    ASSUME NEW c \in Channels, NEW q \in Seq(DocNos)
    PROVE  Leftovers(c, q) \in Seq(DocNos) /\ Elems(Leftovers(c, q)) = Elems(c.ready) \cup Elems(q)
<1>1. c.ready \in Seq(DocNos)
  BY ChannelFields
<1>2. Reverse(q) \in Seq(DocNos) /\ Elems(Reverse(q)) = Elems(q)
  BY ReverseElems
<1> QED
  BY <1>1, <1>2, ConcatElems DEF Leftovers

\* The entry and the call that a step works on.
LEMMA SlotTyped ==
    ASSUME Typed(entry, th), NEW n \in Nat
    PROVE  /\ SlotOf(n) \in Slots /\ EntryTyped(entry[SlotOf(n)]) /\ entry[SlotOf(n)] \in Entries
           /\ entry[SlotOf(n)].channel \in Channels /\ entry[SlotOf(n)].orphans \in Seq(DocNos)
<1>1. SlotOf(n) \in Slots
  BY SlotTypes
<1>2. EntryTyped(entry[SlotOf(n)])
  BY <1>1 DEF Typed
<1> QED
  BY <1>1, <1>2, EntryFields, Zenon DEF EntryTyped

\* A segment arrives.
LEMMA RecvTyped ==
    ASSUME Shape, NEW t \in Threads, NEW g \in net, RecvKnown(t, g) \/ RecvNew(t, g)
    PROVE  Typed(entry', th')
<1> DEFINE s == SlotOf(g.d)
           e == entry[s]
<1>1. t \in Actors /\ g \in Segs /\ g.d \in DocNos /\ g.d \in Nat
  BY SlotTypes DEF Actors, Shape, Segs
<1>2. s \in Slots /\ EntryTyped(e) /\ e \in Entries /\ e.channel \in Channels /\ e.orphans \in Seq(DocNos)
  BY <1>1, SlotTyped DEF Shape
<1> HIDE DEF s
<1>3. CASE RecvKnown(t, g)
  <2>1. CASE g.closed
    <3>1. Update(t, s, [e EXCEPT !.channel = Closed], g, Leftovers(e.channel, <<>>))
      BY <1>3, <2>1 DEF RecvKnown, s
    <3>2. EntryTyped([e EXCEPT !.channel = Closed])
      <4>1. /\ [e EXCEPT !.channel = Closed] \in Entries
            /\ SameBut(e, [e EXCEPT !.channel = Closed])
        BY <1>2, EntryChannel, ClosedFields
      <4> QED
        BY <1>2, <4>1 DEF EntryTyped, SameBut
    <3>3. Leftovers(e.channel, <<>>) \in Seq(DocNos)
      BY <1>2, LeftoversElems, NoElems, Zenon
    <3> QED
      BY <1>1, <1>2, <3>1, <3>2, <3>3, UpdateTyped, Zenon DEF Shape
  <2>2. CASE ~g.closed
    <3>1. Update(t, s, e, g, <<>>)
      BY <1>3, <2>2 DEF RecvKnown, s
    <3> QED
      BY <1>1, <1>2, <3>1, NoElems, UpdateTyped, Zenon DEF Shape
  <2> QED
    BY <2>1, <2>2
<1>4. CASE RecvNew(t, g)
  <2> DEFINE later == Leftovers(e.channel, IF g.closed THEN e.orphans ELSE <<>>)
  <2>1. later \in Seq(DocNos)
    <3>1. (IF g.closed THEN e.orphans ELSE <<>>) \in Seq(DocNos)
      BY <1>2, NoElems
    <3> QED
      BY <1>2, <3>1, LeftoversElems, Zenon
  <2>2. /\ Reserved(e, g) \in Entries /\ Reserved(e, g).orphans = <<>>
    BY <1>1, <1>2, ReservedFields, Zenon
  <2>3. CASE entry' = entry /\ th' = th
    BY <2>3 DEF Shape
  <2>4. CASE /\ entry' = [entry EXCEPT ![s] = Reserved(e, g)]
             /\ th' = [th EXCEPT ![t] =
                    [Idle EXCEPT !.pc = "parent", !.seg = g, !.notify = s, !.later = later]]
    <3> HIDE DEF later
    <3>0. PICK r : r = [Idle EXCEPT !.pc = "parent", !.seg = g, !.notify = s, !.later = later]
      OBVIOUS
    <3>1. r = Calling("parent", g, NoFin, s, later)
      BY <3>0, ParentForm, Zenon
    <3>2. CallTyped(r)
      BY <1>1, <1>2, <2>1, <3>1, CallingTyped, FinTypes, Zenon
    <3>3. EntryTyped(Reserved(e, g))
      BY <2>2 DEF EntryTyped
    <3>4. entry' = [entry EXCEPT ![s] = Reserved(e, g)] /\ th' = [th EXCEPT ![t] = r]
      BY <2>4, <3>0
    <3> QED
      BY <1>1, <1>2, <3>2, <3>3, <3>4, SetBoth, Zenon DEF Shape
  <2>5. CASE Written(t, s, Activated(Reserved(e, g), g, FALSE), g, NoSlot, later)
    <3>1. EntryTyped(Activated(Reserved(e, g), g, FALSE))
      BY <1>1, <2>2, ActivatedFields, Zenon DEF EntryTyped
    <3> HIDE DEF later
    <3> QED
      BY <1>1, <1>2, <2>1, <2>5, <3>1, WrittenTyped, Zenon DEF Shape
  <2> QED
    BY <1>4, <2>3, <2>4, <2>5, Zenon DEF RecvNew, s, Abandon
<1> QED
  BY <1>3, <1>4, Zenon

\* A call goes on.
LEMMA StepTyped ==
    ASSUME Shape, NEW a \in Actors, Step(a)
    PROVE  Typed(entry', th')
<1> DEFINE r == th[a]
           d == r.seg.d
           p == Docs[d].parent
<1>0. Typed(entry, th) /\ CallTyped(r) /\ r \in Calls
  BY Zenon DEF Shape, Typed, CallTyped
<1>1. /\ r.fin.parent \in Nat /\ r.fin.reply \in BOOLEAN /\ r.held \in Slots \cup {NoSlot}
      /\ r.notify \in Slots \cup {NoSlot} /\ r.stack \in Seq(DocNos) /\ r.later \in Seq(DocNos)
      /\ r.pc \in {"parent", "relock", "wait", "woken", "post"} =>
            r.seg \in Segs /\ d \in DocNos /\ d \in Nat /\ SlotOf(d) \in Slots /\ p \in Nat
      /\ r.pc = "droplock" => r.stack # <<>> /\ Last(r.stack) \in DocNos
  BY <1>0, CallFields, Zenon
<1>2. ASSUME LookupParent(a) PROVE Typed(entry', th')
  <2> DEFINE s == SlotOf(p)
             c == TryIncoming(entry[s].channel)
             b == entry[s].doc_no = p /\ entry[s].channel.buf = Await
             q == [r EXCEPT !.pc = "relock", !.fin.reply = b]
  <2>1. r.pc = "parent" /\ p \in Nat /\ r.seg \in Segs
    BY <1>1, <1>2, ZenonT(60) DEF LookupParent
  <2>2. s \in Slots /\ EntryTyped(entry[s]) /\ entry[s] \in Entries /\ entry[s].channel \in Channels
    BY <1>0, <2>1, SlotTyped
  <2>3. c \in Channels
    <3>0. entry[s].channel.buf \in Int
      BY <2>2, ChannelFields, Zenon
    <3>a. Incoming \in Int
      BY DEF Incoming
    <3>1. PICK n \in Int : n = IF entry[s].channel.buf = Await THEN Incoming ELSE entry[s].channel.buf
      BY <3>0, <3>a, Zenon
    <3>2. c = [entry[s].channel EXCEPT !.buf = n]
      BY <3>1, Zenon DEF TryIncoming
    <3> QED
      BY <2>2, <3>2, ChannelBuf, ZenonT(60)
  <2>4. EntryTyped([entry[s] EXCEPT !.channel = c])
    <3> HIDE DEF c
    <3>1. /\ [entry[s] EXCEPT !.channel = c] \in Entries
          /\ SameBut(entry[s], [entry[s] EXCEPT !.channel = c])
      BY <2>2, <2>3, EntryChannel, Zenon
    <3> QED
      BY <2>2, <3>1, Zenon DEF EntryTyped, SameBut
  <2>5. CallTyped(q)
    <3> HIDE DEF b
    <3>1. b \in BOOLEAN
      BY DEF b
    <3>2. q \in Calls /\ q.pc = "relock" /\ q.seg = r.seg
      BY <1>0, <3>1, Zenon DEF Calls
    <3> QED
      BY <2>1, <3>2, Zenon DEF CallTyped
  <2>6. th' = [th EXCEPT ![a] = q]
    BY <1>2, Zenon DEF LookupParent
  <2>7. entry' = entry \/ entry' = [entry EXCEPT ![s] = [entry[s] EXCEPT !.channel = c]]
    BY <1>2, Zenon DEF LookupParent
  <2> HIDE DEF q, c, s
  <2>8. Typed(entry, [th EXCEPT ![a] = q])
    BY <1>0, <2>5, SetCall
  <2>9. Typed([entry EXCEPT ![s] = [entry[s] EXCEPT !.channel = c]], [th EXCEPT ![a] = q])
    BY <1>0, <2>2, <2>4, <2>5, SetBoth, Zenon
  <2> QED
    BY <2>6, <2>7, <2>8, <2>9
<1>3. ASSUME Create(a) PROVE Typed(entry', th')
  <2> DEFINE s == SlotOf(d)
             e == Activated(entry[s], r.seg, r.fin.reply)
  <2>1. r.pc = "relock" /\ d \in Nat /\ r.seg \in Segs /\ s \in Slots
    BY <1>1, <1>3, Zenon DEF Create
  <2>2. EntryTyped(entry[s]) /\ entry[s] \in Entries
    BY <1>0, <2>1, SlotTyped, Zenon
  <2>3. EntryTyped(e)
    BY <1>1, <2>1, <2>2, ActivatedFields, Zenon DEF EntryTyped
  <2>4. Written(a, s, e, r.seg, s, r.later)
    BY <1>3, Zenon DEF Create
  <2> HIDE DEF e, s
  <2> QED
    BY <1>0, <1>1, <2>1, <2>3, <2>4, WrittenTyped, Zenon
<1>4. ASSUME Resume(a) PROVE Typed(entry', th')
  <2> DEFINE s == SlotOf(d)
  <2>1. r.pc = "woken" /\ d \in Nat /\ r.seg \in Segs /\ s \in Slots
    BY <1>1, <1>4, Zenon DEF Resume
  <2>2. EntryTyped(entry[s])
    BY <1>0, <2>1, SlotTyped, Zenon
  <2>3. Update(a, s, entry[s], r.seg, r.later)
    BY <1>4 DEF Resume
  <2> HIDE DEF s
  <2> QED
    BY <1>0, <1>1, <2>1, <2>2, <2>3, UpdateTyped, Zenon
<1>5. ASSUME Post(a) PROVE Typed(entry', th')
  <2> DEFINE f == r.fin.parent
             s == SlotOf(f)
             e == entry[s]
             c == PostToChannel(e.channel, d, r.fin.reply)
             o == [e EXCEPT !.orphans = Append(e.orphans, d), !.expected = f]
  <2>1. r.pc = "post" /\ d \in DocNos /\ d \in Nat /\ f \in Nat
    BY <1>1, <1>5, Zenon DEF Post
  <2>2. s \in Slots /\ EntryTyped(e) /\ e \in Entries /\ e.channel \in Channels /\ e.orphans \in Seq(DocNos)
    BY <1>0, <2>1, SlotTyped
  <2>3. /\ \A n \in Slots \cup {NoSlot} : CallTyped(Dropping(<<d>>, r.later, r.notify, n))
        /\ CallTyped(Dropping(<<>>, r.later, r.notify, NoSlot))
    <3>1. <<d>> \in Seq(DocNos) /\ <<>> \in Seq(DocNos)
      BY <2>1
    <3> QED
      BY <1>1, <3>1, DroppingFields, ZenonT(60)
  <2>4. c \in Channels
    <3>1. Append(e.channel.ready, d) \in Seq(DocNos)
      BY <2>1, <2>2, AppendElems, ChannelFields
    <3>2. [e.channel EXCEPT !.ready = Append(e.channel.ready, d)] \in Channels
      BY <2>2, <3>1, ChannelReady, Zenon
    <3>3. d \in Int
      BY <2>1
    <3>4. [e.channel EXCEPT !.buf = d] \in Channels
      BY <2>2, <3>3, ChannelBuf, Zenon
    <3> QED
      BY <3>2, <3>4, Zenon DEF PostToChannel
  <2>5. EntryTyped([e EXCEPT !.channel = c])
    <3> HIDE DEF c
    <3>1. [e EXCEPT !.channel = c] \in Entries /\ SameBut(e, [e EXCEPT !.channel = c])
      BY <2>2, <2>4, EntryChannel
    <3> QED
      BY <2>2, <3>1, Zenon DEF EntryTyped, SameBut
  <2>6. e.doc_no < f => EntryTyped(o)
    <3>1. Append(e.orphans, d) \in Seq(DocNos)
      BY <2>1, <2>2, AppendElems
    <3>2. o \in Entries /\ o.doc_no = e.doc_no /\ o.expected = f
      BY <2>1, <2>2, <3>1, Zenon DEF Entries
    <3> QED
      BY <3>2, ZenonT(60) DEF EntryTyped
  <2>7. CASE /\ entry' = [entry EXCEPT ![s].channel = PostToChannel(@, d, r.fin.reply)]
             /\ th' = [th EXCEPT ![a] = Dropping(<<>>, r.later, r.notify, NoSlot)]
    <3>1. entry' = [entry EXCEPT ![s] = [e EXCEPT !.channel = c]]
      BY <2>7, Zenon
    <3> DEFINE x == [e EXCEPT !.channel = c]
               q == Dropping(<<>>, r.later, r.notify, NoSlot)
    <3>2. EntryTyped(x) /\ CallTyped(q) /\ entry' = [entry EXCEPT ![s] = x] /\ th' = [th EXCEPT ![a] = q]
      BY <2>3, <2>5, <2>7, <3>1, Zenon
    <3> HIDE DEF x, q, s
    <3> QED
      BY <1>0, <2>2, <3>2, SetBoth, Zenon
  <2>8. CASE /\ th' = [th EXCEPT ![a] = Dropping(<<d>>, r.later, r.notify, s)]
             /\ entry' = entry
    <3> HIDE DEF s
    <3> QED
      BY <1>0, <2>2, <2>3, <2>8, SetCall, Zenon
  <2>9. CASE /\ e.doc_no < f
             /\ entry' = [entry EXCEPT ![s].orphans = Append(@, d), ![s].expected = f]
             /\ th' = [th EXCEPT ![a] = Dropping(<<>>, r.later, r.notify, NoSlot)]
    <3>1. entry' = [entry EXCEPT ![s] = o]
      BY <2>9, Zenon
    <3> DEFINE q == Dropping(<<>>, r.later, r.notify, NoSlot)
    <3>2. EntryTyped(o) /\ CallTyped(q) /\ th' = [th EXCEPT ![a] = q]
      BY <2>3, <2>6, <2>9, Zenon
    <3> HIDE DEF o, q, s
    <3> QED
      BY <1>0, <2>2, <3>1, <3>2, SetBoth, Zenon
  <2>10. CASE entry' = entry /\ th' = th
    BY <1>0, <2>10
  <2> QED
    BY <1>5, <2>7, <2>8, <2>9, <2>10, Zenon DEF Post
<1>6. ASSUME DropPop(a) PROVE Typed(entry', th')
  <2> DEFINE q == [r EXCEPT !.pc = "droplock"]
  <2>1. q \in Calls /\ q.pc = "droplock" /\ q.stack = r.stack
    BY <1>0, Zenon DEF Calls
  <2>2. CallTyped(q)
    BY <1>6, <2>1 DEF CallTyped, DropPop
  <2>3. entry' = entry /\ th' = [th EXCEPT ![a] = q]
    BY <1>6 DEF DropPop
  <2> HIDE DEF q
  <2> QED
    BY <1>0, <2>2, <2>3, SetCall, Zenon
<1>7. ASSUME DropSlot(a) PROVE Typed(entry', th')
  <2> DEFINE x == Last(r.stack)
             s == SlotOf(x)
             e == entry[s]
             k == IF e.doc_no = x THEN Children(e.channel) ELSE <<>>
             q == [r EXCEPT !.pc = "drop", !.stack = Front(r.stack) \o k]
             f == [e EXCEPT !.doc = "parentclose", !.channel = Closed]
  <2>1. r.stack # <<>> /\ x \in Nat
    BY <1>1, <1>7, SlotTypes, Zenon DEF DropSlot
  <2>2. s \in Slots /\ EntryTyped(e) /\ e \in Entries /\ e.channel \in Channels
    BY <1>0, <2>1, SlotTyped, ZenonT(60)
  <2>3. k \in Seq(DocNos)
    BY <2>2, ChannelFields, ReverseElems, NoElems DEF Children
  <2>4. Front(r.stack) \o k \in Seq(DocNos)
    BY <1>1, <2>1, <2>3, FrontElems, ConcatElems, Zenon
  <2>5. CallTyped(q)
    <3> HIDE DEF k
    <3>1. q \in Calls /\ q.pc = "drop"
      BY <1>0, <2>4, Zenon DEF Calls
    <3> QED
      BY <3>1 DEF CallTyped
  <2>6. EntryTyped(f)
    BY <2>2, ClosedFields, Zenon DEF EntryTyped, Entries, States
  <2>7. th' = [th EXCEPT ![a] = q]
    BY <1>7, Zenon DEF DropSlot
  <2>8. entry' = entry \/ entry' = [entry EXCEPT ![s] = f]
    BY <1>7, Zenon DEF DropSlot
  <2> HIDE DEF q, f, s
  <2>9. Typed(entry, [th EXCEPT ![a] = q])
    BY <1>0, <2>5, SetCall
  <2>10. Typed([entry EXCEPT ![s] = f], [th EXCEPT ![a] = q])
    BY <1>0, <2>2, <2>5, <2>6, SetBoth
  <2> QED
    BY <2>7, <2>8, <2>9, <2>10
<1>8. ASSUME DropDone(a) PROVE Typed(entry', th')
  <2> DEFINE q == Dropping(r.later, <<>>, NoSlot, NoSlot)
  <2>1. CallTyped(q)
    BY <1>1, DroppingFields, NoElems, Zenon
  <2>2. ASSUME NEW b \in Actors, Notifies(a, b) PROVE CallTyped([th[b] EXCEPT !.pc = "woken"])
    <3>1. CallTyped(th[b]) /\ th[b] \in Calls /\ th[b].pc = "wait"
      BY <1>0, <2>2 DEF Typed, CallTyped, Notifies
    <3>2. LET u == [th[b] EXCEPT !.pc = "woken"] IN u \in Calls /\ u.pc = "woken" /\ u.seg = th[b].seg
      BY <3>1 DEF Calls
    <3> QED
      BY <3>1, <3>2 DEF CallTyped
  <2>3. /\ entry' = entry
        /\ th' = [b \in Actors |-> IF b = a THEN q
                                   ELSE IF Notifies(a, b) THEN [th[b] EXCEPT !.pc = "woken"]
                                   ELSE th[b]]
    BY <1>8 DEF DropDone
  <2> HIDE DEF q
  <2>4. \A b \in Actors : CallTyped(th'[b])
    BY <1>0, <2>1, <2>2, <2>3 DEF Typed
  <2> QED
    BY <1>0, <2>3, <2>4, Zenon DEF Typed
<1> QED
  BY <1>2, <1>3, <1>4, <1>5, <1>6, <1>7, <1>8, Zenon DEF Step

\* The application works on a channel.
LEMMA AppTyped ==
    ASSUME Shape, NEW c \in Own \cup DocNos,
           TryRecv(c) \/ Close(c) \/ DropHandle(c) \/ CloneHandle(c) \/ PollReply(c)
    PROVE  Typed(entry', th')
<1> DEFINE s == SlotOf(c)
           e == entry[s]
           q == Dropping(e.channel.ready, <<>>, NoSlot, NoSlot)
<1>0. Typed(entry, th) /\ c \in Nat /\ App \in Actors
  BY SlotTypes DEF Shape, Actors
<1>1. s \in Slots /\ EntryTyped(e) /\ e \in Entries /\ e.channel \in Channels
  BY <1>0, SlotTyped
<1>2. \A x \in Channels : EntryTyped([e EXCEPT !.channel = x])
  <2>1. ASSUME NEW x \in Channels PROVE EntryTyped([e EXCEPT !.channel = x])
    <3>1. [e EXCEPT !.channel = x] \in Entries /\ SameBut(e, [e EXCEPT !.channel = x])
      BY <1>1, EntryChannel, Zenon
    <3> QED
      BY <1>1, <3>1 DEF EntryTyped, SameBut
  <2> QED
    BY <2>1
<1>4. e.channel.ref \in Int /\ e.channel.ready \in Seq(DocNos) /\ <<>> \in Seq(DocNos)
  BY <1>1, ChannelFields, NoElems
<1>3. CallTyped(q)
  BY <1>4, DroppingFields, ZenonT(60)
<1>5. \A x \in Channels : Typed([entry EXCEPT ![s] = [e EXCEPT !.channel = x]], th)
                          /\ Typed([entry EXCEPT ![s] = [e EXCEPT !.channel = x]], [th EXCEPT ![App] = q])
  <2> HIDE DEF q, s
  <2> QED
    BY <1>0, <1>1, <1>2, <1>3, SetEntry, SetBoth
<1>6. CASE TryRecv(c)
  <2>1. Popped(e.channel.ready) \in Seq(DocNos)
    BY <1>4, <1>6, FrontElems DEF TryRecv, Popped
  <2>2. [e.channel EXCEPT !.ready = Popped(e.channel.ready)] \in Channels
    BY <1>1, <2>1, ChannelReady, Zenon
  <2>3. /\ entry' = [entry EXCEPT ![s] = [e EXCEPT !.channel =
                        [e.channel EXCEPT !.ready = Popped(e.channel.ready)]]]
        /\ th' = th
    BY <1>6 DEF TryRecv
  <2> QED
    BY <1>5, <2>2, <2>3, Zenon
<1>7. CASE PollReply(c)
  <2>2. [e.channel EXCEPT !.buf = None] \in Channels
    <3>1. None \in Int
      BY DEF None
    <3> QED
      BY <1>1, <3>1, ChannelBuf
  <2>3. /\ entry' = [entry EXCEPT ![s] = [e EXCEPT !.channel = [e.channel EXCEPT !.buf = None]]]
        /\ th' = th
    BY <1>7 DEF PollReply
  <2> QED
    BY <1>5, <2>2, <2>3, Zenon
<1>8. CASE CloneHandle(c)
  <2>1. PICK n \in Int : n = e.channel.ref + 1
    BY <1>4
  <2>2. [e.channel EXCEPT !.ref = n] \in Channels
    BY <1>1, ChannelRef, Zenon
  <2>3. /\ \/ entry' = entry
           \/ entry' = [entry EXCEPT ![s] = [e EXCEPT !.channel = [e.channel EXCEPT !.ref = n]]]
        /\ th' = th
    BY <1>8, <2>1 DEF CloneHandle
  <2> QED
    BY <1>0, <1>5, <2>2, <2>3, ZenonT(60)
<1>9. ASSUME NEW closing, NEW n \in Int, NEW h, CloseIf(c, closing, n, h) PROVE Typed(entry', th')
  <2>1. [e.channel EXCEPT !.ref = n] \in Channels /\ Closed \in Channels
    BY <1>1, ChannelRef, ClosedFields, Zenon
  <2>2. \/ entry' = entry /\ th' = th
        \/ entry' = [entry EXCEPT ![s] = [e EXCEPT !.channel = Closed]] /\ th' = [th EXCEPT ![App] = q]
        \/ /\ entry' = [entry EXCEPT ![s] = [e EXCEPT !.channel = [e.channel EXCEPT !.ref = n]]]
           /\ th' = th
    BY <1>9 DEF CloseIf
  <2> QED
    BY <1>0, <1>5, <2>1, <2>2, Zenon
<1>10. CASE Close(c)
  <2>1. \E n \in Int : \E closing, h : CloseIf(c, closing, n, h)
    <3>1. 0 \in Int
      OBVIOUS
    <3>2. CloseIf(c, TRUE, 0, handles[c])
      BY <1>10, Zenon DEF Close
    <3> QED
      BY <3>1, <3>2, Zenon
  <2> QED
    BY <1>9, <2>1
<1>11. CASE DropHandle(c)
  <2>1. PICK n \in Int : n = e.channel.ref - 1
    BY <1>4
  <2>2. \E closing, h : CloseIf(c, closing, n, h)
    BY <1>11, <2>1, Zenon DEF DropHandle
  <2> QED
    BY <1>9, <2>2, Zenon
<1> QED
  BY <1>6, <1>7, <1>8, <1>10, <1>11

\* The entries at the start.
LEMMA InitEntry ==
    ASSUME Init, NEW s \in Slots
    PROVE  LET e == entry[s] IN
           /\ e \in Entries /\ e.doc = "finack" /\ e.orphans = <<>> /\ e.expected = None
           /\ e.channel.ready = <<>>
           /\ \/ e.doc_no = None /\ e.channel = Closed
              \/ /\ e.doc_no \in Own /\ SlotOf(e.doc_no) = s
                 /\ e.channel = NewChannel(1, <<>>, IF e.doc_no \in Awaited THEN Await ELSE None)
<1> DEFINE own == {p \in Own : SlotOf(p) = s}
<1>1. EmptyEntry \in Entries
  BY NoElems, ClosedFields, ZenonT(60) DEF EmptyEntry, Entries, States, None
<1>2. CASE own = {}
  <2>1. entry[s] = EmptyEntry
    BY <1>2, Zenon DEF Init
  <2> QED
    BY <1>1, <2>1, ClosedFields DEF EmptyEntry
<1>3. CASE own # {}
  <2> DEFINE p == CHOOSE p \in own : TRUE
             b == IF p \in Awaited THEN Await ELSE None
             c == NewChannel(1, <<>>, b)
  <2>1. p \in Own /\ SlotOf(p) = s /\ p \in Nat
    BY <1>3, SlotTypes
  <2>2. entry[s] = [EmptyEntry EXCEPT !.doc_no = p, !.channel = c]
    BY <1>3, Zenon DEF Init
  <2>3. b \in Int
    BY DEF Await, None
  <2> HIDE DEF b
  <2>4. c \in Channels /\ c.ready = <<>>
    <3>1. 1 \in Int /\ <<>> \in Seq(DocNos)
      BY NoElems
    <3>2. c = NewChannel(1, <<>>, b)
      OBVIOUS
    <3> HIDE DEF c
    <3> QED
      BY <2>3, <3>1, <3>2 DEF NewChannel, Channels
  <2> HIDE DEF c, p
  <2>5. /\ entry[s] \in Entries /\ entry[s].doc_no = p /\ entry[s].channel = c
        /\ entry[s].doc = "finack" /\ entry[s].orphans = <<>> /\ entry[s].expected = None
    BY <1>1, <2>1, <2>2, <2>4, ZenonT(60) DEF EmptyEntry, Entries
  <2> QED
    BY <2>1, <2>4, <2>5 DEF c, b
<1> QED
  BY <1>2, <1>3, Zenon

\* The types hold at the start.
LEMMA ShapeInit == Init => Shape
<1> SUFFICES ASSUME Init PROVE Shape
  OBVIOUS
<1>1. DOMAIN entry = Slots /\ entry = [s \in Slots |-> entry[s]]
  BY Zenon DEF Init
<1>2. \A s \in Slots : EntryTyped(entry[s])
  BY InitEntry DEF EntryTyped
<1>3. Idle = Dropping(<<>>, <<>>, NoSlot, NoSlot)
  BY DEF Dropping
<1>4. CallTyped(Idle)
  BY <1>3, DroppingFields, NoElems, Zenon
<1>5. th = [a \in Actors |-> Idle] /\ net = {}
  BY Zenon DEF Init
<1> QED
  BY <1>1, <1>2, <1>4, <1>5 DEF Shape, Typed

\* The types are kept by every step.
LEMMA ShapeStep == Shape /\ [Next]_vars => Shape'
<1> SUFFICES ASSUME Shape, [Next]_vars PROVE Shape'
  OBVIOUS
<1>1. CASE UNCHANGED vars
  BY <1>1, Zenon DEF vars, Shape
<1>2. ASSUME NEW d \in DocNos, NEW k \in 0..Docs[d].segs, PeerSend(d, k) PROVE Shape'
  <2>1. \A i \in 1..Docs[d].segs : [d |-> d, i |-> i, closed |-> i > k] \in Segs
    BY SlotTypes DEF Segs
  <2> QED
    BY <1>2, <2>1, ZenonT(60) DEF PeerSend, Shape
<1>3. ASSUME NEW t \in Threads, NEW g \in net, RecvKnown(t, g) \/ RecvNew(t, g) PROVE Shape'
  <2>1. net' = net
    BY <1>3, Zenon DEF RecvKnown, RecvNew, Abandon
  <2> QED
    BY <1>3, <2>1, RecvTyped DEF Shape
<1>4. ASSUME NEW a \in Actors, Step(a) PROVE Shape'
  <2>1. net' = net
    BY <1>4, Zenon DEF Step, LookupParent, Create, Resume, Post, DropPop, DropSlot, DropDone
  <2> QED
    BY <1>4, <2>1, StepTyped DEF Shape
<1>5. ASSUME NEW c \in Own \cup DocNos,
             TryRecv(c) \/ Close(c) \/ DropHandle(c) \/ CloneHandle(c) \/ PollReply(c)
      PROVE  Shape'
  <2>1. net' = net
    BY <1>5 DEF TryRecv, Close, DropHandle, CloneHandle, PollReply, CloseIf
  <2> QED
    BY <1>5, <2>1, AppTyped, ZenonT(60) DEF Shape
<1> QED
  BY <1>1, <1>2, <1>3, <1>4, <1>5, Zenon DEF Next

\* The tables, the calls and the segments of the peer always have their types.
THEOREM ShapeAlways == Spec => []Shape
<1> QED
  BY ShapeInit, ShapeStep, PTL DEF Spec

\* OrphansWait for all tables, documents and threads, whatever the peer does: orphans are
\* kept in a slot only while the parent they wait for is still to come, so that no document
\* is put under a parent that was in the slot before (recv.rs:369-371, 444-446).
THEOREM OrphansStillWait == Spec => []OrphansWait
<1>1. Shape => OrphansWait
  BY Zenon DEF Shape, Typed, EntryTyped, OrphansWait
<1> QED
  BY <1>1, ShapeAlways, PTL

-----------------------------------------------------------------------------
(* Documents and their parents.                                            *)

\* Documents wait in slots that R leads to from their own, and are posted to such slots.
KinEntry(R, s, e) ==
    /\ \A d \in Elems(e.channel.ready) \cup Elems(e.orphans) : <<SlotOf(d), s>> \in R
    /\ e.doc = "active" /\ e.parent # None => <<s, SlotOf(e.parent)>> \in R

KinCall(R, r) == r.pc = "post" => <<SlotOf(r.seg.d), SlotOf(r.fin.parent)>> \in R

KinOK(R, en, T) ==
    (\A s \in Slots : KinEntry(R, s, en[s])) /\ \A a \in Actors : KinCall(R, T[a])

\* One entry and one call change.
LEMMA KinMoves ==
    ASSUME NEW R, KinOK(R, entry, th), NEW s \in Slots, KinEntry(R, s, entry'[s]),
           NEW t \in Actors, KinCall(R, th'[t]),
           \A x \in Slots \ {s} : entry'[x] = entry[x], \A a \in Actors \ {t} : th'[a] = th[a]
    PROVE  KinOK(R, entry', th')
BY DEF KinOK

\* The same, for the forms in which the actions set entry and th.
LEMMA KinPut ==
    ASSUME NEW R, Typed(entry, th), KinOK(R, entry, th), NEW s \in Slots, NEW e, KinEntry(R, s, e),
           entry' = [entry EXCEPT ![s] = e] \/ entry' = entry,
           NEW t \in Actors, NEW r, KinCall(R, r), th' = [th EXCEPT ![t] = r] \/ th' = th
    PROVE  KinOK(R, entry', th')
<1> \A x \in Slots : entry'[x] = entry[x] \/ (x = s /\ entry'[x] = e)
  BY DEF Typed
<1> \A a \in Actors : th'[a] = th[a] \/ th'[a] = r
  BY DEF Typed
<1> QED
  BY DEF KinOK

\* A new document's entry.
LEMMA NewEntry ==
    ASSUME NEW e \in Entries, NEW g \in Segs
    PROVE  LET f == Reserved(e, g)
               x == Activated(f, g, FALSE)
           IN  /\ f \in Entries /\ f.doc = "reserved" /\ f.orphans = <<>>
               /\ f.channel.ready \in {<<>>, e.orphans}
               /\ x \in Entries /\ x.doc = "active" /\ x.orphans = <<>>
               /\ x.channel = f.channel /\ x.parent = ParentOfSeg(g)
<1>1. PICK f, x : f = Reserved(e, g) /\ x = Activated(f, g, FALSE)
  BY Zenon
<1>2. /\ f \in Entries /\ f.doc_no = g.d /\ f.doc = "reserved" /\ f.orphans = <<>>
      /\ f.channel = IF g.closed THEN Closed ELSE NewChannel(0, e.orphans, None)
  BY <1>1, ReservedFields, Zenon
<1>3. f.channel.ready \in {<<>>, e.orphans}
  BY <1>2, ClosedFields DEF NewChannel
<1>4. /\ x \in Entries /\ x.doc_no = f.doc_no /\ x.doc = "active" /\ x.orphans = f.orphans
      /\ x.channel = f.channel /\ x.parent = ParentOfSeg(g)
  BY <1>1, <1>2, ActivatedFields, ZenonT(60)
<1> QED
  BY <1>1, <1>2, <1>3, <1>4, Zenon

\* The reply buffer is taken out of a channel.
LEMMA TryFields ==
    ASSUME NEW c \in Channels, NEW x, x = TryIncoming(c)
    PROVE  x \in Channels /\ x.open = c.open /\ x.ref = c.ref /\ x.ready = c.ready
<1> PICK n \in Int : n = IF c.buf = Await THEN Incoming ELSE c.buf
  BY ChannelFields DEF Incoming
<1> x = [c EXCEPT !.buf = n]
  BY DEF TryIncoming
<1> QED
  BY ChannelBuf

\* A document is added to a list.
LEMMA AppendDoc ==
    ASSUME NEW q \in Seq(DocNos), NEW d \in DocNos
    PROVE  \E x \in Seq(DocNos) : x = Append(q, d) /\ Elems(x) = Elems(q) \cup {d}
<1>1. Append(q, d) \in Seq(DocNos) /\ Elems(Append(q, d)) = Elems(q) \cup {d}
  BY AppendElems
<1> QED
  BY <1>1, Zenon

\* A document is posted to a channel.
LEMMA PostFields ==
    ASSUME NEW c \in Channels, NEW d \in DocNos, NEW reply
    PROVE  LET x == PostToChannel(c, d, reply) IN
           /\ x \in Channels /\ x.open = c.open /\ x.ref = c.ref
           /\ \A z \in Elems(x.ready) : z \in Elems(c.ready) \/ z = d
<1>1. c.ready \in Seq(DocNos) /\ d \in Int
  BY ChannelFields, SlotTypes
<1>2. PICK q \in Seq(DocNos) : q = Append(c.ready, d) /\ Elems(q) = Elems(c.ready) \cup {d}
  BY <1>1, AppendDoc, Zenon
<1>3. PICK y : y = [c EXCEPT !.ready = q]
  BY Zenon
<1>4. y \in Channels /\ y.open = c.open /\ y.ref = c.ref /\ y.ready = q
  BY <1>3, ChannelReady
<1>5. PICK z : z = [c EXCEPT !.buf = d]
  BY Zenon
<1>6. z \in Channels /\ z.open = c.open /\ z.ref = c.ref /\ z.ready = c.ready
  BY <1>1, <1>5, ChannelBuf
<1>7. PICK x : x = PostToChannel(c, d, reply)
  OBVIOUS
<1>8. x = y \/ x = z
  BY <1>2, <1>3, <1>5, <1>7, ZenonT(60) DEF PostToChannel
<1>9. x \in Channels /\ x.open = c.open /\ x.ref = c.ref /\ (x.ready = q \/ x.ready = c.ready)
  BY <1>4, <1>6, <1>8
<1>10. \A v \in Elems(x.ready) : v \in Elems(c.ready) \/ v = d
  BY <1>2, <1>9, Zenon
<1> QED
  BY <1>7, <1>9, <1>10, ZenonT(60)

\* What posting does to the parent's entry and to the call.
Posts(t, d, p, s, e) ==
    \/ /\ entry' = [entry EXCEPT ![s] = [e EXCEPT !.channel = PostToChannel(e.channel, d, th[t].fin.reply)]]
       /\ th' = [th EXCEPT ![t] = Dropping(<<>>, th[t].later, th[t].notify, NoSlot)] /\ lock' = lock
    \/ /\ lock' = [lock EXCEPT ![s] = t] /\ entry' = entry
       /\ th' = [th EXCEPT ![t] = Dropping(<<d>>, th[t].later, th[t].notify, s)]
    \/ /\ entry' = [entry EXCEPT ![s] = [e EXCEPT !.orphans = Append(e.orphans, d), !.expected = p]]
       /\ th' = [th EXCEPT ![t] = Dropping(<<>>, th[t].later, th[t].notify, NoSlot)] /\ lock' = lock
    \/ entry' = entry /\ th' = th /\ lock' = lock

\* Post is one of these.
LEMMA PostForms ==
    ASSUME Typed(entry, th), NEW t \in Actors, Post(t)
    PROVE  \E d \in DocNos, p \in Nat, s \in Slots, e \in Entries :
             /\ d = th[t].seg.d /\ p = th[t].fin.parent /\ s = SlotOf(p) /\ e = entry[s] /\ Posts(t, d, p, s, e)
<1>1. CallTyped(th[t]) /\ th[t].pc = "post"
  BY Zenon DEF Typed, Post
<1>2. th[t].seg.d \in DocNos /\ th[t].fin.parent \in Nat
  BY <1>1, CallFields, Zenon
<1>3. PICK d \in DocNos, p \in Nat : d = th[t].seg.d /\ p = th[t].fin.parent
  BY <1>2, Zenon
<1>4. PICK s \in Slots, e \in Entries : s = SlotOf(p) /\ e = entry[s]
  BY SlotTypes DEF Typed, EntryTyped
<1>5. \/ /\ entry' = [entry EXCEPT ![s].channel = PostToChannel(@, d, th[t].fin.reply)]
         /\ th' = [th EXCEPT ![t] = Dropping(<<>>, th[t].later, th[t].notify, NoSlot)] /\ lock' = lock
      \/ /\ lock' = [lock EXCEPT ![s] = t] /\ entry' = entry
         /\ th' = [th EXCEPT ![t] = Dropping(<<d>>, th[t].later, th[t].notify, s)]
      \/ /\ entry' = [entry EXCEPT ![s].orphans = Append(@, d), ![s].expected = p]
         /\ th' = [th EXCEPT ![t] = Dropping(<<>>, th[t].later, th[t].notify, NoSlot)] /\ lock' = lock
      \/ entry' = entry /\ th' = th /\ lock' = lock
  BY <1>3, <1>4, Zenon DEF Post
<1>6. ASSUME entry' = [entry EXCEPT ![s].channel = PostToChannel(@, d, th[t].fin.reply)]
      PROVE  entry' = [entry EXCEPT ![s] = [e EXCEPT !.channel = PostToChannel(e.channel, d, th[t].fin.reply)]]
  BY <1>4, <1>6
<1>7. ASSUME entry' = [entry EXCEPT ![s].orphans = Append(@, d), ![s].expected = p]
      PROVE  entry' = [entry EXCEPT ![s] = [e EXCEPT !.orphans = Append(e.orphans, d), !.expected = p]]
  BY <1>4, <1>7, Zenon
<1>8. Posts(t, d, p, s, e)
  BY <1>5, <1>6, <1>7, Zenon DEF Posts
<1> QED
  BY <1>3, <1>4, <1>8, Zenon

\* A call that goes on to drop documents.
LEMMA KinDropping ==
    ASSUME NEW R, NEW q, NEW l, NEW n, NEW h
    PROVE  KinCall(R, Dropping(q, l, n, h))
BY DEF KinCall, Dropping, Idle

\* An entry with another channel.
LEMMA KinChannel ==
    ASSUME NEW R, NEW s, NEW e \in Entries, KinEntry(R, s, e), NEW c \in Channels,
           \A d \in Elems(c.ready) : <<SlotOf(d), s>> \in R
    PROVE  KinEntry(R, s, [e EXCEPT !.channel = c])
<1> PICK f : f = [e EXCEPT !.channel = c]
  BY Zenon
<1> f.channel = c /\ SameBut(e, f)
  BY EntryChannel
<1> QED
  BY DEF KinEntry, SameBut

\* The segment is written into the document, which may be complete then.
LEMMA KinWritten ==
    ASSUME NEW R, Typed(entry, th), KinOK(R, entry, th), NEW t \in Actors, NEW g, NEW s \in Slots,
           s = SlotOf(g.d), NEW x \in Entries, KinEntry(R, s, x), x.doc = "active",
           NEW n, NEW l, Written(t, s, x, g, n, l)
    PROVE  KinOK(R, entry', th')
<1> PICK f, r, q : /\ f = Finished(x) /\ q = Dropping(<<>>, l, n, NoSlot)
                   /\ r = [Idle EXCEPT !.pc = "post", !.seg = g, !.fin = [parent |-> x.parent, reply |-> x.reply],
                                       !.notify = n, !.later = l]
  OBVIOUS
<1> KinEntry(R, s, f)
  BY FinishedFields DEF KinEntry
<1> KinCall(R, q)
  BY KinDropping, Zenon
<1> x.parent # None => KinCall(R, r)
  BY DEF KinCall, KinEntry, Idle
<1>1. \/ entry' = [entry EXCEPT ![s] = x] /\ th' = [th EXCEPT ![t] = q]
      \/ entry' = entry /\ th' = th
      \/ x.parent # None /\ entry' = [entry EXCEPT ![s] = f] /\ th' = [th EXCEPT ![t] = r]
  BY Zenon DEF Written
<1> QED
  BY <1>1, KinPut

\* The segment goes to the document that is in its slot.
LEMMA KinUpdate ==
    ASSUME NEW R, Typed(entry, th), KinOK(R, entry, th), NEW t \in Actors, NEW g \in Segs, NEW s \in Slots,
           s = SlotOf(g.d), NEW x \in Entries, KinEntry(R, s, x), NEW l, Update(t, s, x, g, l)
    PROVE  KinOK(R, entry', th')
<1>1. CASE x.doc = "active"
  <2> PICK y \in Entries : /\ y = RecvDoc(x, g) /\ y.doc = x.doc /\ y.channel = x.channel
                           /\ y.orphans = x.orphans /\ y.parent = x.parent
    BY RecvDocFields, ZenonT(60)
  <2> KinEntry(R, s, y)
    BY DEF KinEntry
  <2> Written(t, s, y, g, NoSlot, l)
    BY <1>1, Zenon DEF Update
  <2> QED
    BY <1>1, KinWritten, Zenon
<1>2. CASE x.doc # "active"
  <2> PICK q, w : q = Dropping(<<>>, l, NoSlot, NoSlot) /\ w = [Idle EXCEPT !.pc = "wait", !.seg = g, !.later = l]
    OBVIOUS
  <2> KinCall(R, q) /\ KinCall(R, w)
    BY KinDropping DEF KinCall, Idle
  <2> entry' = [entry EXCEPT ![s] = x] /\ (th' = [th EXCEPT ![t] = q] \/ th' = [th EXCEPT ![t] = w])
    BY <1>2, Zenon DEF Update
  <2> QED
    BY KinPut, Zenon
<1> QED
  BY <1>1, <1>2, Zenon

\* KinOK, one lemma for each kind of action: a segment arrives.
LEMMA KinRecv ==
    ASSUME NEW R, Ancestry(R), Shape, KinOK(R, entry, th), NEW t \in Threads, NEW g \in net,
           RecvKnown(t, g) \/ RecvNew(t, g)
    PROVE  KinOK(R, entry', th')
<1> PICK s \in Slots, e \in Entries : s = SlotOf(g.d) /\ e = entry[s]
  BY SlotTypes DEF Shape, Segs, Typed, EntryTyped
<1> Typed(entry, th) /\ g \in Segs /\ g.d \in DocNos /\ KinEntry(R, s, e) /\ t \in Actors
  BY DEF Shape, Segs, KinOK, Actors
<1>1. CASE RecvKnown(t, g)
  <2> PICK x, l : Update(t, s, x, g, l) /\ (x = e \/ x = [e EXCEPT !.channel = Closed])
    BY <1>1, Zenon DEF RecvKnown
  <2> x \in Entries /\ KinEntry(R, s, x)
    BY EntryChannel, KinChannel, ClosedFields, NoElems
  <2> QED
    BY KinUpdate, Zenon
<1>2. CASE RecvNew(t, g)
  <2> PICK f, x : f = Reserved(e, g) /\ x = Activated(f, g, FALSE)
    BY Zenon
  <2> /\ f \in Entries /\ f.doc = "reserved" /\ f.orphans = <<>> /\ f.channel.ready \in {<<>>, e.orphans}
      /\ x \in Entries /\ x.doc = "active" /\ x.orphans = <<>> /\ x.channel = f.channel
      /\ x.parent = ParentOfSeg(g)
    BY NewEntry, ZenonT(60)
  <2>1. KinEntry(R, s, f)
    BY NoElems DEF KinEntry
  <2>2. KinEntry(R, s, x)
    BY <2>1, NoElems, ZenonT(60) DEF KinEntry, ParentOfSeg, Ancestry
  <2> PICK l : l = Leftovers(e.channel, IF g.closed THEN e.orphans ELSE <<>>)
    BY Zenon
  <2> PICK r : r = [Idle EXCEPT !.pc = "parent", !.seg = g, !.notify = s, !.later = l]
    OBVIOUS
  <2>3. KinCall(R, r)
    BY DEF KinCall, Idle
  <2>4. \/ entry' = entry /\ th' = th
        \/ entry' = [entry EXCEPT ![s] = f] /\ th' = [th EXCEPT ![t] = r]
        \/ Written(t, s, x, g, NoSlot, l)
    BY <1>2, Zenon DEF RecvNew, Abandon
  <2>5. CASE Written(t, s, x, g, NoSlot, l)
    BY <2>2, <2>5, KinWritten, Zenon
  <2> QED
    BY <2>1, <2>3, <2>4, <2>5, KinPut, Zenon
<1> QED
  BY <1>1, <1>2, Zenon

\* A slot that is filled.
ActivatedAs(x, e, g) ==
    /\ x \in Entries /\ x.doc = "active" /\ x.orphans = e.orphans /\ x.channel = e.channel
    /\ x.parent = ParentOfSeg(g)

\* Create fills a slot so.
LEMMA ActivatedIs ==
    ASSUME NEW e \in Entries, NEW g \in Segs, NEW y \in BOOLEAN
    PROVE  ActivatedAs(Activated(e, g, y), e, g)
BY ActivatedFields, ZenonT(60) DEF ActivatedAs

\* The parent of a reserved document is looked up; a reserved slot is filled or found.
LEMMA KinGoOn ==
    ASSUME NEW R, Ancestry(R), Shape, KinOK(R, entry, th), NEW t \in Actors,
           LookupParent(t) \/ Create(t) \/ Resume(t)
    PROVE  KinOK(R, entry', th')
<1> /\ Typed(entry, th) /\ CallTyped(th[t]) /\ th[t].pc \in {"parent", "relock", "woken"}
  BY ZenonT(60) DEF Shape, Typed, LookupParent, Create, Resume
<1> PICK g \in Segs : g = th[t].seg /\ g.d \in DocNos /\ Docs[g.d].parent \in Nat /\ g.d \in Nat
  BY CallFields
<1>1. CASE LookupParent(t)
  <2> PICK s \in Slots, e \in Entries : s = SlotOf(Docs[g.d].parent) /\ e = entry[s]
    BY SlotTypes DEF Typed, EntryTyped
  <2> PICK c : c = TryIncoming(e.channel)
    BY Zenon
  <2> e.channel \in Channels /\ KinEntry(R, s, e)
    BY EntryFields, Zenon DEF KinOK
  <2> c \in Channels /\ c.ready = e.channel.ready
    BY TryFields, Zenon
  <2> PICK f : f = [e EXCEPT !.channel = c]
    BY Zenon
  <2>1. KinEntry(R, s, f)
    <3> \A d \in Elems(c.ready) : <<SlotOf(d), s>> \in R
      BY Zenon DEF KinEntry
    <3> QED
      BY KinChannel, Zenon
  <2>2. entry' = entry \/ entry' = [entry EXCEPT ![s] = f]
    BY <1>1, Zenon DEF LookupParent
  <2>3. th'[t].pc = "relock" /\ \A a \in Actors \ {t} : th'[a] = th[a]
    BY <1>1, Zenon DEF LookupParent, Typed, CallTyped, Calls
  <2>4. KinCall(R, th'[t])
    BY <2>3, Zenon DEF KinCall
  <2>5. KinEntry(R, s, entry'[s]) /\ \A x \in Slots \ {s} : entry'[x] = entry[x]
    BY <2>1, <2>2, Zenon DEF Typed
  <2> QED
    BY <2>3, <2>4, <2>5, KinMoves, ZenonT(60)
<1>2. PICK s \in Slots, e \in Entries : s = SlotOf(g.d) /\ e = entry[s]
  BY SlotTypes, ZenonT(60) DEF Typed, EntryTyped
<1>3. KinEntry(R, s, e)
  BY <1>2 DEF KinOK
<1>4. CASE Create(t)
  <2> PICK x, y : y = th[t].fin.reply /\ x = Activated(e, g, y)
    BY ZenonT(60)
  <2> y \in BOOLEAN
    BY CallFields
  <2> /\ x \in Entries /\ x.doc = "active" /\ x.orphans = e.orphans /\ x.channel = e.channel
      /\ x.parent = ParentOfSeg(g)
    <3>1. ActivatedAs(Activated(e, g, y), e, g)
      BY ActivatedIs, Zenon
    <3>2. ActivatedAs(x, e, g)
      BY <3>1, Zenon
    <3> QED
      BY <3>2, Zenon DEF ActivatedAs
  <2>1. KinEntry(R, s, x)
    BY <1>2, <1>3, ZenonT(60) DEF KinEntry, ParentOfSeg, Ancestry
  <2>2. Written(t, s, x, g, s, th[t].later)
    BY <1>2, <1>4, Zenon DEF Create
  <2> QED
    BY <1>2, <2>1, <2>2, KinWritten, ZenonT(60)
<1>5. CASE Resume(t)
  <2> Update(t, s, e, g, th[t].later)
    BY <1>2, <1>5, Zenon DEF Resume
  <2> QED
    BY <1>2, <1>3, KinUpdate, Zenon
<1> QED
  BY <1>1, <1>4, <1>5

\* A complete document goes to its parent.
LEMMA KinPost ==
    ASSUME NEW R, Shape, KinOK(R, entry, th), NEW t \in Actors, Post(t)
    PROVE  KinOK(R, entry', th')
<1>0. Typed(entry, th) /\ th[t].pc = "post"
  BY Zenon DEF Shape, Post
<1>1. PICK d \in DocNos, p \in Nat, s \in Slots, e \in Entries :
             /\ d = th[t].seg.d /\ p = th[t].fin.parent /\ s = SlotOf(p) /\ e = entry[s] /\ Posts(t, d, p, s, e)
  BY <1>0, PostForms, Zenon
<1>2. /\ <<SlotOf(d), s>> \in R /\ KinEntry(R, s, e)
      /\ e.channel \in Channels /\ e.orphans \in Seq(DocNos)
  BY <1>0, <1>1, EntryFields, Zenon DEF KinOK, KinCall
<1>3. PICK c, f, r : /\ c = PostToChannel(e.channel, d, th[t].fin.reply) /\ f = [e EXCEPT !.channel = c]
                     /\ r = Dropping(<<>>, th[t].later, th[t].notify, NoSlot)
  BY Zenon
<1>4. PICK r2 : r2 = Dropping(<<d>>, th[t].later, th[t].notify, s)
  OBVIOUS
<1>5. PICK q : q = Append(e.orphans, d) /\ Elems(q) = Elems(e.orphans) \cup {d}
  BY <1>2, AppendDoc, Zenon
<1>6. PICK x : x = [e EXCEPT !.orphans = q, !.expected = p]
  OBVIOUS
<1>7. KinCall(R, r) /\ KinCall(R, r2)
  BY <1>3, <1>4, KinDropping
<1>8. c \in Channels /\ \A z \in Elems(c.ready) : z \in Elems(e.channel.ready) \/ z = d
  BY <1>2, <1>3, PostFields, Zenon
<1>9. KinEntry(R, s, f)
  <2>1. \A z \in Elems(c.ready) : <<SlotOf(z), s>> \in R
    BY <1>2, <1>8, ZenonT(60) DEF KinEntry
  <2> QED
    BY <1>2, <1>3, <1>8, <2>1, KinChannel, ZenonT(60)
<1>10. KinEntry(R, s, x)
  <2>1. x.orphans = q /\ x.channel = e.channel /\ x.doc = e.doc /\ x.parent = e.parent
    BY <1>6 DEF Entries
  <2> QED
    BY <1>2, <1>5, <2>1 DEF KinEntry
<1>11. \/ entry' = [entry EXCEPT ![s] = f] /\ th' = [th EXCEPT ![t] = r]
       \/ entry' = entry /\ th' = [th EXCEPT ![t] = r2]
       \/ entry' = [entry EXCEPT ![s] = x] /\ th' = [th EXCEPT ![t] = r]
       \/ entry' = entry /\ th' = th
  BY <1>1, <1>3, <1>4, <1>5, <1>6, ZenonT(60) DEF Posts
<1> QED
  BY <1>0, <1>2, <1>7, <1>9, <1>10, <1>11, KinPut, ZenonT(60)

\* The drop loop, step by step.
LEMMA KinDrop ==
    ASSUME NEW R, Shape, KinOK(R, entry, th), NEW a \in Actors, DropPop(a) \/ DropSlot(a) \/ DropDone(a)
    PROVE  KinOK(R, entry', th')
<1> Typed(entry, th) /\ CallTyped(th[a])
  BY DEF Shape, Typed
<1>1. CASE DropDone(a)
  <2> entry' = entry
    BY <1>1, Zenon DEF DropDone
  <2> SUFFICES ASSUME NEW b \in Actors PROVE KinCall(R, th'[b])
    BY Zenon DEF KinOK
  <2> PICK q : q = Dropping(th[a].later, <<>>, NoSlot, NoSlot)
    BY Zenon
  <2> KinCall(R, q) /\ KinCall(R, th[b])
    BY KinDropping DEF KinOK
  <2> th'[b] \in {q, th[b], [th[b] EXCEPT !.pc = "woken"]}
    BY <1>1, ZenonT(60) DEF DropDone
  <2> KinCall(R, [th[b] EXCEPT !.pc = "woken"])
    BY DEF KinCall, Shape, Typed, CallTyped, Calls
  <2> QED
    BY Zenon
<1>2. CASE DropPop(a)
  <2> PICK r : r = th'[a]
    BY Zenon
  <2> th' = [th EXCEPT ![a] = r] /\ r.pc = "droplock" /\ entry' = entry
    BY <1>2, Zenon DEF DropPop, Typed, CallTyped, Calls
  <2> KinCall(R, r)
    BY Zenon DEF KinCall
  <2> PICK s \in Slots : s = SlotOf(0)
    BY SlotTypes, Zenon
  <2> KinEntry(R, s, entry[s])
    BY ZenonT(60) DEF KinOK
  <2> QED
    BY KinPut, Zenon
<1>3. CASE DropSlot(a)
  <2>1. th[a].pc = "droplock" /\ th'[a].pc = "drop" /\ \A b \in Actors \ {a} : th'[b] = th[b]
    BY <1>3, Zenon DEF DropSlot, Typed, CallTyped, Calls
  <2>2. KinCall(R, th'[a])
    BY <2>1, Zenon DEF KinCall
  <2>3. PICK d \in DocNos : d = Last(th[a].stack)
    BY <2>1, CallFields, ZenonT(60)
  <2>4. PICK s \in Slots, e \in Entries : s = SlotOf(d) /\ e = entry[s]
    BY SlotTypes DEF Typed, EntryTyped
  <2>5. PICK f : f = [e EXCEPT !.doc = "parentclose", !.channel = Closed]
    OBVIOUS
  <2>6. f.doc = "parentclose" /\ f.channel = Closed /\ f.orphans = e.orphans
    BY <2>5, Zenon DEF Entries
  <2>7. KinEntry(R, s, f) /\ KinEntry(R, s, e)
    BY <2>4, <2>6, ClosedFields, NoElems, ZenonT(60) DEF KinEntry, KinOK
  <2>8. entry' = entry \/ entry' = [entry EXCEPT ![s] = f]
    BY <1>3, <2>3, <2>4, <2>5, ZenonT(60) DEF DropSlot
  <2>9. KinEntry(R, s, entry'[s]) /\ \A x \in Slots \ {s} : entry'[x] = entry[x]
    BY <2>4, <2>7, <2>8, Zenon DEF Typed
  <2> QED
    BY <2>1, <2>2, <2>9, KinMoves
<1> QED
  BY <1>1, <1>2, <1>3, ZenonT(60)

\* What the application calls.
LEMMA KinApp ==
    ASSUME NEW R, Shape, KinOK(R, entry, th), NEW c \in Own \cup DocNos,
           TryRecv(c) \/ Close(c) \/ DropHandle(c) \/ CloneHandle(c) \/ PollReply(c)
    PROVE  KinOK(R, entry', th')
<1> Typed(entry, th) /\ App \in Actors /\ KinCall(R, th[App])
  BY Zenon DEF Shape, Actors, KinOK
<1> PICK s \in Slots, e \in Entries : s = SlotOf(c) /\ e = entry[s]
  BY SlotTypes, ZenonT(60) DEF Typed, EntryTyped
<1> KinEntry(R, s, e) /\ e.channel \in Channels
  BY EntryFields DEF KinOK
<1>1. ASSUME NEW x \in Channels, \A d \in Elems(x.ready) : d \in Elems(e.channel.ready),
             NEW f, f = [e EXCEPT !.channel = x], entry' = [entry EXCEPT ![s] = f] \/ entry' = entry,
             NEW r, KinCall(R, r), th' = [th EXCEPT ![App] = r] \/ th' = th
      PROVE  KinOK(R, entry', th')
  <2> \A d \in Elems(x.ready) : <<SlotOf(d), s>> \in R
    BY <1>1 DEF KinEntry
  <2> KinEntry(R, s, f)
    BY <1>1, KinChannel
  <2> QED
    BY <1>1, KinPut
<1>2. ASSUME NEW x \in Channels, x.ready = e.channel.ready, NEW f, f = [e EXCEPT !.channel = x],
             entry' = [entry EXCEPT ![s] = f] \/ entry' = entry, th' = th
      PROVE  KinOK(R, entry', th')
  BY <1>1, <1>2
<1>3. ASSUME NEW closing, NEW ref \in Int, NEW h, CloseIf(c, closing, ref, h) PROVE KinOK(R, entry', th')
  <2> PICK x, y : x = Closed /\ y = [e.channel EXCEPT !.ref = ref]
    BY Zenon
  <2>1. x \in Channels /\ Elems(x.ready) = {}
    BY ClosedFields, NoElems
  <2>2. y \in Channels /\ y.ready = e.channel.ready
    BY ChannelRef
  <2>3. PICK r : r = Dropping(e.channel.ready, <<>>, NoSlot, NoSlot) /\ KinCall(R, r)
    BY KinDropping, ZenonT(60)
  <2>4. \/ entry' = entry /\ th' = th
        \/ entry' = [entry EXCEPT ![s] = [e EXCEPT !.channel = x]] /\ th' = [th EXCEPT ![App] = r]
        \/ entry' = [entry EXCEPT ![s] = [e EXCEPT !.channel = y]] /\ th' = th
    BY <1>3, <2>3 DEF CloseIf
  <2>5. CASE entry' = entry /\ th' = th
    BY <2>5 DEF KinOK
  <2>6. CASE entry' = [entry EXCEPT ![s] = [e EXCEPT !.channel = x]] /\ th' = [th EXCEPT ![App] = r]
    BY <1>1, <2>1, <2>3, <2>6, ZenonT(60)
  <2>7. CASE entry' = [entry EXCEPT ![s] = [e EXCEPT !.channel = y]] /\ th' = th
    BY <1>2, <2>2, <2>7, Zenon
  <2> QED
    BY <2>4, <2>5, <2>6, <2>7
<1>4. CASE TryRecv(c)
  <2> PICK q : q = Front(e.channel.ready)
    BY ZenonT(60)
  <2>1. e.channel.ready \in Seq(DocNos) /\ e.channel.ready # <<>>
    BY <1>4, ChannelFields DEF TryRecv
  <2>2. q \in Seq(DocNos) /\ \A d \in Elems(q) : d \in Elems(e.channel.ready)
    <3>1. q \in Seq(DocNos) /\ Elems(e.channel.ready) = Elems(q) \cup {Last(e.channel.ready)}
      BY <2>1, FrontElems, Zenon
    <3> QED
      BY <3>1, Zenon
  <2>3. PICK x : x = [e.channel EXCEPT !.ready = q]
    BY Zenon
  <2>4. x \in Channels /\ x.ready = q
    BY <2>2, <2>3, ChannelReady, ZenonT(60)
  <2>5. entry' = [entry EXCEPT ![s] = [e EXCEPT !.channel = x]] /\ th' = th
    BY <1>4, <2>3 DEF TryRecv, Popped
  <2> QED
    BY <1>1, <2>2, <2>4, <2>5, Zenon
<1>5. CASE CloneHandle(c)
  <2> PICK n \in Int : n = e.channel.ref + 1
    BY ChannelFields
  <2> PICK y : y = [e.channel EXCEPT !.ref = n]
    BY Zenon
  <2>1. y \in Channels /\ y.ready = e.channel.ready
    BY ChannelRef, ZenonT(60)
  <2>2. (entry' = [entry EXCEPT ![s] = [e EXCEPT !.channel = y]] \/ entry' = entry) /\ th' = th
    BY <1>5 DEF CloneHandle
  <2> QED
    BY <1>2, <2>1, <2>2, ZenonT(60)
<1>6. CASE PollReply(c)
  <2> PICK y : y = [e.channel EXCEPT !.buf = None]
    BY Zenon
  <2>1. y \in Channels /\ y.ready = e.channel.ready
    BY ChannelBuf DEF None
  <2>2. entry' = [entry EXCEPT ![s] = [e EXCEPT !.channel = y]] /\ th' = th
    BY <1>6, ZenonT(60) DEF PollReply
  <2> QED
    BY <1>2, <2>1, <2>2, Zenon
<1>7. e.channel.ref - 1 \in Int /\ 0 \in Int
  BY ChannelFields
<1>8. CASE Close(c)
  BY <1>3, <1>7, <1>8, Zenon DEF Close
<1>9. CASE DropHandle(c)
  BY <1>3, <1>7, <1>9, Zenon DEF DropHandle
<1> QED
  BY <1>4, <1>5, <1>6, <1>8, <1>9, ZenonT(60)

-----------------------------------------------------------------------------
(* Locks.                                                                  *)

\* The locks are held by calls that drop documents, each of them the lock of a slot before
\* which all those come that its holder has still to lock.
HoldsLock(R, s, r) ==
    /\ r.pc \in {"drop", "droplock"} /\ r.held = s
    /\ \A d \in Elems(r.stack) : <<SlotOf(d), s>> \in R

LockOK(R) ==
    /\ lock \in [Slots -> Actors \cup {None}]
    /\ \A s \in Slots : lock[s] # None => HoldsLock(R, s, th[lock[s]])

\* A step that takes no lock and leaves the calls alone which drop documents.
LEMMA LockKept ==
    ASSUME NEW R, LockOK(R), lock' = lock,
           \A a \in Actors : th[a].pc \in {"drop", "droplock"} => th'[a] = th[a]
    PROVE  LockOK(R)'
<1> lock' \in [Slots -> Actors \cup {None}]
  BY Zenon DEF LockOK
<1> SUFFICES ASSUME NEW s \in Slots, lock[s] # None PROVE HoldsLock(R, s, th'[lock[s]])
  BY Zenon DEF LockOK
<1> lock[s] \in Actors /\ HoldsLock(R, s, th[lock[s]])
  BY ZenonT(60) DEF LockOK
<1> th'[lock[s]] = th[lock[s]]
  BY DEF HoldsLock
<1> QED
  BY Zenon

\* Nor does one that replaces the call of an actor which holds none.
LEMMA OneCall ==
    ASSUME Typed(entry, th), NEW t \in Actors, th[t].pc \notin {"drop", "droplock"},
           th' = th \/ \E r : th' = [th EXCEPT ![t] = r]
    PROVE  \A a \in Actors : th[a].pc \in {"drop", "droplock"} => th'[a] = th[a]
BY DEF Typed

\* A segment arrives.
LEMMA RecvLocks ==
    ASSUME Shape, NEW R, LockOK(R), NEW t \in Threads, NEW g, RecvKnown(t, g) \/ RecvNew(t, g)
    PROVE  LockOK(R)'
<1> Typed(entry, th) /\ t \in Actors
  BY DEF Shape, Actors
<1>1. ASSUME NEW s, NEW e, NEW n, NEW l, Written(t, s, e, g, n, l)
      PROVE  th' = th \/ \E r : th' = [th EXCEPT ![t] = r]
  BY <1>1, Zenon DEF Written
<1>2. ASSUME NEW s, NEW e, NEW l, Update(t, s, e, g, l)
      PROVE  th' = th \/ \E r : th' = [th EXCEPT ![t] = r]
  BY <1>1, <1>2, Zenon DEF Update
<1> th[t].pc = "idle" /\ lock' = lock
  BY Zenon DEF RecvKnown, RecvNew, Abandon
<1>3. CASE RecvKnown(t, g)
  <2> th' = th \/ \E r : th' = [th EXCEPT ![t] = r]
    BY <1>2, <1>3, Zenon DEF RecvKnown
  <2> QED
    BY OneCall, LockKept
<1>4. CASE RecvNew(t, g)
  <2> th' = th \/ \E r : th' = [th EXCEPT ![t] = r]
    BY <1>1, <1>4, ZenonT(60) DEF RecvNew, Abandon
  <2> QED
    BY OneCall, LockKept
<1> QED
  BY <1>3, <1>4

\* The parent of a reserved document is looked up; a reserved slot is filled or found.
LEMMA GoOnLocks ==
    ASSUME Shape, NEW R, LockOK(R), NEW t \in Actors, LookupParent(t) \/ Create(t) \/ Resume(t)
    PROVE  LockOK(R)'
<1> Typed(entry, th)
  BY DEF Shape
<1> th[t].pc \notin {"drop", "droplock"} /\ lock' = lock
  BY Zenon DEF LookupParent, Create, Resume
<1>1. ASSUME NEW s, NEW e, NEW g, NEW n, NEW l, Written(t, s, e, g, n, l)
      PROVE  th' = th \/ \E r : th' = [th EXCEPT ![t] = r]
  BY <1>1, Zenon DEF Written
<1>2. CASE LookupParent(t)
  <2> \A a \in Actors \ {t} : th'[a] = th[a]
    BY <1>2, Zenon DEF LookupParent, Typed
  <2> QED
    BY LockKept, Zenon
<1>3. CASE Create(t)
  <2> th' = th \/ \E r : th' = [th EXCEPT ![t] = r]
    BY <1>1, <1>3, ZenonT(60) DEF Create
  <2> QED
    BY OneCall, LockKept
<1>4. CASE Resume(t)
  <2> th' = th \/ \E r : th' = [th EXCEPT ![t] = r]
    BY <1>1, <1>4, Zenon DEF Resume, Update
  <2> QED
    BY OneCall, LockKept
<1> QED
  BY <1>2, <1>3, <1>4

\* A call takes the lock of a slot to drop a document that comes before it.
LEMMA TakesLock ==
    ASSUME NEW R, LockOK(R), NEW t \in Actors, th[t].pc = "post", NEW s \in Slots,
           lock' = [lock EXCEPT ![s] = t], HoldsLock(R, s, th'[t]), \A a \in Actors \ {t} : th'[a] = th[a]
    PROVE  LockOK(R)'
<1> /\ lock \in [Slots -> Actors \cup {None}] /\ lock' \in [Slots -> Actors \cup {None}]
    /\ lock'[s] = t /\ \A x \in Slots \ {s} : lock'[x] = lock[x]
  BY Zenon DEF LockOK
<1> SUFFICES ASSUME NEW x \in Slots \ {s}, lock[x] # None PROVE HoldsLock(R, x, th'[lock[x]])
  BY ZenonT(60) DEF LockOK
<1> HoldsLock(R, x, th[lock[x]]) /\ lock[x] \in Actors
  BY Zenon DEF LockOK
<1> lock[x] # t
  BY DEF HoldsLock
<1> QED
  BY Zenon

\* A call that is to drop one document and keeps a lock.
LEMMA DropOne ==
    ASSUME NEW d \in DocNos, NEW later \in Seq(DocNos), NEW notify \in Slots \cup {NoSlot}, NEW s \in Slots,
           NEW R, <<SlotOf(d), s>> \in R
    PROVE  HoldsLock(R, s, Dropping(<<d>>, later, notify, s))
<1>1. <<d>> \in Seq(DocNos) /\ <<d>> # <<>> /\ Elems(<<d>>) = {d} /\ s \in Slots \cup {NoSlot}
  BY DEF Elems
<1>2. PICK q \in Seq(DocNos), h \in Slots \cup {NoSlot} : q = <<d>> /\ h = s /\ q # <<>> /\ Elems(q) = {d}
  BY <1>1, Zenon
<1>3. PICK r : r = Dropping(q, later, notify, h)
  OBVIOUS
<1>4. r.pc = "drop" /\ r.held = h /\ r.stack = q
  BY <1>2, <1>3, Zenon DEF Dropping, Idle
<1>6. HoldsLock(R, s, r)
  BY <1>2, <1>4, Zenon DEF HoldsLock
<1> QED
  BY <1>2, <1>3, <1>6, ZenonT(60)

\* A complete document goes to its parent; if it has to be dropped the parent's slot stays locked.
LEMMA PostLocks ==
    ASSUME Shape, NEW R, KinOK(R, entry, th), LockOK(R), NEW t \in Actors, Post(t)
    PROVE  LockOK(R)'
<1>1. Typed(entry, th) /\ CallTyped(th[t]) /\ th[t].pc = "post"
  BY Zenon DEF Shape, Typed, Post
<1>2. PICK d \in DocNos, p \in Nat, s \in Slots, e \in Entries :
             /\ d = th[t].seg.d /\ p = th[t].fin.parent /\ s = SlotOf(p) /\ e = entry[s] /\ Posts(t, d, p, s, e)
  BY <1>1, PostForms, Zenon
<1>3. <<SlotOf(d), s>> \in R
  BY <1>1, <1>2, Zenon DEF KinOK, KinCall
<1>4. CASE lock' = lock
  <2> th' = th \/ \E r : th' = [th EXCEPT ![t] = r]
    BY <1>2, Zenon DEF Posts
  <2> QED
    BY <1>1, <1>4, OneCall, LockKept, Zenon
<1>5. PICK later \in Seq(DocNos), notify \in Slots \cup {NoSlot} : later = th[t].later /\ notify = th[t].notify
  BY <1>1, CallFields, ZenonT(60)
<1>6. PICK r : r = Dropping(<<d>>, later, notify, s)
  BY Zenon
<1>7. HoldsLock(R, s, r)
  BY <1>3, <1>6, DropOne, Zenon
<1>8. CASE lock' = [lock EXCEPT ![s] = t] /\ th' = [th EXCEPT ![t] = r]
  <2>3. th'[t] = r /\ \A a \in Actors \ {t} : th'[a] = th[a]
    BY <1>1, <1>8, ZenonT(60) DEF Typed
  <2> QED
    BY <1>1, <1>7, <1>8, <2>3, TakesLock, Zenon
<1> QED
  BY <1>2, <1>4, <1>5, <1>6, <1>8, ZenonT(60) DEF Posts

\* The slot itself, or one that R leads to from it.
Leq(R, x, y) == x = y \/ <<x, y>> \in R

\* Steps of R follow one another.
LEMMA LeqSteps ==
    ASSUME NEW R, Ancestry(R)
    PROVE  \A r, s, t \in Slots : /\ Leq(R, s, s)
                                  /\ <<s, t>> \in R => Leq(R, s, t)
                                  /\ Leq(R, r, s) /\ <<s, t>> \in R => <<r, t>> \in R
BY Zenon DEF Ancestry, Leq

\* A stack on which documents are put.
Joined(c, q, w) == c = q \o w

\* Its elements.
LEMMA JoinedDocs ==
    ASSUME NEW q \in Seq(DocNos), NEW w \in Seq(DocNos), NEW c, Joined(c, q, w)
    PROVE  c \in Seq(DocNos) /\ Elems(c) = Elems(q) \cup Elems(w)
BY ConcatElems DEF Joined

\* The documents of a sequence are numbers.
LEMMA ElemsNat ==
    ASSUME NEW q \in Seq(DocNos), NEW d \in Elems(q)
    PROVE  d \in Nat
<1>1. Elems(q) \subseteq DocNos
  BY SomeElems, Zenon
<1>2. d \in DocNos
  BY <1>1, Zenon
<1> QED
  BY <1>2, SlotTypes, Zenon

\* The stack of one call that drops changes, and with it only the documents it has still to lock.
LEMMA StackLocks ==
    ASSUME Typed(entry, th), NEW R, LockOK(R), NEW a \in Actors, th[a].pc \in {"drop", "droplock"},
           th'[a].pc \in {"drop", "droplock"}, th'[a].held = th[a].held, lock' = lock,
           \A b \in Actors \ {a} : th'[b] = th[b],
           \A d \in Elems(th'[a].stack) :
               \E c \in Elems(th[a].stack) : Leq(R, SlotOf(d), SlotOf(c)),
           Ancestry(R), th[a].stack \in Seq(DocNos), th'[a].stack \in Seq(DocNos)
    PROVE  LockOK(R)'
<1> SUFFICES ASSUME NEW s \in Slots, lock[s] # None PROVE HoldsLock(R, s, th'[lock[s]])
  BY ZenonT(60) DEF LockOK
<1> lock[s] \in Actors /\ HoldsLock(R, s, th[lock[s]])
  BY DEF LockOK
<1>1. CASE lock[s] = a
  <2> SUFFICES ASSUME NEW d \in Elems(th'[a].stack) PROVE <<SlotOf(d), s>> \in R
    BY <1>1, Zenon DEF HoldsLock
  <2> PICK c \in Elems(th[a].stack) : Leq(R, SlotOf(d), SlotOf(c))
    BY Zenon
  <2>1. <<SlotOf(c), s>> \in R
    BY <1>1, Zenon DEF HoldsLock
  <2>2. c \in Nat /\ d \in Nat
    BY ElemsNat, Zenon
  <2>3. SlotOf(c) \in Slots /\ SlotOf(d) \in Slots
    BY <2>2, SlotTypes, Zenon
  <2> QED
    BY <2>1, <2>3, LeqSteps, Zenon
<1>2. CASE lock[s] # a
  BY <1>2, Zenon
<1> QED
  BY <1>1, <1>2, Zenon

\* The drop loop goes on.
LEMMA DropLocks ==
    ASSUME Shape, NEW R, Ancestry(R), LockOK(R), NEW a \in Actors,
           KinOK(R, entry, th), DropPop(a) \/ DropSlot(a)
    PROVE  LockOK(R)'
<1> /\ Typed(entry, th) /\ DOMAIN th = Actors /\ CallTyped(th[a])
  BY Zenon DEF Shape, Typed
<1> th[a].stack \in Seq(DocNos)
  BY CallFields, Zenon
<1>a. \A d \in DocNos : SlotOf(d) \in Slots
  BY SlotTypes, Zenon
<1>1. CASE DropPop(a)
  <2> /\ th[a].pc = "drop" /\ th'[a].pc = "droplock" /\ th'[a].held = th[a].held
      /\ th'[a].stack = th[a].stack /\ \A b \in Actors \ {a} : th'[b] = th[b]
      /\ lock' = lock
    BY <1>1 DEF DropPop, CallTyped, Calls
  <2> \A d \in Elems(th[a].stack) : Leq(R, SlotOf(d), SlotOf(d))
    <3>1. Elems(th[a].stack) \subseteq DocNos
      BY SomeElems, Zenon
    <3> QED
      BY <1>a, <3>1, LeqSteps, ZenonT(60)
  <2> QED
    BY StackLocks, Zenon
<1>2. CASE DropSlot(a)
  <2> DEFINE d == Last(th[a].stack)
             s == SlotOf(d)
             more == IF entry[s].doc_no = d THEN Children(entry[s].channel) ELSE <<>>
  <2> th[a].pc = "droplock"
    BY <1>2 DEF DropSlot
  <2> d \in DocNos /\ s \in Slots /\ th[a].stack # <<>>
    BY CallFields, SlotTypes, Zenon
  <2> /\ Front(th[a].stack) \in Seq(DocNos) /\ Elems(th[a].stack) = Elems(Front(th[a].stack)) \cup {d}
    BY FrontElems, Zenon
  <2> more \in Seq(DocNos) /\ \A c \in Elems(more) : Leq(R, SlotOf(c), s)
    <3>1. CASE entry[s].doc_no = d
      <4> KinEntry(R, s, entry[s]) /\ entry[s].channel.ready \in Seq(DocNos)
        BY SlotTyped, ChannelFields, SlotTypes, Zenon DEF KinOK
      <4> Elems(more) = Elems(entry[s].channel.ready) /\ more \in Seq(DocNos)
        BY <3>1, ReverseElems, Zenon DEF Children
      <4> SUFFICES ASSUME NEW c \in Elems(more) PROVE Leq(R, SlotOf(c), s)
        BY Zenon
      <4> c \in DocNos /\ <<SlotOf(c), s>> \in R
        BY SomeElems, Zenon DEF KinEntry
      <4> QED
        BY Zenon DEF Leq
    <3>2. CASE entry[s].doc_no # d
      BY <3>2, NoElems, Zenon
    <3> QED
      BY <3>1, <3>2, Zenon
  <2> HIDE DEF more
  <2> /\ th'[a].pc = "drop" /\ th'[a].held = th[a].held
      /\ th'[a].stack = Front(th[a].stack) \o more /\ \A b \in Actors \ {a} : th'[b] = th[b]
      /\ lock' = lock
    BY <1>2, Zenon DEF DropSlot, CallTyped, Calls, more
  <2> HIDE DEF d, s
  <2> /\ th'[a].stack \in Seq(DocNos)
      /\ Elems(th'[a].stack) = Elems(Front(th[a].stack)) \cup Elems(more)
    <3>1. Joined(th'[a].stack, Front(th[a].stack), more)
      BY Zenon DEF Joined
    <3> QED
      BY <3>1, JoinedDocs, Zenon
  <2> \A x \in Elems(th'[a].stack) : \E c \in Elems(th[a].stack) : Leq(R, SlotOf(x), SlotOf(c))
    <3>1. SUFFICES ASSUME NEW x \in Elems(th'[a].stack)
                   PROVE  \E c \in Elems(th[a].stack) : Leq(R, SlotOf(x), SlotOf(c))
      BY Zenon
    <3>2. CASE x \in Elems(more)
      BY <3>2, Zenon DEF s
    <3>3. CASE x \in Elems(Front(th[a].stack))
      <4>1. x \in DocNos
        BY <3>3, SomeElems, Zenon
      <4>2. Leq(R, SlotOf(x), SlotOf(x)) /\ x \in Elems(th[a].stack)
        BY <1>a, <3>3, <4>1, LeqSteps, Zenon
      <4> QED
        BY <4>2, Zenon
    <3> QED
      BY <3>2, <3>3, Zenon
  <2> QED
    BY StackLocks, ZenonT(60)
<1> QED
  BY <1>1, <1>2, Zenon

\* The drop loop ends, and with it a lock that was held for it.
LEMMA DoneLocks ==
    ASSUME Shape, NEW R, LockOK(R), NEW a \in Actors, DropDone(a)
    PROVE  LockOK(R)'
<1> lock' = Unlocked(a) /\ th[a].pc = "drop"
  BY DEF DropDone
<1> \A b \in Actors : th[b].pc \in {"drop", "droplock"} /\ b # a => th'[b] = th[b]
  <2> SUFFICES ASSUME NEW b \in Actors, th[b].pc \in {"drop", "droplock"}, b # a PROVE th'[b] = th[b]
    BY Zenon
  <2> ~Notifies(a, b)
    BY Zenon DEF Notifies
  <2> QED
    BY Zenon DEF DropDone
<1> lock \in [Slots -> Actors \cup {None}]
  BY Zenon DEF LockOK
<1> /\ lock' \in [Slots -> Actors \cup {None}]
    /\ \A s \in Slots : lock'[s] # None => lock'[s] = lock[s] /\ lock[s] # a
  BY Zenon DEF Unlocked
<1> SUFFICES ASSUME NEW s \in Slots, lock'[s] # None PROVE HoldsLock(R, s, th'[lock'[s]])
  BY Zenon DEF LockOK
<1> lock[s] \in Actors /\ HoldsLock(R, s, th[lock[s]]) /\ lock'[s] = lock[s] /\ lock[s] # a
  BY Zenon DEF LockOK
<1> th'[lock[s]] = th[lock[s]]
  BY Zenon DEF HoldsLock
<1> QED
  BY Zenon

\* The application holds no lock between its calls.
LEMMA AppLocks ==
    ASSUME Shape, NEW R, LockOK(R), NEW c,
           TryRecv(c) \/ Close(c) \/ DropHandle(c) \/ CloneHandle(c) \/ PollReply(c)
    PROVE  LockOK(R)'
<1> Typed(entry, th) /\ App \in Actors
  BY DEF Shape, Actors
<1> th[App].pc = "idle" /\ lock' = lock
  BY Zenon DEF TryRecv, Close, DropHandle, CloneHandle, PollReply, AppMay, CloseIf
<1> th' = th \/ \E r : th' = [th EXCEPT ![App] = r]
  BY Zenon DEF TryRecv, Close, DropHandle, CloneHandle, PollReply, CloseIf
<1> QED
  BY OneCall, LockKept, Zenon

\* The invariant holds at first.
LEMMA LockInit == ASSUME NEW R, Init PROVE KinOK(R, entry, th) /\ LockOK(R)
<1>1. LockOK(R)
  BY Zenon DEF Init, LockOK
<1>2. \A a \in Actors : th[a].pc # "post"
  BY Zenon DEF Init, Idle
<1>3. ASSUME NEW s \in Slots PROVE KinEntry(R, s, entry[s])
  <2>1. entry[s].orphans = <<>> /\ entry[s].channel.ready = <<>> /\ entry[s].doc # "active"
    BY InitEntry
  <2> QED
    BY <2>1, NoElems, Zenon DEF KinEntry
<1> QED
  BY <1>1, <1>2, <1>3, Zenon DEF KinOK, KinCall

\* Every step keeps it.
LEMMA LockStep ==
    ASSUME Shape, NEW R, Ancestry(R), KinOK(R, entry, th), LockOK(R), [Next]_vars
    PROVE  KinOK(R, entry', th') /\ LockOK(R)'
<1>1. ASSUME NEW t \in Threads, NEW g \in net, RecvKnown(t, g) \/ RecvNew(t, g)
      PROVE  KinOK(R, entry', th') /\ LockOK(R)'
  BY <1>1, RecvLocks, KinRecv, Zenon
<1>2. ASSUME NEW a \in Actors, Step(a) PROVE KinOK(R, entry', th') /\ LockOK(R)'
  <2>1. CASE LookupParent(a) \/ Create(a) \/ Resume(a)
    BY <2>1, GoOnLocks, KinGoOn, Zenon
  <2>2. CASE Post(a)
    BY <2>2, PostLocks, KinPost, Zenon
  <2>3. CASE DropPop(a) \/ DropSlot(a)
    BY <2>3, DropLocks, KinDrop, Zenon
  <2>4. CASE DropDone(a)
    BY <2>4, DoneLocks, KinDrop, Zenon
  <2> QED
    BY <1>2, <2>1, <2>2, <2>3, <2>4, Zenon DEF Step
<1>3. ASSUME NEW c \in Own \cup DocNos, TryRecv(c) \/ Close(c) \/ DropHandle(c) \/ CloneHandle(c) \/ PollReply(c)
      PROVE  KinOK(R, entry', th') /\ LockOK(R)'
  BY <1>3, AppLocks, KinApp, Zenon
<1>4. ASSUME th' = th, lock' = lock, entry' = entry PROVE KinOK(R, entry', th') /\ LockOK(R)'
  BY <1>4 DEF LockOK
<1>5. ASSUME NEW d, NEW k, PeerSend(d, k) PROVE th' = th /\ lock' = lock /\ entry' = entry
  BY <1>5, Zenon DEF PeerSend
<1>6. ASSUME UNCHANGED vars PROVE th' = th /\ lock' = lock /\ entry' = entry
  BY <1>6 DEF vars
<1> QED
  BY <1>1, <1>2, <1>3, <1>4, <1>5, <1>6, ZenonT(60) DEF Next

\* The invariant, for every Ancestry.
AscendInv ==
    \A R \in SUBSET (Slots \X Slots) : Ancestry(R) => KinOK(R, entry, th) /\ LockOK(R)

\* A call that holds a lock and waits for another has a document of its stack to lock.
LEMMA HolderWaits ==
    ASSUME Shape, NEW R, LockOK(R), NEW s \in Slots, lock[s] # None, Wanted(lock[s]) \in Slots
    PROVE  <<Wanted(lock[s]), s>> \in R
<1>1. PICK b : b = lock[s]
  BY Zenon
<1>2. b \in Actors /\ HoldsLock(R, s, th[b]) /\ CallTyped(th[b])
  BY <1>1, ZenonT(60) DEF LockOK, Shape, Typed
<1>3. th[b].pc = "droplock"
  <2>1. th[b].pc = "drop" => Wanted(b) = NoSlot
    BY ZenonT(60) DEF Wanted
  <2> QED
    BY <1>1, <1>2, <2>1, SlotTypes, ZenonT(60) DEF HoldsLock
<1>4. Wanted(b) = SlotOf(Last(th[b].stack))
  BY <1>3 DEF Wanted
<1>5. Last(th[b].stack) \in Elems(th[b].stack)
  <2>1. th[b].stack \in Seq(DocNos) /\ th[b].stack # <<>>
    BY <1>2, <1>3, CallFields, ZenonT(60)
  <2>2. Elems(th[b].stack) = Elems(Front(th[b].stack)) \cup {Last(th[b].stack)}
    BY <2>1, FrontElems, Zenon
  <2> QED
    BY <2>2, Zenon
<1> QED
  BY <1>1, <1>2, <1>4, <1>5, ZenonT(60) DEF HoldsLock

\* A call that locks a slot while it holds another (drop_unfinished_recv_doc, recv.rs:146, 172)
\* holds the slot of an ancestor of the document whose slot it waits for, for all tables,
\* documents and threads, whatever the order of their steps and whatever the peer sends.
THEOREM LocksFollowAncestry == Spec => []LocksAscend
<1>1. Init => AscendInv
  BY LockInit, Zenon DEF AscendInv
<1>2. Shape /\ AscendInv /\ [Next]_vars => AscendInv'
  <2> SUFFICES ASSUME Shape, AscendInv, [Next]_vars, NEW R \in SUBSET (Slots \X Slots), Ancestry(R)
               PROVE  KinOK(R, entry', th') /\ LockOK(R)'
    BY Zenon DEF AscendInv
  <2>1. KinOK(R, entry, th) /\ LockOK(R)
    BY Zenon DEF AscendInv
  <2> QED
    BY <2>1, LockStep, Zenon
<1>3. Shape /\ AscendInv => LocksAscend
  BY HolderWaits, Zenon DEF AscendInv, LocksAscend
<1> QED
  BY <1>1, <1>2, <1>3, ShapeAlways, PTL DEF Spec
=============================================================================
