----------------------------- MODULE RecvTable ------------------------------
(***************************************************************************)
(* The receiving half of a session: recv_seg and fin_doc of                *)
(* session/src/recv.rs, update_channel and the two drop functions of       *)
(* session/src/session.rs, and what the application does with channels     *)
(* (session/src/channel.rs): try_recv, close, clone, drop, and waiting for *)
(* a reply in its own buffer.                                              *)
(*                                                                         *)
(* This endpoint is the initiator: odd document numbers are its own, even  *)
(* ones are received.  Every table slot has a mutex; a step is what a      *)
(* thread does while it holds one mutex, and a mutex that is still held    *)
(* when the next one is taken stays held in `lock`.                        *)
(*                                                                         *)
(* The peer is well behaved: it numbers documents in increasing order,     *)
(* keeps within recv_bytes_max, and uses a slot again only after it was    *)
(* told that the document in it is finished.  The network may lose, delay, *)
(* duplicate and reorder its segments.                                     *)
(***************************************************************************)
EXTENDS Integers, Sequences, FiniteSets

CONSTANTS
    Threads,         \* threads that call recv
    App,             \* the application's thread
    NRecv, NSend,    \* lengths of recv_table and send_table
    Own,             \* own documents whose channel is open at the start
    Awaited,         \* those of them that wait for a reply in a buffer
    Docs,            \* the peer's documents: number -> [parent, segs, special]
    Closable,        \* documents whose channel the application may close
    PeerCloses,      \* documents whose channel the peer may close
    MaxBytes,        \* recv_bytes_max, in documents: all have the same length
    Behaved,         \* the peer keeps to the rules
    MaxHandles       \* bound on the clones of a channel

Actors == Threads \union {App}

DocNos == DOMAIN Docs

None == 0

NoSlot == <<"none", 0>>

NoSeg == [d |-> None, i |-> 0, closed |-> FALSE]

NoFin == [parent |-> None, reply |-> FALSE]

ASSUME TableAssumption ==
    /\ App \notin Threads /\ None \notin Actors /\ Behaved \in BOOLEAN
    /\ NRecv \in Nat \ {0} /\ NSend \in Nat \ {0} /\ MaxBytes \in Nat /\ MaxHandles \in Nat
    /\ Awaited \subseteq Own
    /\ \A p \in Own : p \in Nat /\ p % 2 = 1
    /\ \A p, q \in Own : p # q => (p \div 2) % NSend # (q \div 2) % NSend
    /\ \A d \in DocNos :
        /\ d \in Nat \ {0} /\ d % 2 = 0
        /\ Docs[d].parent \in Nat \ {0} /\ Docs[d].parent < d
        /\ Docs[d].segs \in Nat \ {0}

Sending(doc_no) == doc_no % 2 = 1

SlotOf(doc_no) ==
    IF Sending(doc_no) THEN <<"send", (doc_no \div 2) % NSend>>
                       ELSE <<"recv", (doc_no \div 2) % NRecv>>

Slots == ({"recv"} \X (0..(NRecv - 1))) \union ({"send"} \X (0..(NSend - 1)))

\* A vector is a sequence: what pop takes, what it leaves, and the order of rev.  (These three
\* are those of SequencesExt, without the rest of that module in the proofs.)
Last(q) == q[Len(q)]

Front(q) == SubSeq(q, 1, Len(q) - 1)

Reverse(q) == [i \in 1..Len(q) |-> q[(Len(q) - i) + 1]]

VARIABLES
    entry,      \* the tables
    lock,       \* slots whose mutex is held between steps, by whom
    bytes,      \* recv_bytes_total
    abandoned,  \* "no", or why recv_seg returned an error
    fins,       \* external: documents for which a fin was scheduled
    net,        \* segments the peer has sent
    th,         \* the actors' local state
    handles,    \* how many Channel objects of a document the application has
    completed,  \* history: documents that fin_doc was called for
    delivered   \* history: documents handed to the application

vars == <<entry, lock, bytes, abandoned, fins, net, th, handles, completed, delivered>>

\* SpecialReplyState: None, Awaiting(Some(..)), Awaiting(None), or the number of the
\* document in Recv.
Await == -1

Incoming == -2

\* OpenChannel, or its absence.
Closed == [open |-> FALSE, ref |-> 0, ready |-> <<>>, buf |-> None]

NewChannel(ref, ready, buf) == [open |-> TRUE, ref |-> ref, ready |-> ready, buf |-> buf]

\* An actor between calls.  In a call: the segment at hand, what fin_doc took out of the
\* document, the slot whose lock is still held, the slot whose condvar is to be notified,
\* the stack of drop_unfinished_recv_doc and the documents to drop after it.
Idle ==
    [pc |-> "idle", seg |-> NoSeg, fin |-> NoFin, held |-> NoSlot, notify |-> NoSlot,
     stack |-> <<>>, later |-> <<>>]

EmptyEntry ==
    [doc_no |-> None, doc |-> "finack", got |-> {}, parent |-> None, reply |-> FALSE,
     channel |-> Closed, orphans |-> <<>>, expected |-> None]

\* The tables' constructor is not written yet: a slot starts finished and empty, apart
\* from the channels of the documents this endpoint has sent.
Init ==
    /\ entry = [s \in Slots |->
        LET own == {p \in Own : SlotOf(p) = s} IN
        IF own = {} THEN EmptyEntry
        ELSE LET p == CHOOSE p \in own : TRUE IN
            [EmptyEntry EXCEPT !.doc_no = p,
                !.channel = NewChannel(1, <<>>, IF p \in Awaited THEN Await ELSE None)]]
    /\ lock = [s \in Slots |-> None]
    /\ bytes = 0
    /\ abandoned = "no"
    /\ fins = {}
    /\ net = {}
    /\ th = [a \in Actors |-> Idle]
    /\ handles = [d \in Own \union DocNos |-> IF d \in Own THEN 1 ELSE 0]
    /\ completed = {}
    /\ delivered = {}

Free(s) == lock[s] = None

\* RecvDocState::slot_is_fin.
SlotIsFin(e) == e.doc \in {"finishing", "finack"}

\* recv_seg or fin_doc returns RecvError::Invalid: recv abandons the session.
Abandon(why) ==
    /\ abandoned' = why
    /\ UNCHANGED <<entry, lock, bytes, fins, net, th, handles, completed, delivered>>

\* The actor goes on to drop `stack` and, when it has let go of its lock, `later`.
Dropping(stack, later, notify, held) ==
    IF stack = <<>> /\ later = <<>> /\ notify = NoSlot /\ held = NoSlot THEN Idle
    ELSE [Idle EXCEPT !.pc = "drop", !.stack = stack, !.later = later,
                      !.notify = notify, !.held = held]

-----------------------------------------------------------------------------
(* recv_seg.                                                               *)

\* What is left to drop when recv_seg is done with its document: the ready documents of
\* the closed channel, after the orphans that lost their parent.
Leftovers(closed_channel, closed_orphans) == closed_channel.ready \o Reverse(closed_orphans)

\* recv_doc: segment g is written into the document of entry e, at its own offset.  A
\* segment ends within its document and in the word of the bit set it begins in or the next;
\* for longer ones see recv_doc_marks of Desegmenter.
RecvDoc(e, g) == [e EXCEPT !.got = @ \union {[d |-> g.d, i |-> g.i]}]

Whole(e) == {x.i : x \in e.got} = 1..Docs[e.doc_no].segs

\* The parent_no a segment carries: the first one, and all of those with a special parent.
ParentOfSeg(g) == IF g.i = 1 \/ Docs[g.d].special THEN Docs[g.d].parent ELSE None

\* Mutant: the channel's ref count is not incremented.
FinishedNoRef(e) == [e EXCEPT !.doc = "finishing"]

\* First part of fin_doc, under the document's own lock.
Finished(e) ==
    [e EXCEPT !.doc = "finishing", !.channel.ref = IF e.channel.open THEN @ + 1 ELSE @]

\* The segment was written; when it was the last one fin_doc follows.
Written(t, s, e, g, notify, later) ==
    IF ~Whole(e)
    THEN /\ entry' = [entry EXCEPT ![s] = e]
         /\ th' = [th EXCEPT ![t] = Dropping(<<>>, later, notify, NoSlot)]
         /\ UNCHANGED <<completed, abandoned>>
    ELSE IF e.parent = None
    THEN /\ abandoned' = "no parent"
         /\ UNCHANGED <<entry, th, completed>>
    ELSE /\ entry' = [entry EXCEPT ![s] = Finished(e)]
         /\ th' = [th EXCEPT ![t] =
                [Idle EXCEPT !.pc = "post", !.seg = g, !.fin = [parent |-> e.parent, reply |-> e.reply],
                             !.notify = notify, !.later = later]]
         /\ completed' = completed \union {g.d}
         /\ UNCHANGED abandoned

\* DOCUMENT UPDATE from the look at the document's state on.  A thread that waited for a
\* reserved slot comes here again, whatever document the slot has by then.
Update(t, s, e, g, later) ==
    IF e.doc = "reserved"
    THEN /\ entry' = [entry EXCEPT ![s] = e]
         /\ th' = [th EXCEPT ![t] = [Idle EXCEPT !.pc = "wait", !.seg = g, !.later = later]]
         /\ UNCHANGED <<completed, abandoned>>
    ELSE IF e.doc # "active"
    THEN /\ entry' = [entry EXCEPT ![s] = e]
         /\ th' = [th EXCEPT ![t] = Dropping(<<>>, later, NoSlot, NoSlot)]
         /\ UNCHANGED <<completed, abandoned>>
    ELSE Written(t, s, RecvDoc(e, g), g, NoSlot, later)

\* Mutant: the slot is not marked while the parent is looked up.
ReservedActive(e, g) ==
    [EmptyEntry EXCEPT !.doc_no = g.d, !.doc = "active", !.expected = e.expected,
        !.channel = IF g.closed THEN Closed ELSE NewChannel(0, e.orphans, None)]

\* Mutant: the adopted orphans stay in the slot.
ReservedKeepsOrphans(e, g) ==
    [EmptyEntry EXCEPT !.doc_no = g.d, !.doc = "reserved", !.expected = e.expected, !.orphans = e.orphans,
        !.channel = IF g.closed THEN Closed ELSE NewChannel(0, e.orphans, None)]

\* DOCUMENT CREATION: the slot's entry while the new document is reserved.
Reserved(e, g) ==
    [EmptyEntry EXCEPT !.doc_no = g.d, !.doc = "reserved", !.expected = e.expected,
        !.channel = IF g.closed THEN Closed ELSE NewChannel(0, e.orphans, None)]

\* The RecvDoc is put into the slot with its first segment.
Activated(e, g, reply) ==
    RecvDoc([e EXCEPT !.doc = "active", !.parent = ParentOfSeg(g), !.reply = reply], g)

\* A segment of the document in the slot, up to the first unlock.
RecvKnown(t, g) ==
    LET s == SlotOf(g.d)
        e == entry[s]
    IN
    /\ th[t].pc = "idle" /\ Free(s)
    /\ e.doc_no = g.d
    /\ IF g.closed
       THEN Update(t, s, [e EXCEPT !.channel = Closed], g, Leftovers(e.channel, <<>>))
       ELSE Update(t, s, e, g, <<>>)
    /\ UNCHANGED <<lock, bytes, fins, net, handles, delivered>>

\* Mutant: the limit itself is refused.
BelowLimit(total) == total < MaxBytes

\* The condition under which recv_bytes_total is updated.
WithinLimit(total) == total <= MaxBytes

\* A segment of a document that is new to the slot, up to the first unlock.  Every segment
\* of try_new gives the length of its document, so that none is ignored for want of it.
RecvNew(t, g) ==
    LET s == SlotOf(g.d)
        e == entry[s]
        later == Leftovers(e.channel, IF g.closed THEN e.orphans ELSE <<>>)
    IN
    /\ th[t].pc = "idle" /\ Free(s)
    /\ e.doc_no < g.d
    /\ \/ ~SlotIsFin(e) /\ Abandon("slot in use")
       \/ SlotIsFin(e) /\ e.expected \notin {None, g.d} /\ Abandon("not the parent")
       \/ SlotIsFin(e) /\ e.expected \in {None, g.d} /\ ~WithinLimit(bytes + 1) /\ Abandon("bytes")
       \/ /\ SlotIsFin(e) /\ e.expected \in {None, g.d} /\ WithinLimit(bytes + 1)
          /\ bytes' = bytes + 1
          /\ IF Docs[g.d].special
             THEN /\ entry' = [entry EXCEPT ![s] = Reserved(e, g)]
                  /\ th' = [th EXCEPT ![t] =
                        [Idle EXCEPT !.pc = "parent", !.seg = g, !.notify = s, !.later = later]]
                  /\ UNCHANGED <<completed, abandoned>>
             ELSE Written(t, s, Activated(Reserved(e, g), g, FALSE), g, NoSlot, later)
          /\ UNCHANGED <<lock, fins, net, handles, delivered>>

\* Mutant: the buffer is not taken out of the reply state.
TryIncomingPeeks(c) == c

TryIncoming(c) == [c EXCEPT !.buf = IF @ = Await THEN Incoming ELSE @]

\* update_channel(parent_no, try_incoming): take the reply buffer of a special parent.
LookupParent(t) ==
    LET p == Docs[th[t].seg.d].parent
        s == SlotOf(p)
        incoming == entry[s].doc_no = p /\ entry[s].channel.buf = Await
    IN
    /\ th[t].pc = "parent" /\ Free(s)
    /\ entry' = IF entry[s].doc_no = p THEN [entry EXCEPT ![s].channel = TryIncoming(@)] ELSE entry
    /\ th' = [th EXCEPT ![t].pc = "relock", ![t].fin.reply = incoming]
    /\ UNCHANGED <<lock, bytes, abandoned, fins, net, handles, completed, delivered>>

\* The reserved slot is locked again and the document created.
Create(t) ==
    LET g == th[t].seg
        s == SlotOf(g.d)
    IN
    /\ th[t].pc = "relock" /\ Free(s)
    /\ Written(t, s, Activated(entry[s], g, th[t].fin.reply), g, s, th[t].later)
    /\ UNCHANGED <<lock, bytes, fins, net, handles, delivered>>

\* A thread that waited for a reserved slot was notified and has the lock again.
Resume(t) ==
    LET g == th[t].seg
        s == SlotOf(g.d)
    IN
    /\ th[t].pc = "woken" /\ Free(s)
    /\ Update(t, s, entry[s], g, th[t].later)
    /\ UNCHANGED <<lock, bytes, fins, net, handles, delivered>>

\* post_to_channel.
PostToChannel(c, d, reply) ==
    IF reply THEN [c EXCEPT !.buf = d] ELSE [c EXCEPT !.ready = Append(@, d)]

\* Second part of fin_doc: give the document to its parent's channel; when that is closed
\* drop the document, with the parent's slot still locked; when the parent is still to
\* come keep it as an orphan in the parent's slot.
Post(t) ==
    LET d == th[t].seg.d
        p == th[t].fin.parent
        s == SlotOf(p)
        e == entry[s]
        done == Dropping(<<>>, th[t].later, th[t].notify, NoSlot)
    IN
    /\ th[t].pc = "post" /\ Free(s)
    /\ \/ /\ e.doc_no = p /\ e.channel.open
          /\ entry' = [entry EXCEPT ![s].channel = PostToChannel(@, d, th[t].fin.reply)]
          /\ th' = [th EXCEPT ![t] = done]
          /\ UNCHANGED <<lock, abandoned>>
       \/ /\ e.doc_no >= p /\ ~(e.doc_no = p /\ e.channel.open)
          /\ lock' = [lock EXCEPT ![s] = t]
          /\ th' = [th EXCEPT ![t] = Dropping(<<d>>, th[t].later, th[t].notify, s)]
          /\ UNCHANGED <<entry, abandoned>>
       \/ /\ e.doc_no < p /\ ~Sending(p) /\ SlotIsFin(e) /\ e.expected \in {None, p}
          /\ entry' = [entry EXCEPT ![s].orphans = Append(@, d), ![s].expected = p]
          /\ th' = [th EXCEPT ![t] = done]
          /\ UNCHANGED <<lock, abandoned>>
       \/ /\ e.doc_no < p /\ (Sending(p) \/ ~SlotIsFin(e) \/ e.expected \notin {None, p})
          /\ abandoned' = "no such parent"
          /\ UNCHANGED <<entry, lock, th>>
    /\ UNCHANGED <<bytes, fins, net, handles, completed, delivered>>

-----------------------------------------------------------------------------
(* drop_unfinished_recv_doc and drop_closed_channel.                       *)

\* Mutant: the bytes are not given back.
ReleasedNothing(total) == total

\* recv_bytes_total.fetch_sub of a document's length.
Released(total) == total - 1

\* Mutant: the documents that wait in a dropped document's channel are forgotten.
ChildrenForgotten(channel) == <<>>

\* The documents that wait in a dropped document's channel, as they are put on the stack.
Children(channel) == Reverse(channel.ready)

\* Mutant: the lock is kept.
UnlockedNothing(a) == lock

Unlocked(a) == [s \in Slots |-> IF lock[s] = a THEN None ELSE lock[s]]

\* Mutant: notify_all is left out.
NotifiesNobody(a, b) == FALSE

\* a's notify_all on its slot's condvar wakes b.
Notifies(a, b) == th[b].pc = "wait" /\ SlotOf(th[b].seg.d) = th[a].notify

\* Top of the loop: release the bytes and schedule a fin-parent-closed.
DropPop(a) ==
    /\ th[a].pc = "drop" /\ th[a].stack # <<>>
    /\ bytes' = Released(bytes)
    /\ fins' = fins \union {Last(th[a].stack)}
    /\ th' = [th EXCEPT ![a].pc = "droplock"]
    /\ UNCHANGED <<entry, lock, abandoned, net, handles, completed, delivered>>

\* Rest of the loop body, under the lock of the document's slot.
DropSlot(a) ==
    LET d == Last(th[a].stack)
        s == SlotOf(d)
        mine == entry[s].doc_no = d
    IN
    /\ th[a].pc = "droplock" /\ Free(s)
    /\ entry' = IF mine THEN [entry EXCEPT ![s].doc = "parentclose", ![s].channel = Closed] ELSE entry
    /\ th' = [th EXCEPT ![a].pc = "drop",
                        ![a].stack = Front(@) \o (IF mine THEN Children(entry[s].channel) ELSE <<>>)]
    /\ UNCHANGED <<lock, bytes, abandoned, fins, net, handles, completed, delivered>>

\* Nothing is left to drop: let go of the parent's lock if it is still held, notify the
\* threads waiting for the slot this one had reserved, go on with `later`.
DropDone(a) ==
    /\ th[a].pc = "drop" /\ th[a].stack = <<>>
    /\ lock' = Unlocked(a)
    /\ th' = [b \in Actors |->
                IF b = a THEN Dropping(th[a].later, <<>>, NoSlot, NoSlot)
                ELSE IF Notifies(a, b) THEN [th[b] EXCEPT !.pc = "woken"] ELSE th[b]]
    /\ UNCHANGED <<entry, bytes, abandoned, fins, net, handles, completed, delivered>>

-----------------------------------------------------------------------------
(* The application.                                                        *)

HasChannel(c) == entry[SlotOf(c)].doc_no = c /\ entry[SlotOf(c)].channel.open

AppMay(c) == th[App].pc = "idle" /\ handles[c] > 0 /\ Free(SlotOf(c))

Popped(ready) == Front(ready)

\* try_recv and the poll of RecvFuture, when there is a document.
TryRecv(c) ==
    LET s == SlotOf(c)
        d == Last(entry[s].channel.ready)
    IN
    /\ AppMay(c) /\ c \notin Awaited /\ HasChannel(c) /\ entry[s].channel.ready # <<>>
    /\ entry' = [entry EXCEPT ![s].channel.ready = Popped(@)]
    /\ bytes' = Released(bytes)
    /\ fins' = fins \union {d}
    /\ handles' = [handles EXCEPT ![d] = @ + 1]
    /\ delivered' = delivered \union {d}
    /\ UNCHANGED <<lock, abandoned, net, th, completed>>

\* close_if_inner, the channel being closed or not, with h handles left.
CloseIf(c, closing, ref, h) ==
    LET s == SlotOf(c) IN
    /\ entry' = IF ~HasChannel(c) THEN entry
                ELSE IF closing THEN [entry EXCEPT ![s].channel = Closed]
                ELSE [entry EXCEPT ![s].channel.ref = ref]
    /\ th' = IF HasChannel(c) /\ closing
             THEN [th EXCEPT ![App] = Dropping(entry[s].channel.ready, <<>>, NoSlot, NoSlot)]
             ELSE th
    /\ handles' = [handles EXCEPT ![c] = h]
    /\ UNCHANGED <<lock, bytes, abandoned, fins, net, completed, delivered>>

\* Channel::close.
Close(c) ==
    /\ AppMay(c) /\ HasChannel(c) /\ c \in Closable \ Awaited
    /\ CloseIf(c, TRUE, 0, handles[c])

\* A handle is dropped: the last one closes the channel.
DropHandle(c) ==
    LET ref == entry[SlotOf(c)].channel.ref - 1 IN
    /\ AppMay(c) /\ c \in Closable
    /\ CloseIf(c, ref = 0, ref, handles[c] - 1)

CloneHandle(c) ==
    /\ AppMay(c) /\ c \notin Awaited /\ handles[c] < MaxHandles
    /\ entry' = IF HasChannel(c) THEN [entry EXCEPT ![SlotOf(c)].channel.ref = @ + 1] ELSE entry
    /\ handles' = [handles EXCEPT ![c] = @ + 1]
    /\ UNCHANGED <<lock, bytes, abandoned, fins, net, th, completed, delivered>>

\* The poll of SendReplyFuture finds the reply in its buffer.
PollReply(c) ==
    LET s == SlotOf(c)
        d == entry[s].channel.buf
    IN
    /\ AppMay(c) /\ c \in Awaited /\ HasChannel(c) /\ d \in DocNos
    /\ entry' = [entry EXCEPT ![s].channel.buf = None]
    /\ handles' = [handles EXCEPT ![d] = @ + 1]
    /\ delivered' = delivered \union {d}
    /\ UNCHANGED <<lock, bytes, abandoned, fins, net, th, completed>>

-----------------------------------------------------------------------------

Sent == {g.d : g \in net}

\* The peer sends document d, closing its channel after the first k segments.
PeerSend(d, k) ==
    /\ d \notin Sent /\ \A c \in DocNos : c < d => c \in Sent
    /\ Behaved => /\ Cardinality(Sent \ fins) < MaxBytes
                  /\ \A c \in Sent : SlotOf(c) = SlotOf(d) => c \in fins
    /\ k = Docs[d].segs \/ d \in PeerCloses
    /\ net' = net \union {[d |-> d, i |-> i, closed |-> i > k] : i \in 1..Docs[d].segs}
    /\ UNCHANGED <<entry, lock, bytes, abandoned, fins, th, handles, completed, delivered>>

Step(a) ==
    \/ LookupParent(a) \/ Create(a) \/ Resume(a) \/ Post(a)
    \/ DropPop(a) \/ DropSlot(a) \/ DropDone(a)

Next ==
    /\ abandoned = "no"
    /\ \/ \E d \in DocNos : \E k \in 0..Docs[d].segs : PeerSend(d, k)
       \/ \E t \in Threads, g \in net : RecvKnown(t, g) \/ RecvNew(t, g)
       \/ \E a \in Actors : Step(a)
       \/ \E c \in Own \union DocNos :
            TryRecv(c) \/ Close(c) \/ DropHandle(c) \/ CloneHandle(c) \/ PollReply(c)

Spec == Init /\ [][Next]_vars

\* A call that has begun goes on: the threads are run by the operating system.
FairSpec == Spec /\ \A a \in Actors : WF_vars(abandoned = "no" /\ Step(a))

-----------------------------------------------------------------------------
(* Properties.                                                             *)

\* The state's type: entries, locks, thread records and histories have the shapes the
\* Rust types give them.
TypeOK ==
    /\ \A s \in Slots :
        /\ entry[s].doc \in {"reserved", "active", "finishing", "finack", "parentclose"}
        /\ entry[s].doc_no \in {None} \union Own \union DocNos
        /\ entry[s].expected \in {None} \union {Docs[d].parent : d \in DocNos}
        /\ entry[s].channel.ref \in Nat
        /\ ~entry[s].channel.open => entry[s].channel = Closed
        /\ lock[s] \in {None} \union Actors
    /\ bytes \in 0..MaxBytes
    /\ \A a \in Actors :
        th[a].pc \in {"idle", "parent", "relock", "wait", "woken", "post", "drop", "droplock"}
    /\ delivered \subseteq completed
    /\ completed \subseteq DocNos /\ fins \subseteq DocNos

\* Where a completed document is: with a thread that is about to post or to drop it, in a
\* channel, among the orphans, with the application, or dropped with a fin-parent-closed.
Holders(d) ==
    {<<"post", a>> : a \in {b \in Actors : th[b].pc = "post" /\ th[b].seg.d = d}}
    \union (UNION {{<<"stack", a, k>> : k \in {j \in 1..Len(th[a].stack) :
                        th[a].stack[j] = d /\ ~(th[a].pc = "droplock" /\ j = Len(th[a].stack))}} : a \in Actors})
    \union (UNION {{<<"later", a, k>> : k \in {j \in 1..Len(th[a].later) : th[a].later[j] = d}} : a \in Actors})
    \union (UNION {{<<"ready", s, k>> : k \in {j \in 1..Len(entry[s].channel.ready) :
                        entry[s].channel.ready[j] = d}} : s \in Slots})
    \union (UNION {{<<"orphan", s, k>> : k \in {j \in 1..Len(entry[s].orphans) :
                        entry[s].orphans[j] = d}} : s \in Slots})
    \union {<<"reply", s>> : s \in {r \in Slots : entry[r].channel.buf = d}}
    \union {<<"delivered">> : x \in {d} \intersect delivered}
    \union {<<"dropped">> : x \in {d} \intersect (fins \ delivered)}

\* Past the unlock in fin_doc exactly one owner has the document at any time: a channel,
\* a thread, the orphans of one slot, the application, or nobody after a fin
\* (recv.rs:87-88).  No interleaving of receiving, closing and reusing slots loses a
\* document or hands it out twice.
OwnedOnce == \A d \in completed : Cardinality(Holders(d)) = 1

\* recv_bytes_total is what the documents hold that are being received or are received
\* and not yet finished: each is counted in once and out once, on every path.
BytesExact ==
    bytes = Cardinality({s \in Slots : entry[s].doc \in {"reserved", "active"}})
            + Cardinality(completed \ fins)

\* The ref count of an open channel is the number of Channel objects of the application
\* plus one while the completed document waits to be received: it neither leaks nor
\* drops to zero early (recv.rs:81).
RefCountExact ==
    \A c \in Own \union DocNos : HasChannel(c) =>
        entry[SlotOf(c)].channel.ref = handles[c] + (IF c \in completed \ delivered THEN 1 ELSE 0)

\* The slot an actor has to lock for its next step.
Wanted(a) ==
    CASE th[a].pc \in {"relock", "woken"} -> SlotOf(th[a].seg.d)
      [] th[a].pc = "parent" -> SlotOf(Docs[th[a].seg.d].parent)
      [] th[a].pc = "post" -> SlotOf(th[a].fin.parent)
      [] th[a].pc = "droplock" -> SlotOf(Last(th[a].stack))
      [] OTHER -> NoSlot

\* No set of threads waits for locks that only its own members hold.  drop_unfinished_recv_doc
\* is called with the parent's slot locked (recv.rs:146, 172).
NoDeadlock ==
    ~\E A \in (SUBSET Actors) \ {{}} : \A a \in A : Wanted(a) \in Slots /\ lock[Wanted(a)] \in A

\* A relation of the slots that leads from the slot of every document to its parent's, and from
\* there on to those of all its ancestors.
Ancestry(R) ==
    /\ R \subseteq Slots \X Slots
    /\ \A d \in DocNos : <<SlotOf(d), SlotOf(Docs[d].parent)>> \in R
    /\ \A x, y, z \in Slots : <<x, y>> \in R /\ <<y, z>> \in R => <<x, z>> \in R

\* A call that waits for a lock while it has another waits for the slot of a document and has
\* that of an ancestor (recv.rs:146, 172): only where the slots of documents and of their
\* ancestors lead back to one another can calls wait in a circle.
LocksAscend ==
    \A R \in SUBSET (Slots \X Slots) : Ancestry(R) =>
        \A s \in Slots : lock[s] # None /\ Wanted(lock[s]) \in Slots => <<Wanted(lock[s]), s>> \in R

\* A reserved slot is left alone until the thread that reserved it has put its document
\* there (session.rs:49, the debug_assert of recv.rs:410), and what is dropped is a
\* finished document (the debug_assert of session.rs:307).
SlotsKept ==
    \A a \in Actors :
        /\ th[a].pc \in {"parent", "relock"} =>
            /\ entry[SlotOf(th[a].seg.d)].doc = "reserved"
            /\ entry[SlotOf(th[a].seg.d)].doc_no = th[a].seg.d
        /\ th[a].pc = "droplock" =>
            LET d == Last(th[a].stack) IN
            entry[SlotOf(d)].doc_no = d => SlotIsFin(entry[SlotOf(d)])

\* The reply state a completed reply is posted to is still awaiting it: the unreachable!
\* of recv.rs:120 is unreachable.
ReplyStillAwaited ==
    \A a \in Actors : LET p == th[a].fin.parent IN
        th[a].pc = "post" /\ th[a].fin.reply /\ HasChannel(p) =>
            entry[SlotOf(p)].channel.buf \in {Await, Incoming}

\* Orphans are kept only for a parent that is still to come: the document that takes
\* their slot adopts or drops all of them (recv.rs:369-371, 444-446).
OrphansWait ==
    \A s \in Slots : entry[s].orphans # <<>> => entry[s].doc_no < entry[s].expected

\* A document is put together from its own segments (recv.rs:64-65): a thread that waited
\* for a reserved slot does not write into the document that came after.
OwnSegments == \A s \in Slots : \A x \in entry[s].got : x.d = entry[s].doc_no

\* A slot that document d is to come into, which still has a document dropped with its
\* parent, or is still kept for a parent that has come already.
Unusable(d) ==
    LET e == entry[SlotOf(d)] IN
    e.doc_no < d /\ (e.doc = "parentclose" \/ e.expected \in 1..e.doc_no)

\* A peer that keeps to the rules, whatever the network does to its segments, has its
\* session abandoned for two reasons only: the slot of a document stays unusable after a
\* drop or after orphans (recv.rs:322, 328), or a document was created by a segment that
\* does not name its parent (recv.rs:296).  It is never over the byte limit, and never
\* taken to use a slot or to name a parent too early.
RejectedForKnownReasons ==
    /\ abandoned # "bytes"
    /\ abandoned \in {"slot in use", "not the parent"} => \E d \in Sent : Unusable(d)
    /\ abandoned = "no such parent" =>
        \E a \in Actors : th[a].pc = "post" /\ Unusable(th[a].fin.parent)
    /\ abandoned = "no parent" =>
        \E s \in Slots : entry[s].doc = "active" /\ entry[s].parent = None

\* A peer that waits for our fin may use the slot again (recv.rs:323-324).
FinFreesSlot == abandoned # "slot in use"

\* A slot is kept for the parent of its orphans, and only then (recv.rs:329-330).
KeptForOrphansOnly ==
    abandoned = "not the parent" => \E s \in Slots : entry[s].orphans # <<>>

\* A completed document has a parent, since the first segment has it (recv.rs:75-76).
CompleteHasParent == abandoned # "no parent"

\* Once the application has a document its bytes are released and the peer is told
\* (recv.rs:350-352).
DeliveredIsReleased == delivered \subseteq fins

\* Every call returns: a thread that waits for a reserved slot or a lock gets on, and the
\* drop loops end.
EveryCallReturns == \A a \in Actors : th[a].pc # "idle" ~> (th[a].pc = "idle" \/ abandoned # "no")
=============================================================================
