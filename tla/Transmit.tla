------------------------------ MODULE Transmit ------------------------------
(***************************************************************************)
(* Transmission and loss recovery: Session::transmit and acknowledged of   *)
(* session/src/send.rs, send_now of packet_builder.rs, and the slots they  *)
(* read.                                                                   *)
(*                                                                         *)
(* A call of transmit fills packets with acknowledgements, with the frames *)
(* of packets that were not acknowledged in time, and with segments and    *)
(* control frames of the documents in send_queue.  Full packets become     *)
(* work for an executor, which calls send_now.  A step of a call is what   *)
(* it does under one mutex, or one frame.                                  *)
(*                                                                         *)
(* External, since only stubs stand for them: the congestion window (the   *)
(* budget), the timeout (rto), schedule_send_control (a push to            *)
(* send_queue), what schedules the data of a document, the executor, the   *)
(* peer's fins.                                                            *)
(***************************************************************************)
EXTENDS PacketBuilder, AckCodec, FiniteSetsExt

CONSTANTS
    Threads,    \* threads that call transmit
    SendDocs,   \* numbers of sending documents
    RecvDocs,   \* numbers of receiving documents
    SlotOf,     \* sending document -> its index in send_table
    InitAcks,   \* socket index -> packet numbers waiting in SocketData.acks
    Uid,        \* socket index -> socket.uid
    LocalId,    \* socket index -> socket.local_id
    CurIdx,     \* OpenSockets.cur_idx
    Budgets,    \* what current_available_plpmtus may return
    InitQueue,  \* documents scheduled at the start
    Ending,     \* documents that the application may close or take and the peer may finish
    MaxEnding,  \* bound on how many of them do end
    MaxSends,   \* bound on concurrent calls of send_now
    MaxCalls    \* bound on calls of transmit

ASSUME TransmitAssumption ==
    /\ SendDocs \cap RecvDocs = {}
    /\ 0 \notin Budgets /\ Unbound \notin DOMAIN InitAcks
    /\ CurIdx \in DOMAIN InitAcks

VARIABLES
    send_table,     \* slot -> document, offset, channel, needs_send_close
    recv_table,     \* receiving document -> state, channel, needs_send_control
    pending,        \* documents for which schedule_send_control is still to be called
    dropping,       \* documents drop_unfinished_recv_doc has scheduled and not yet marked
    send_queue,     \* Session.send_queue
    packet_queue,   \* TransmissionQueue.packet_queue
    unacked,        \* TransmissionQueue.unacked_packets
    orphans,        \* TransmissionQueue.orphans
    acks,           \* socket index -> SocketData.acks
    tx,             \* thread -> its place in transmit
    work,           \* packets given to `queue`
    sends,          \* calls of send_now after the encryption
    net,            \* packets on their way
    clock,          \* calls of transmit so far, the model's time
    count,          \* packets encrypted so far
    settled,        \* history: <<place, position, frame>> of packets acknowledged in time
    overwritten,    \* history: the same of packets taken from the queue and forgotten
    failed          \* history: lines of assertions that failed

queues == <<send_queue, packet_queue, unacked, orphans, acks>>
slots == <<send_table, recv_table, pending, dropping>>
history == <<settled, overwritten, failed>>
wire == <<sends, net, count>>
vars == <<slots, queues, tx, work, wire, clock, history>>

Slots == {SlotOf[d] : d \in SendDocs}

Idle == [pc |-> "idle", budget |-> 0, rto |-> 0, packet |-> NewPacket, sock |-> 0,
         todo |-> <<>>, temp |-> <<>>, doc |-> 0]

\* Every slot has the lowest of its documents; nothing has been sent.  Receiving documents
\* are complete: "Waiting" for the application and, once taken, "Finishing" are both
\* RecvDocState::Finishing.
Init ==
    /\ send_table = [s \in Slots |->
           [doc_no |-> Min({d \in SendDocs : SlotOf[d] = s}), doc |-> TRUE, off |-> 0,
            open |-> TRUE, needs |-> FALSE]]
    /\ recv_table = [d \in RecvDocs |-> [doc |-> "Waiting", open |-> TRUE, needs |-> FALSE]]
    /\ pending = {} /\ dropping = {}
    /\ send_queue = InitQueue /\ packet_queue = <<>> /\ unacked = {} /\ orphans = <<>>
    /\ acks = InitAcks
    /\ tx = [t \in Threads |-> Idle]
    /\ work = <<>> /\ sends = {} /\ net = {} /\ clock = 0 /\ count = 0
    /\ settled = {} /\ overwritten = {} /\ failed = {}

-----------------------------------------------------------------------------
(* transmit: acknowledgements.                                             *)

Begin(t) ==
    /\ tx[t].pc = "idle" /\ clock < MaxCalls
    /\ clock' = clock + 1
    /\ \E b \in Budgets, rto \in 1..clock' :
           tx' = [tx EXCEPT ![t] =
                  [Idle EXCEPT !.pc = "acks", !.budget = b, !.rto = rto, !.sock = 1]]
    /\ UNCHANGED <<slots, queues, work, wire, history>>

\* Mutant: a call with its budget used goes on.
SpentOver(st) == [st EXCEPT !.budget = @ - 1, !.packet = NewPacket]

\* The packet has been queued: the call goes on with a new one or, its budget used, ends.
Spent(st) ==
    IF st.budget = 1 THEN Idle ELSE [st EXCEPT !.budget = @ - 1, !.packet = NewPacket]

\* After frames were appended: st is the call with the packet p, which is queued when full.
Filled(t, st, p) ==
    IF is_full(p)
    THEN /\ work' = Append(work, p)
         /\ tx' = [tx EXCEPT ![t] = Spent(st)]
    ELSE /\ work' = work
         /\ tx' = [tx EXCEPT ![t] = [st EXCEPT !.packet = p]]

\* append_sorted_acks for one socket, under its mutex.
AppendAcks(t) ==
    LET st == tx[t]
        i == st.sock
        res == encode([i |-> 0, buf |-> [k \in 1..st.packet.len |-> 0]], acks[i], Mtu)
        p == [st.packet EXCEPT !.len = Len(res.buf), !.bind = i, !.acks = @ \union {i}]
    IN /\ st.pc = "acks" /\ i \in DOMAIN acks
       /\ acks' = [acks EXCEPT ![i] = SubSeq(@, res.i + 1, Len(@))]
       /\ Filled(t, [st EXCEPT !.sock = @ + 1], IF res.i > 0 THEN p ELSE st.packet)
       /\ UNCHANGED <<slots, send_queue, packet_queue, unacked, orphans, wire, clock, history>>

AcksDone(t) ==
    /\ tx[t].pc = "acks" /\ tx[t].sock \notin DOMAIN acks
    /\ tx' = [tx EXCEPT ![t].pc = "pop"]
    /\ UNCHANGED <<slots, queues, work, wire, clock, history>>

-----------------------------------------------------------------------------
(* transmit: packets whose acknowledgement is late.                        *)

\* The frames of a packet with its uid and their positions.
Sent(entry) == {<<<<"sent", entry.uid>>, k, entry.frames[k]>> : k \in DOMAIN entry.frames}

StillUnacked(entry) == entry.uid \in unacked

\* A packet that does not fit into the current one but fills one of its own.
OwnPacket(st, resend) ==
    /\ resend > remaining_cap(st.packet)
    /\ resend_ratio < resend /\ resend <= Mtu
    /\ st.budget > 1

\* The loop that takes expired entries from the queue keeps only the last one that is
\* still unacknowledged.
PopExpired(t) ==
    LET st == tx[t]
        expired == Max({k \in 0..Len(packet_queue) :
                            \A j \in 1..k : packet_queue[j].sent_at < st.rto})
        popped == SubSeq(packet_queue, 1, expired)
        live == SelectSeq(popped, StillUnacked)
        last == live[Len(live)]
        own == OwnPacket(st, last.resend)
    IN /\ st.pc = "pop"
       /\ packet_queue' = SubSeq(packet_queue, expired + 1, Len(packet_queue))
       /\ unacked' = unacked \ {popped[k].uid : k \in DOMAIN popped}
       /\ overwritten' = overwritten \union UNION {Sent(live[k]) : k \in 1..(Len(live) - 1)}
       /\ tx' = [tx EXCEPT ![t] =
              IF live = <<>> THEN [st EXCEPT !.pc = "queue"]
              ELSE [st EXCEPT !.pc = "frames", !.todo = last.frames,
                              !.temp = IF own THEN <<st.packet>> ELSE <<>>,
                              !.packet = IF own THEN NewPacket ELSE @]]
       /\ UNCHANGED <<slots, send_queue, orphans, acks, work, wire, clock, settled, failed>>

\* Mutant: the rest of the frame at hand is forgotten when the call ends.
LeftoversShort(rest, todo) == Tail(todo)

\* What the call has not resent when its budget ends.
Leftovers(rest, todo) == rest \o Tail(todo)

\* A frame gave the packet p and left `rest`; `full` is whether p is to be sent.
Resent(t, p, full, rest) ==
    LET st == tx[t]
        left == Leftovers(rest, st.todo)
    IN IF ~full
       THEN /\ tx' = [tx EXCEPT ![t] = [st EXCEPT !.packet = p, !.todo = left]]
            /\ UNCHANGED <<work, orphans, failed>>
       ELSE IF st.budget > 1
       THEN /\ work' = Append(work, p)
            /\ tx' = [tx EXCEPT ![t] = [Spent(st) EXCEPT !.todo = left]]
            /\ UNCHANGED <<orphans, failed>>
       ELSE /\ work' = Append(work, p) \o st.temp
            /\ orphans' = orphans \o left
            /\ failed' = failed \union (IF st.temp = <<>> THEN {} ELSE {"send.rs:114"})
            /\ tx' = [tx EXCEPT ![t] = Idle]

ResendFrame(t) ==
    LET st == tx[t]
        frame == Head(st.todo)
        tried == try_append_seg(st.packet, frame)
        appended == append_control(st.packet, frame.variant, frame.doc, frame.data)
    IN /\ st.pc = "frames" /\ st.todo # <<>>
       /\ \/ frame.kind = "seg" /\ Resent(t, tried.packet, tried.now, tried.rest)
          \/ frame.kind = "control" /\ Resent(t, appended, is_full(appended), <<>>)
       /\ UNCHANGED <<slots, send_queue, packet_queue, unacked, acks, wire, clock,
                      settled, overwritten>>

\* All frames are resent: with a packet of their own, that one goes first.
ResendDone(t) ==
    LET st == tx[t]
        temp == st.temp[1]
    IN /\ st.pc = "frames" /\ st.todo = <<>>
       /\ IF st.temp = <<>>
          THEN /\ tx' = [tx EXCEPT ![t].pc = "pop"]
               /\ UNCHANGED <<work, failed>>
          ELSE IF st.budget > 1
          THEN /\ work' = Append(work, st.packet)
               /\ tx' = [tx EXCEPT ![t] =
                         [st EXCEPT !.pc = "pop", !.budget = @ - 1, !.packet = temp, !.temp = <<>>]]
               /\ UNCHANGED failed
          ELSE /\ work' = work \o <<st.packet, temp>>
               /\ failed' = failed \union {"send.rs:158"}
               /\ tx' = [tx EXCEPT ![t] = Idle]
       /\ UNCHANGED <<slots, queues, wire, clock, settled, overwritten>>

-----------------------------------------------------------------------------
(* transmit: documents in send_queue.                                      *)

PopDoc(t) ==
    /\ tx[t].pc = "queue" /\ send_queue # <<>>
    /\ tx' = [tx EXCEPT ![t].pc = "entry", ![t].doc = Head(send_queue)]
    /\ send_queue' = Tail(send_queue)
    /\ UNCHANGED <<slots, packet_queue, unacked, orphans, acks, work, wire, clock, history>>

\* The queue is empty: the call sends its packet, which always has its header, itself.
EndCall(t) ==
    /\ tx[t].pc = "queue" /\ send_queue = <<>>
    /\ work' = Append(work, tx[t].packet)
    /\ tx' = [tx EXCEPT ![t] = Idle]
    /\ UNCHANGED <<slots, queues, wire, clock, history>>

\* The call after it is done with the document at hand.
Onward(st) == [st EXCEPT !.pc = "queue", !.doc = 0]

\* Mutant: needs_send_close is not reset.
CutKeepsNeed(e, n) == [e EXCEPT !.off = @ + n]

\* next_seg_off moves on, and the segment carries the close if there is one.
Cut(e, n) == [e EXCEPT !.off = @ + n, !.needs = FALSE]

\* A segment of the document in slot s goes out under the number of the document at hand.
SendSeg(t, s) ==
    LET st == tx[t]
        e == send_table[s]
        seg == NewSegment(st.doc, e.doc_no, e.off, ~e.open, remaining_cap(st.packet))
    IN /\ e.doc /\ HasData(e.doc_no, e.off)
       /\ ~Overflows(st.doc, e.doc_no, e.off, remaining_cap(st.packet))
       /\ send_table' = [send_table EXCEPT ![s] = Cut(e, seg.n)]
       /\ Filled(t, Onward(st), append_seg(st.packet, seg))

\* A close in a frame of its own, with a fin when the document is gone.
SendClose(t, s, variant) ==
    LET st == tx[t] IN
    /\ send_table[s].needs
    /\ send_table' = [send_table EXCEPT ![s].needs = FALSE]
    /\ Filled(t, Onward(st), append_control(st.packet, variant, st.doc, send_table[s].doc_no))

NothingToSend(t) ==
    /\ tx' = [tx EXCEPT ![t] = Onward(tx[t])]
    /\ UNCHANGED <<send_table, work>>

\* Err(true): the packet is queued; the document goes back to the queue or, with budget
\* left, into a new packet after its slot was unlocked and locked again.
Overflow(t, s) ==
    LET st == tx[t]
        e == send_table[s]
    IN /\ e.doc /\ HasData(e.doc_no, e.off)
       /\ Overflows(st.doc, e.doc_no, e.off, remaining_cap(st.packet))
       /\ work' = Append(work, st.packet)
       /\ tx' = [tx EXCEPT ![t] =
              IF st.budget = 1 THEN [Idle EXCEPT !.pc = "pushback", !.doc = st.doc]
              ELSE [Spent(st) EXCEPT !.pc = "relock"]]
       /\ UNCHANGED send_table

SendEntry(t) ==
    LET s == SlotOf[tx[t].doc]
        e == send_table[s]
    IN /\ tx[t].pc = "entry" /\ tx[t].doc \in SendDocs
       /\ \/ e.doc_no # tx[t].doc /\ NothingToSend(t)
          \/ e.doc_no = tx[t].doc /\ SendSeg(t, s)
          \/ e.doc_no = tx[t].doc /\ Overflow(t, s)
          \/ /\ e.doc_no = tx[t].doc /\ e.doc /\ ~HasData(e.doc_no, e.off)
             /\ SendClose(t, s, {"close"})
          \/ e.doc_no = tx[t].doc /\ ~e.doc /\ SendClose(t, s, {"close", "fin"})
          \/ /\ e.doc_no = tx[t].doc /\ ~e.needs
             /\ ~(e.doc /\ HasData(e.doc_no, e.off))
             /\ NothingToSend(t)
       /\ UNCHANGED <<recv_table, pending, dropping, queues, wire, clock, history>>

PushBack(t) ==
    /\ tx[t].pc = "pushback"
    /\ send_queue' = <<tx[t].doc>> \o send_queue
    /\ tx' = [tx EXCEPT ![t] = Idle]
    /\ UNCHANGED <<slots, packet_queue, unacked, orphans, acks, work, wire, clock, history>>

\* The slot is locked again and its document number not compared; a document without
\* data is left, a close with it.
Relock(t) ==
    LET s == SlotOf[tx[t].doc]
        e == send_table[s]
    IN /\ tx[t].pc = "relock"
       /\ \/ SendSeg(t, s)
          \/ e.doc /\ ~HasData(e.doc_no, e.off) /\ NothingToSend(t)
          \/ ~e.doc /\ SendClose(t, s, {"close", "fin"})
          \/ ~e.doc /\ ~e.needs /\ NothingToSend(t)
       /\ UNCHANGED <<recv_table, pending, dropping, queues, wire, clock, history>>

\* slot_is_fin: a document dropped with its parent does not count.
slot_is_fin(e) == e.doc # "FinParentClose"

\* Mutant: a closed channel's frame has no fin.
ControlOfEither(e) == IF ~e.open THEN {"close"} ELSE IF slot_is_fin(e) THEN {"fin"} ELSE {}

ControlOf(e) ==
    (IF e.open THEN {} ELSE {"close"}) \union (IF slot_is_fin(e) THEN {"fin"} ELSE {})

\* A received document has a slot of its own here, with entry.doc_no = doc_no.
RecvEntry(t) ==
    LET st == tx[t]
        e == recv_table[st.doc]
    IN /\ st.pc = "entry" /\ st.doc \in RecvDocs
       /\ IF e.needs
          THEN /\ recv_table' = [recv_table EXCEPT ![st.doc].needs = FALSE]
               /\ Filled(t, Onward(st), append_control(st.packet, ControlOf(e), st.doc, st.doc))
          ELSE /\ tx' = [tx EXCEPT ![t] = Onward(st)]
               /\ UNCHANGED <<recv_table, work>>
       /\ UNCHANGED <<send_table, pending, dropping, queues, wire, clock, history>>

-----------------------------------------------------------------------------
(* send_now, and acknowledgements of the peer.                             *)

\* The socket a packet goes out on.
SocketOf(p) == IF p.bind = Unbound THEN CurIdx ELSE p.bind

\* transmit bound the packet to the socket's local_id.
Encrypted(p) == p.bind # Unbound => LocalId[p.bind] = Uid[p.bind]

\* The executor takes a packet; it gets a number of its socket, or a random one.
SendInsert ==
    LET p == Head(work)
        uid == <<IF Encrypted(p) THEN Uid[SocketOf(p)] ELSE 0, count + 1>>
    IN /\ work # <<>> /\ Cardinality(sends) < MaxSends
       /\ work' = Tail(work)
       /\ count' = count + 1
       /\ unacked' = unacked \union {uid}
       /\ sends' = sends \union {[uid |-> uid, at |-> clock, packet |-> p, pc |-> "push"]}
       /\ UNCHANGED <<slots, send_queue, packet_queue, orphans, acks, tx, net, clock, history>>

SendPush(w) ==
    /\ w.pc = "push"
    /\ packet_queue' = Append(packet_queue,
           [uid |-> w.uid, sent_at |-> w.at, resend |-> w.packet.resend,
            frames |-> w.packet.frames])
    /\ sends' = (sends \ {w}) \union {[w EXCEPT !.pc = "route"]}
    /\ UNCHANGED <<slots, send_queue, unacked, orphans, acks, tx, work, net, clock, count, history>>

SendRoute(w) ==
    /\ w.pc = "route"
    /\ sends' = sends \ {w}
    /\ net' = net \union {[uid |-> w.uid, sock |-> SocketOf(w.packet), acks |-> w.packet.acks,
                           frames |-> w.packet.frames]}
    /\ UNCHANGED <<slots, queues, tx, work, clock, count, history>>

\* acknowledged, for a packet the peer could read.  Packets that are lost stay in net.
Acknowledge(m) ==
    /\ m.uid[1] # 0
    /\ net' = net \ {m}
    /\ unacked' = unacked \ {m.uid}
    /\ settled' = settled \union (IF m.uid \in unacked THEN Sent(m) ELSE {})
    /\ UNCHANGED <<slots, send_queue, packet_queue, orphans, acks, tx, work, sends, count, clock,
                   overwritten, failed>>

-----------------------------------------------------------------------------
(* The application, the peer and the scheduler.                            *)

\* schedule_send_control.
Schedule(d) ==
    /\ d \in pending
    /\ pending' = pending \ {d}
    /\ send_queue' = Append(send_queue, d)
    /\ UNCHANGED <<send_table, recv_table, dropping, packet_queue, unacked, orphans, acks, tx,
                   work, wire, clock, history>>

\* The document has a place in the queue, or a thread has it at hand.
Scheduled(d) ==
    \/ d \in pending
    \/ \E k \in DOMAIN send_queue : send_queue[k] = d
    \/ \E t \in Threads : tx[t].doc = d

\* More data of a document is due.
ScheduleData(s) ==
    LET e == send_table[s] IN
    /\ e.doc /\ HasData(e.doc_no, e.off) /\ ~Scheduled(e.doc_no)
    /\ pending' = pending \union {e.doc_no}
    /\ UNCHANGED <<send_table, recv_table, dropping, queues, tx, work, wire, clock, history>>

\* Bounds: which documents end, and how many.
MayEnd(d) ==
    LET ended == {send_table[s].doc_no : s \in {x \in Slots : ~send_table[x].open \/ ~send_table[x].doc}}
                   \union {r \in RecvDocs : recv_table[r].doc # "Waiting"} \union dropping
    IN d \in Ending /\ Cardinality(ended \union {d}) <= MaxEnding

\* close_if_inner, the part under the mutex; scheduling follows.
CloseSend(s) ==
    /\ send_table[s].open /\ MayEnd(send_table[s].doc_no)
    /\ send_table' = [send_table EXCEPT ![s].open = FALSE, ![s].needs = TRUE]
    /\ pending' = pending \union {send_table[s].doc_no}
    /\ UNCHANGED <<recv_table, dropping, queues, tx, work, wire, clock, history>>

CloseRecv(d) ==
    /\ recv_table[d].doc = "Finishing" /\ recv_table[d].open
    /\ recv_table' = [recv_table EXCEPT ![d].open = FALSE, ![d].needs = TRUE]
    /\ pending' = pending \union {d}
    /\ UNCHANGED <<send_table, dropping, queues, tx, work, wire, clock, history>>

\* The application takes a document: its fin is due.  schedule_send_control(FIN, d), which
\* is not written, has to set needs_send_control, since its callers do not.
Take(d) ==
    /\ recv_table[d].doc = "Waiting" /\ d \notin dropping /\ MayEnd(d)
    /\ recv_table' = [recv_table EXCEPT ![d].doc = "Finishing", ![d].needs = TRUE]
    /\ pending' = pending \union {d}
    /\ UNCHANGED <<send_table, dropping, queues, tx, work, wire, clock, history>>

\* drop_unfinished_recv_doc schedules the document first ...
DropSchedule(d) ==
    /\ recv_table[d].doc = "Waiting" /\ d \notin dropping /\ MayEnd(d)
    /\ dropping' = dropping \union {d}
    /\ pending' = pending \union {d}
    /\ UNCHANGED <<send_table, recv_table, queues, tx, work, wire, clock, history>>

\* ... and marks its slot afterwards, when schedule_send_control has returned.
DropMark(d) ==
    /\ d \in dropping \ pending
    /\ dropping' = dropping \ {d}
    /\ recv_table' = [recv_table EXCEPT ![d] = [doc |-> "FinParentClose", open |-> FALSE,
                                                needs |-> TRUE]]
    /\ UNCHANGED <<send_table, pending, queues, tx, work, wire, clock, history>>

FramesOf(packets) == UNION {{p.frames[k] : k \in DOMAIN p.frames} : p \in packets}

\* The peer finishes or rejects a document of which it has got a segment.
Fin(s) ==
    /\ send_table[s].doc /\ MayEnd(send_table[s].doc_no)
    /\ \E f \in FramesOf(net) \union {x[3] : x \in settled} :
           f.kind = "seg" /\ f.data = send_table[s].doc_no
    /\ send_table' = [send_table EXCEPT ![s].doc = FALSE]
    /\ UNCHANGED <<recv_table, pending, dropping, queues, tx, work, wire, clock, history>>

\* try_send_any takes a free slot for the next document.
TakeSlot(s, d) ==
    /\ ~send_table[s].doc /\ ~send_table[s].open
    /\ SlotOf[d] = s /\ d > send_table[s].doc_no
    /\ send_table' = [send_table EXCEPT ![s] =
           [doc_no |-> d, doc |-> TRUE, off |-> 0, open |-> TRUE, needs |-> FALSE]]
    /\ pending' = pending \union {d}
    /\ UNCHANGED <<recv_table, dropping, queues, tx, work, wire, clock, history>>

Step(t) ==
    \/ AppendAcks(t)
    \/ AcksDone(t)
    \/ PopExpired(t)
    \/ ResendFrame(t)
    \/ ResendDone(t)
    \/ PopDoc(t)
    \/ EndCall(t)
    \/ SendEntry(t)
    \/ RecvEntry(t)
    \/ PushBack(t)
    \/ Relock(t)

Next ==
    \/ \E t \in Threads : Begin(t) \/ Step(t)
    \/ SendInsert
    \/ \E w \in sends : SendPush(w) \/ SendRoute(w)
    \/ \E m \in net : Acknowledge(m)
    \/ \E d \in SendDocs \union RecvDocs : Schedule(d)
    \/ \E s \in Slots : ScheduleData(s) \/ CloseSend(s) \/ Fin(s)
    \/ \E d \in RecvDocs : CloseRecv(d) \/ Take(d) \/ DropSchedule(d) \/ DropMark(d)

Spec == Init /\ [][Next]_vars

\* With slots that are used again.
ReuseSpec == Init /\ [][Next \/ \E s \in Slots, d \in SendDocs : TakeSlot(s, d)]_vars

-----------------------------------------------------------------------------
(* Properties.                                                             *)

\* Every frame with the place it is in: a call that fills or resends packets, a packet
\* that is to be sent, a packet sent and not acknowledged, the orphans; acknowledged and
\* overwritten frames are remembered.
Places ==
    LET frames(place, seq) == {<<place, k, seq[k]>> : k \in DOMAIN seq} IN
    UNION {frames(<<"todo", t>>, tx[t].todo) \union frames(<<"packet", t>>, tx[t].packet.frames)
             \union UNION {frames(<<"temp", t>>, tx[t].temp[i].frames) : i \in DOMAIN tx[t].temp} :
           t \in Threads}
      \union UNION {frames(<<"work", i>>, work[i].frames) : i \in DOMAIN work}
      \union UNION {frames(<<"sent", w.uid>>, w.packet.frames) : w \in {x \in sends : x.pc = "push"}}
      \union UNION {Sent(packet_queue[i]) :
                        i \in {j \in DOMAIN packet_queue : packet_queue[j].uid \in unacked}}
      \union frames(<<"orphans", 0>>, orphans)
      \union settled \union overwritten

Packets ==
    {tx[t].packet : t \in Threads} \union UNION {Range(tx[t].temp) : t \in Threads}
      \union Range(work) \union {w.packet : w \in sends}

\* Type invariant: in particular a call never has more budget than it was given, and the
\* queue holds numbers of documents.
TypeOK ==
    /\ \A s \in Slots : /\ SlotOf[send_table[s].doc_no] = s
                         /\ send_table[s].off \in 0..DocLen[send_table[s].doc_no]
    /\ Range(send_queue) \subseteq SendDocs \union RecvDocs
    /\ \A t \in Threads : tx[t].pc # "idle" /\ tx[t].pc # "pushback" =>
           tx[t].budget \in 1..Max(Budgets)
    /\ clock \in 0..MaxCalls

\* Every byte of a document below next_seg_off is in exactly one place: of the bytes that
\* transmit has cut none is dropped and none is under way twice, whatever splits, timeouts,
\* late acknowledgements and ends of budgets come together.  (A packet overwritten by the
\* next expired one, and an orphan, are places too, but ones no byte leaves.)
SentOnce ==
    LET segs == {x \in Places : x[3].kind = "seg"}
        bytes(x) == x[3].off .. (x[3].off + x[3].n - 1)
        mine(d) == {x \in segs : x[3].data = d}
        covered(d) == UNION {bytes(x) : x \in mine(d)}
    IN /\ \A s \in Slots : covered(send_table[s].doc_no) = 0..(send_table[s].off - 1)
       /\ \A d \in SendDocs :
              MapThenSumSet(LAMBDA x : x[3].n, mine(d)) = Cardinality(covered(d))

\* Once needs_send_close or needs_send_control is reset, the signal is in a frame that has
\* a place: the close of a sending channel, the close and the fin of a receiving one.
SignalsKept ==
    LET has(d, signal) ==
            \E x \in Places : /\ x[3].data = d
                              /\ \/ x[3].kind = "control" /\ signal \in x[3].variant
                                 \/ x[3].kind = "seg" /\ signal = "close" /\ x[3].closed
    IN /\ \A s \in Slots :
              LET e == send_table[s] IN ~e.open /\ ~e.needs => has(e.doc_no, "close")
       /\ \A d \in RecvDocs :
              LET e == recv_table[d] IN
              ~e.needs => /\ ~e.open => has(d, "close")
                          /\ e.doc = "Finishing" => has(d, "fin")

\* A signal that is still to be sent has a place in send_queue or is at hand, so that it
\* does not wait for another call of the application.  A document dropped with its parent
\* is left out: it is scheduled before it is marked.
SignalsScheduled ==
    /\ \A s \in Slots : send_table[s].needs => Scheduled(send_table[s].doc_no)
    /\ \A d \in RecvDocs :
           recv_table[d].needs /\ recv_table[d].doc # "FinParentClose" => Scheduled(d)

\* The assertions of append_seg: a header has the length that was computed for it when the
\* segment was made or cut, and no packet runs over the mtu.
WithinMtu == \A p \in Packets : PacketOK(p)

-----------------------------------------------------------------------------
(* What the code does not keep; each is refuted on an instance of its own. *)

\* The paths marked debug_assert!(false, "unreachable") in transmit are not reached.
NeverUnreachable == failed = {}

\* No packet that expired in the same call as a later one, and no orphan, is left without
\* anything that sends it again.
NothingForgotten == overwritten = {} /\ orphans = <<>>

\* transmit sends data and signals of a document under that document's number.
OwnNumber == \A x \in Places : x[3].doc = x[3].data

\* send_now encrypts a packet, and acknowledgements go out on the socket they belong to.
AcksOnTheirSocket == \A m \in net : m.uid[1] # 0 /\ m.acks \subseteq {m.sock}

\* A document dropped with its parent is scheduled until its control frame is made.
DroppedAnnounced ==
    \A d \in RecvDocs : recv_table[d].doc = "FinParentClose" /\ recv_table[d].needs => Scheduled(d)
=============================================================================
