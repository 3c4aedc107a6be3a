------------------------------- MODULE Context -------------------------------
(***************************************************************************)
(* Context<R> (session/src/context.rs): the table of handshakes in         *)
(* progress and the table of socket ids.  Several threads hand packets to  *)
(* recv() at once, and applications call open().                           *)
(*                                                                         *)
(* A handshake number is <<h, k>>: h is the random part, k the top byte,   *)
(* which says whether the packet belongs to the initial message (0), the   *)
(* reply (1) or the confirmation (2).  The tables are DashMaps: entry(no)  *)
(* locks the shard that `no` hashes to until the entry is dropped.  The    *)
(* locks of socket_table are taken for one call at a time, with no other   *)
(* lock requested meanwhile, so a call on socket_table is one step.        *)
(*                                                                         *)
(* What the messages contain and whether they authenticate is module       *)
(* Handshake's subject, and how fragments are put together is module       *)
(* Desegmenter's; here a message is its set of fragments and               *)
(* authentication may succeed or fail.                                     *)
(***************************************************************************)
EXTENDS Naturals, FiniteSets

CONSTANTS
    Threads,
    Remote,     \* random parts of the handshakes that peers start
    Local,      \* random parts that calls of open() draw
    Segs,       \* number of fragments of a handshake message
    SocketIds,
    ShardOf,    \* the shard of hanshake_table that a handshake number is in
    NoThread,
    NoSocket

Nos == (Remote \cup Local) \X (0 .. 2)

ASSUME ContextAssumption ==
    /\ Remote \cap Local = {}
    /\ NoThread \notin Threads /\ NoSocket \notin SocketIds
    /\ Segs \in Nat \ {0}
    /\ DOMAIN ShardOf = Nos
    /\ IsFiniteSet(Nos) /\ IsFiniteSet(SocketIds)
    \* an opened handshake's initial message may come back to where it was sent
    /\ Cardinality(SocketIds) >= Cardinality(Remote) + 2 * Cardinality(Local)

Shards == {ShardOf[no] : no \in Nos}

NoNo == <<"none", 0>>

VARIABLES
    sockets,    \* keys of socket_table; all map to None, see Finish
    table,      \* hanshake_table
    guard,      \* which thread holds an entry of a shard across steps
    th,         \* what each thread is doing
    processed,  \* history: how often the message of a number was processed
    complete    \* history: the ids of the handshakes that completed

vars == <<sockets, table, guard, th, processed, complete>>

Idle == [pc |-> "idle", no |-> NoNo, seg |-> 0, sock |-> NoSocket]

\* The reply and confirmation numbers of a handshake (HANDSHAKE_NO_SOCKET_ID_INC).
ReplyNo(no) == <<no[1], 1>>
ConfirmNo(no) == <<no[1], 2>>

Vacant == [kind |-> "vacant", sock |-> NoSocket, got |-> {}]
CoolDown == [Vacant EXCEPT !.kind = "cooldown"]
Sent(kind, sock) == [kind |-> kind, sock |-> sock, got |-> {}]

\* Mutant: the entry is removed, so that a resent message finds it vacant.
AfterMessageRemoved(e) == Vacant

\* What entry.insert leaves when the last fragment of a message arrives.
AfterMessage(e) == CoolDown

\* recv() still has its entry while recv_init_message runs when the entry was
\* occupied; a vacant entry is consumed by its insert.
HoldsGuard(e) == e.kind = "recv"

Init ==
    /\ sockets = {}
    /\ table = [no \in Nos |-> Vacant]
    /\ guard = [d \in Shards |-> NoThread]
    /\ th = [t \in Threads |-> Idle]
    /\ processed = [no \in Nos |-> 0]
    /\ complete = {}

-----------------------------------------------------------------------------
(* create_payload: reserve a random socket id.                             *)

\* contains_key says the drawn id is free; ids in use are drawn again.
Draw(t) ==
    /\ th[t].pc = "payload"
    /\ \E s \in SocketIds \ sockets :
          th' = [th EXCEPT ![t].pc = "reserve", ![t].sock = s]
    /\ UNCHANGED <<sockets, table, guard, processed, complete>>

\* What follows create_payload: process_initialize may fail to allocate the
\* reply, in which case recv_init_message cancels; open() cannot fail there.
AfterPayload(no) == IF no[2] = 0 THEN {"insert", "cancel"} ELSE {"insert"}

\* Mutant: the id is inserted without a second look, as contains_key said it
\* was free.
ReserveBlindly(t) ==
    /\ th[t].pc = "reserve"
    /\ sockets' = sockets \cup {th[t].sock}
    /\ \E pc \in AfterPayload(th[t].no) : th' = [th EXCEPT ![t].pc = pc]
    /\ UNCHANGED <<table, guard, processed, complete>>

\* Mutant: the id is drawn once, outside the loop.
ReserveSameId(t) ==
    /\ th[t].pc = "reserve"
    /\ \/ th[t].sock \in sockets /\ UNCHANGED <<sockets, th>>
       \/ /\ th[t].sock \notin sockets
          /\ sockets' = sockets \cup {th[t].sock}
          /\ \E pc \in AfterPayload(th[t].no) : th' = [th EXCEPT ![t].pc = pc]
    /\ UNCHANGED <<table, guard, processed, complete>>

\* socket_table.entry: another thread may have taken the id since.
Reserve(t) ==
    /\ th[t].pc = "reserve"
    /\ \/ /\ th[t].sock \in sockets
          /\ th' = [th EXCEPT ![t].pc = "payload", ![t].sock = NoSocket]
          /\ UNCHANGED sockets
       \/ /\ th[t].sock \notin sockets
          /\ sockets' = sockets \cup {th[t].sock}
          /\ \E pc \in AfterPayload(th[t].no) : th' = [th EXCEPT ![t].pc = pc]
    /\ UNCHANGED <<table, guard, processed, complete>>

-----------------------------------------------------------------------------
(* open                                                                    *)

\* A random number that no other handshake has.
Open(t) ==
    /\ th[t].pc = "idle"
    /\ \E h \in Local :
          /\ table[<<h, 1>>] = Vacant
          /\ \A u \in Threads : th[u].no = <<h, 1>> => th[u].pc = "entry"
          /\ th' = [th EXCEPT ![t] = [Idle EXCEPT !.pc = "payload", !.no = <<h, 1>>]]
    /\ UNCHANGED <<sockets, table, guard, processed, complete>>

\* hanshake_table.insert(reply_no, InitiatorSent).
PutInit(t) ==
    LET no == th[t].no IN
    /\ th[t].pc = "insert" /\ no[2] = 1
    /\ guard[ShardOf[no]] = NoThread
    /\ table' = [table EXCEPT ![no] = Sent("init", th[t].sock)]
    /\ th' = [th EXCEPT ![t] = Idle]
    /\ UNCHANGED <<sockets, guard, processed, complete>>

-----------------------------------------------------------------------------
(* recv_init_message, after the initial message is whole                   *)

\* Mutant: the entry of the initial message is never given up.
ReleaseForgotten(t) == guard

\* Unwinding or returning, the thread gives up the entry it may still have.
Release(t) == [d \in Shards |-> IF guard[d] = t THEN NoThread ELSE guard[d]]

\* process_initialize fails: before it asks for the payload, when the message
\* is bad, or after, in which case the id that the payload has reserved is
\* given back.
RejectInit(t) ==
    /\ th[t].pc \in {"payload", "cancel"} /\ th[t].no[2] = 0
    /\ sockets' = sockets \ {th[t].sock}
    /\ guard' = Release(t)
    /\ th' = [th EXCEPT ![t] = Idle]
    /\ UNCHANGED <<table, processed, complete>>

\* hanshake_table.entry(confirm_no): insert ResponderSent, or give the socket
\* id back if the number is taken.
PutReply(t) ==
    LET no == ConfirmNo(th[t].no) IN
    /\ th[t].pc = "insert" /\ th[t].no[2] = 0
    /\ guard[ShardOf[no]] = NoThread
    /\ IF table[no] = Vacant
       THEN /\ table' = [table EXCEPT ![no] = Sent("resp", th[t].sock)]
            /\ UNCHANGED sockets
       ELSE /\ sockets' = sockets \ {th[t].sock}
            /\ UNCHANGED table
    /\ guard' = Release(t)
    /\ th' = [th EXCEPT ![t] = Idle]
    /\ UNCHANGED <<processed, complete>>

-----------------------------------------------------------------------------
(* recv                                                                    *)

\* A fragment arrives: late, again, out of order, of a number nobody knows, or
\* of an initial message that comes back to where it was sent.
Recv(t) ==
    /\ th[t].pc = "idle"
    /\ \E no \in Nos, s \in 1 .. Segs :
          th' = [th EXCEPT ![t] = [Idle EXCEPT !.pc = "entry", !.no = no, !.seg = s]]
    /\ UNCHANGED <<sockets, table, guard, processed, complete>>

\* hanshake_table.entry(handshake_no) has the lock.
AtEntry(t) ==
    /\ th[t].pc = "entry"
    /\ guard[ShardOf[th[t].no]] = NoThread

\* Mutant: the kind of the number is not looked at when it is unused.
AcceptsAny(no) == table[no].kind # "cooldown"

\* Does a fragment that reaches the entry have any effect?
Accepts(no) ==
    \/ table[no].kind \in {"recv", "init", "resp"}
    \/ table[no].kind = "vacant" /\ no[2] = 0

Got(t) == table[th[t].no].got \cup {th[t].seg}

Ignore(t) ==
    /\ AtEntry(t)
    /\ ~Accepts(th[t].no)
    /\ th' = [th EXCEPT ![t] = Idle]
    /\ UNCHANGED <<sockets, table, guard, processed, complete>>

\* SegError::Segmented or NewResult::Segmented: fragments are missing.
Collect(t) ==
    LET no == th[t].no IN
    /\ AtEntry(t)
    /\ Accepts(no)
    /\ Got(t) # 1 .. Segs
    /\ table' = [table EXCEPT
          ![no].got = Got(t),
          ![no].kind = IF @ = "vacant" THEN "recv" ELSE @]
    /\ th' = [th EXCEPT ![t] = Idle]
    /\ UNCHANGED <<sockets, guard, processed, complete>>

\* The message is whole: the entry goes on cooldown and the message is used.
Whole(t) ==
    LET no == th[t].no IN
    /\ AtEntry(t)
    /\ Accepts(no)
    /\ Got(t) = 1 .. Segs
    /\ table' = [table EXCEPT ![no] = AfterMessage(@)]
    /\ processed' = [processed EXCEPT ![no] = @ + 1]

InitWhole(t) ==
    LET no == th[t].no IN
    /\ Whole(t)
    /\ no[2] = 0
    /\ guard' = IF HoldsGuard(table[no]) THEN [guard EXCEPT ![ShardOf[no]] = t] ELSE guard
    /\ th' = [th EXCEPT ![t].pc = "payload"]
    /\ UNCHANGED <<sockets, complete>>

\* process_reply or process_confirm succeeds.  handshake_complete is a stub:
\* the id stays reserved, for the socket that is to be put there.
Finish(t) ==
    LET no == th[t].no IN
    /\ Whole(t)
    /\ no[2] # 0
    /\ complete' = complete \cup {<<no, table[no].sock>>}
    /\ th' = [th EXCEPT ![t] = Idle]
    /\ UNCHANGED <<sockets, guard>>

\* process_reply or process_confirm fails: the id is given back.
Fail(t) ==
    LET no == th[t].no IN
    /\ Whole(t)
    /\ no[2] # 0
    /\ sockets' = sockets \ {table[no].sock}
    /\ th' = [th EXCEPT ![t] = Idle]
    /\ UNCHANGED <<guard, complete>>

-----------------------------------------------------------------------------
Step(t) ==
    \/ Draw(t) \/ Reserve(t)
    \/ PutInit(t)
    \/ RejectInit(t) \/ PutReply(t)
    \/ Ignore(t) \/ Collect(t) \/ InitWhole(t) \/ Finish(t) \/ Fail(t)

Next == \E t \in Threads : Open(t) \/ Recv(t) \/ Step(t)

Spec == Init /\ [][Next]_vars

\* A thread that is inside open() or recv() is scheduled again.
FairSpec == Spec /\ \A t \in Threads : WF_vars(Step(t))

-----------------------------------------------------------------------------
\* Type invariant of the two tables and of the threads' progress.
TypeOK ==
    /\ sockets \subseteq SocketIds
    /\ \A no \in Nos :
          /\ table[no].kind \in {"vacant", "cooldown", "recv", "init", "resp"}
          /\ table[no].sock \in SocketIds <=> table[no].kind \in {"init", "resp"}
          /\ table[no].got \subseteq 1 .. Segs /\ table[no].got # 1 .. Segs
    /\ guard \in [Shards -> Threads \cup {NoThread}]
    /\ \A t \in Threads :
          /\ th[t].pc \in {"idle", "payload", "reserve", "insert", "cancel", "entry"}
          /\ th[t].sock \in SocketIds <=> th[t].pc \in {"reserve", "insert", "cancel"}

\* Who is to remove or fill in the reservation of s.
Holders(s) ==
    {no \in Nos : table[no].sock = s}
        \cup {t \in Threads : th[t].pc \in {"insert", "cancel"} /\ th[t].sock = s}
        \cup {c \in complete : c[2] = s}

\* A reserved socket id belongs to exactly one handshake, and no other id is
\* reserved: threads that draw the same id do not share it, and no collision,
\* failure or early return forgets one ("it is a key in `socket_table` and
\* needs to eventually be removed from it").  It is also why the assertions
\* after each socket_table.remove hold.
OneHolder ==
    \A s \in SocketIds : Cardinality(Holders(s)) = IF s \in sockets THEN 1 ELSE 0

\* Resent and duplicated fragments never get the message of a handshake
\* number processed a second time, whatever was processed in between.
ProcessedOnce == \A no \in Nos : processed[no] <= 1

\* recv_init_message finds the confirmation number unused: the branch that
\* cancels the handshake is never taken while entries stay on cooldown.
NoCollision ==
    \A t \in Threads :
        th[t].pc \in {"payload", "reserve", "insert", "cancel"} /\ th[t].no[2] = 0
            => table[ConfirmNo(th[t].no)] = Vacant

\* The shard that a thread is about to lock.
Wants(t) ==
    CASE th[t].pc = "entry" -> {ShardOf[th[t].no]}
      [] th[t].pc = "insert" /\ th[t].no[2] = 1 -> {ShardOf[th[t].no]}
      [] th[t].pc = "insert" /\ th[t].no[2] = 0 -> {ShardOf[ConfirmNo(th[t].no)]}
      [] OTHER -> {}

\* Threads each of which waits for the entry of one of them.
Circle(S) == S # {} /\ \A t \in S : \E d \in Wants(t) : guard[d] \in S

\* A call of recv_init_message that still has the entry of its initial message
\* and is about to ask for the one of its confirmation number.
AnswersHolding(t) ==
    th[t].pc = "insert" /\ th[t].no[2] = 0 /\ guard[ShardOf[th[t].no]] = t

\* Threads wait for each other's entries of hanshake_table in one way only:
\* some recv_init_message that has the entry of its initial message asks for a
\* confirmation number whose shard is the one of an initial message (another's
\* or its own) that is being answered.  No other path through open() and recv()
\* waits for an entry while it has one, and none keeps one when it returns.
OnlyAnswersDeadlock ==
    \A S \in SUBSET Threads : Circle(S) =>
        \E t, u \in S :
            /\ AnswersHolding(t) /\ AnswersHolding(u)
            /\ ShardOf[ConfirmNo(th[t].no)] = ShardOf[th[u].no]

\* Every call of open() and recv() returns, unless threads wait for each other.
CallsReturn ==
    \A t \in Threads : []<>(th[t].pc = "idle" \/ \E S \in SUBSET Threads : Circle(S))
=============================================================================
