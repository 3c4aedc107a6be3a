---------------------------- MODULE ContextProofs ----------------------------
(***************************************************************************)
(* Proofs about Context, for any sets of threads, handshakes and socket    *)
(* ids and any assignment of numbers to shards: a message is processed     *)
(* once, a reserved socket id has one holder, a confirm number is unused   *)
(* when it is entered; and threads wait for each other only through an     *)
(* answer that keeps the entry of its initial message.                     *)
(***************************************************************************)
EXTENDS Context, FiniteSetTheorems, TLAPS

\* A leaf that names no prover is tried with these, in this order.
USE SMTT(10), Zenon, Z3T(30)

Kinds == {"vacant", "cooldown", "recv", "init", "resp"}
PCs == {"idle", "payload", "reserve", "insert", "cancel", "entry"}

EntryType == [kind : Kinds, sock : SocketIds \cup {NoSocket}, got : SUBSET (1 .. Segs)]
CallType == [pc : PCs, no : Nos \cup {NoNo}, seg : Nat, sock : SocketIds \cup {NoSocket}]

Types ==
    /\ sockets \subseteq SocketIds
    /\ table \in [Nos -> EntryType]
    /\ guard \in [Shards -> Threads \cup {NoThread}]
    /\ th \in [Threads -> CallType]
    /\ processed \in [Nos -> Nat]
    /\ complete \subseteq Nos \X SocketIds

\* What an entry of a kind has, and which numbers have entries of that kind.
EntryOK(no) ==
    /\ table[no].sock \in SocketIds <=> table[no].kind \in {"init", "resp"}
    /\ table[no].got # 1 .. Segs
    /\ table[no].kind = "recv" => no[2] = 0
    /\ table[no].kind = "init" => no[2] = 1
    /\ table[no].kind = "resp" => no[2] = 2
    /\ table[no].kind = "vacant" => table[no] = Vacant

Entries == \A no \in Nos : EntryOK(no)

\* A call of open() or recv_init_message that has or will have a socket id.
Working(t) == th[t].pc \in {"payload", "reserve", "insert", "cancel"}

Calls ==
    \A t \in Threads :
        /\ th[t].sock \in SocketIds <=> th[t].pc \in {"reserve", "insert", "cancel"}
        /\ th[t].pc = "entry" => th[t].no \in Nos /\ th[t].seg \in 1 .. Segs
        /\ Working(t) => th[t].no \in Nos /\ th[t].no[2] \in {0, 1}

\* A processed number stays on cooldown.
Settled == \A no \in Nos : processed[no] = 0 \/ (processed[no] = 1 /\ table[no].kind = "cooldown")

\* Handshakes that are being opened or answered have a number each; the entry it is to have
\* is free, and an answered message has been processed.
Apart ==
    /\ \A t \in Threads : Working(t) =>
           /\ th[t].no[2] = 1 => table[th[t].no] = Vacant
           /\ th[t].no[2] = 0 =>
                  processed[th[t].no] = 1 /\ table[ConfirmNo(th[t].no)] = Vacant
    /\ \A t, u \in Threads : Working(t) /\ Working(u) /\ th[t].no = th[u].no => t = u
    /\ \A no \in Nos : no[2] = 0 /\ processed[no] = 0 => table[ConfirmNo(no)] = Vacant

\* Only recv_init_message holds an entry across steps, that of its initial message.
Guards ==
    \A d \in Shards : guard[d] \in Threads =>
        /\ Working(guard[d]) /\ th[guard[d]].no[2] = 0
        /\ d = ShardOf[th[guard[d]].no]

\* The entries, calls and completed handshakes that hold a socket id.
ByEntry(s) == {no \in Nos : table[no].sock = s}
ByCall(s) == {t \in Threads : th[t].pc \in {"insert", "cancel"} /\ th[t].sock = s}
ByDone(s) == {c \in complete : c[2] = s}

AtMostOne(S) == \A x, y \in S : x = y

\* A reserved id has a holder, which is the only one of the three kinds.
Held(in, E, C, D) ==
    /\ in <=> E # {} \/ C # {} \/ D # {}
    /\ AtMostOne(E) /\ AtMostOne(C) /\ AtMostOne(D)
    /\ E = {} \/ C = {}
    /\ E = {} \/ D = {}
    /\ C = {} \/ D = {}

Reservations == \A s \in SocketIds : Held(s \in sockets, ByEntry(s), ByCall(s), ByDone(s))

CtxInv == Types /\ Entries /\ Calls /\ Settled /\ Apart /\ Guards /\ Reservations

-----------------------------------------------------------------------------
\* A handshake number has a message part of 0 to 2, its confirm number is a number, and every number has a shard.
LEMMA NumberParts ==
    \A no \in Nos :
        /\ no[2] \in 0 .. 2
        /\ ConfirmNo(no) \in Nos /\ ConfirmNo(no)[2] = 2
        /\ ShardOf[no] \in Shards
BY DEF Nos, ConfirmNo, Shards

\* The two null values are no thread and no socket id.
LEMMA Absent == NoThread \notin Threads /\ NoSocket \notin SocketIds
BY ContextAssumption

\* Two numbers of the same message have the same confirm number only if they are equal.
LEMMA ConfirmInjective ==
    \A a, b \in Nos : a[2] = b[2] /\ ConfirmNo(a) = ConfirmNo(b) => a = b
BY DEF Nos, ConfirmNo

\* The empty table satisfies the invariant.
LEMMA InitInv == Init => CtxInv
<1> SUFFICES ASSUME Init PROVE CtxInv
    OBVIOUS
<1> USE ContextAssumption DEF Init
<1>1. Types
    BY DEF Types, EntryType, CallType, Kinds, PCs, Vacant, Idle
<1>2. Entries
    <2>1. 1 \in 1 .. Segs
        BY ContextAssumption
    <2> QED BY <2>1, Zenon DEF Entries, EntryOK, Vacant
<1>3. Calls /\ Settled
    BY DEF Calls, Settled, Idle, Working
<1>4. Apart /\ Guards
    BY NumberParts DEF Apart, Guards, Working, Idle, Vacant
<1>5. Reservations
    BY DEF Reservations, Held, ByEntry, ByCall, ByDone, AtMostOne, Vacant, Idle
<1> QED BY <1>1, <1>2, <1>3, <1>4, <1>5 DEF CtxInv

\* What a step that replaces the call of one thread leaves to the other threads.
LEMMA Moved ==
    ASSUME Types, NEW t \in Threads, NEW r \in CallType, th' = [th EXCEPT ![t] = r]
    PROVE  /\ th' \in [Threads -> CallType]
           /\ th'[t] = r
           /\ \A u \in Threads : u # t => th'[u] = th[u]
BY DEF Types

\* What a step that replaces one entry of the table leaves to the other entries.
LEMMA Entered ==
    ASSUME Types, NEW no \in Nos, NEW e \in EntryType, table' = [table EXCEPT ![no] = e]
    PROVE  /\ table' \in [Nos -> EntryType]
           /\ table'[no] = e
           /\ \A n \in Nos : n # no => table'[n] = table[n]
BY DEF Types

\* The idle call, the vacant entry and the entry on cooldown have their types and hold no socket id.
LEMMA Constants ==
    /\ Idle \in CallType /\ Idle.pc = "idle" /\ Idle.sock = NoSocket
    /\ Vacant \in EntryType /\ Vacant.kind = "vacant" /\ Vacant.sock = NoSocket /\ Vacant.got = {}
    /\ CoolDown \in EntryType /\ CoolDown.kind = "cooldown" /\ CoolDown.sock = NoSocket
    /\ CoolDown.got = {} /\ {} # 1 .. Segs
<1>1. 1 \in 1 .. Segs
    BY ContextAssumption
<1> QED BY <1>1, ContextAssumption DEF Idle, CallType, Vacant, CoolDown, EntryType, Kinds, PCs

\* Every reservation is what it was or is in order again.
LEMMA HoldersMoved ==
    ASSUME CtxInv,
           \A p \in SocketIds :
               \/ /\ p \in sockets' <=> p \in sockets
                  /\ ByEntry(p)' = ByEntry(p) /\ ByCall(p)' = ByCall(p) /\ ByDone(p)' = ByDone(p)
               \/ Held(p \in sockets', ByEntry(p)', ByCall(p)', ByDone(p)')
    PROVE  Reservations'
<1>1. ASSUME NEW p \in SocketIds
      PROVE  Held(p \in sockets', ByEntry(p)', ByCall(p)', ByDone(p)')
    <2>1. Held(p \in sockets, ByEntry(p), ByCall(p), ByDone(p))
        BY DEF CtxInv, Reservations
    <2> QED BY <2>1 DEF Held
<1> QED BY <1>1 DEF Reservations, Held

\* A step after which every socket id has the holders it had keeps the reservations.
LEMMA HoldersSame ==
    ASSUME CtxInv, UNCHANGED sockets,
           \A p \in SocketIds :
               ByEntry(p)' = ByEntry(p) /\ ByCall(p)' = ByCall(p) /\ ByDone(p)' = ByDone(p)
    PROVE  Reservations'
BY HoldersMoved

\* Drawing a random socket id that is not in the socket table keeps the invariant.
LEMMA DrawInv ==
    ASSUME NEW t \in Threads, CtxInv, Draw(t)
    PROVE  CtxInv'
<1> USE Absent DEF CtxInv
<1>1. PICK s \in SocketIds \ sockets : th' = [th EXCEPT ![t].pc = "reserve", ![t].sock = s]
    BY Zenon DEF Draw
<1>2. /\ th[t].pc = "payload"
      /\ UNCHANGED <<sockets, table, guard, processed, complete>>
    BY DEF Draw
<1>3. /\ th' \in [Threads -> CallType]
      /\ th'[t].pc = "reserve" /\ th'[t].sock = s /\ th'[t].no = th[t].no
      /\ \A u \in Threads : u # t => th'[u] = th[u]
    <2> DEFINE r == [th[t] EXCEPT !.pc = "reserve", !.sock = s]
    <2>1. th[t] \in CallType /\ th' = [th EXCEPT ![t] = r]
        BY <1>1, Zenon DEF Types
    <2>2. r \in CallType /\ r.pc = "reserve" /\ r.sock = s /\ r.no = th[t].no
        BY <2>1, Zenon DEF CallType, PCs
    <2> HIDE DEF r
    <2> QED BY <2>1, <2>2, Moved, Zenon
<1>4. Types'
    BY <1>2, <1>3 DEF Types
<1>5. Entries' /\ Settled'
    BY <1>2 DEF Entries, EntryOK, Settled
<1>6. Calls'
    BY <1>2, <1>3, ZenonT(30) DEF Types, Calls, Working
<1>7. Apart' /\ Guards'
    BY <1>2, <1>3 DEF Types, Apart, Guards, Working
<1>8. ASSUME NEW q \in SocketIds
      PROVE  ByEntry(q)' = ByEntry(q) /\ ByCall(q)' = ByCall(q) /\ ByDone(q)' = ByDone(q)
    BY <1>2, <1>3 DEF ByEntry, ByCall, ByDone
<1>9. Reservations'
    BY <1>2, <1>8, HoldersSame
<1> QED BY <1>4, <1>5, <1>6, <1>7, <1>9

\* The drawn id is taken in between, or becomes the thread's.
LEMMA ReserveInv ==
    ASSUME NEW t \in Threads, CtxInv, Reserve(t)
    PROVE  CtxInv'
<1> USE Absent DEF CtxInv
<1>1. /\ th[t].pc = "reserve" /\ th[t] \in CallType /\ th[t].sock \in SocketIds
      /\ UNCHANGED <<table, guard, processed, complete>>
    BY DEF Reserve, Types, Calls
<1>2. Entries' /\ Settled'
    BY <1>1 DEF Entries, EntryOK, Settled
<1>3. CASE th[t].sock \in sockets
    <2> DEFINE r == [th[t] EXCEPT !.pc = "payload", !.sock = NoSocket]
    <2>1. th' = [th EXCEPT ![t] = r] /\ sockets' = sockets
        BY <1>1, <1>3, Zenon DEF Reserve, Types
    <2>2. r \in CallType /\ r.pc = "payload" /\ r.sock = NoSocket /\ r.no = th[t].no
        BY <1>1, Zenon DEF CallType, PCs
    <2> HIDE DEF r
    <2>3. /\ th' \in [Threads -> CallType] /\ th'[t] = r
          /\ \A u \in Threads : u # t => th'[u] = th[u]
        BY <2>1, <2>2, Moved, Zenon
    <2>4. Types'
        BY <1>1, <2>1, <2>3 DEF Types
    <2>5. Calls'
        BY <1>1, <2>2, <2>3, ZenonT(30) DEF Types, Calls, Working
    <2>6. Apart' /\ Guards'
        BY <1>1, <2>2, <2>3 DEF Types, Apart, Guards, Working
    <2>7. ASSUME NEW q \in SocketIds
          PROVE  ByEntry(q)' = ByEntry(q) /\ ByCall(q)' = ByCall(q) /\ ByDone(q)' = ByDone(q)
        BY <1>1, <2>2, <2>3 DEF ByEntry, ByCall, ByDone
    <2>8. Reservations'
        BY <2>1, <2>7, HoldersSame, Zenon
    <2> QED BY <1>2, <2>4, <2>5, <2>6, <2>8, Zenon
<1>4. CASE th[t].sock \notin sockets
    <2>0. PICK pc \in AfterPayload(th[t].no) : th' = [th EXCEPT ![t].pc = pc]
        BY <1>4, Zenon DEF Reserve
    <2> DEFINE r == [th[t] EXCEPT !.pc = pc]
               s == th[t].sock
    <2>1. th' = [th EXCEPT ![t] = r] /\ sockets' = sockets \cup {s}
        BY <1>1, <1>4, <2>0, Zenon DEF Reserve, Types
    <2>a. pc \in {"insert", "cancel"}
        BY <2>0 DEF AfterPayload
    <2>2. r \in CallType /\ r.pc \in {"insert", "cancel"} /\ r.sock = s /\ r.no = th[t].no
        BY <1>1, <2>a DEF CallType, PCs
    <2> HIDE DEF r
    <2>3. /\ th' \in [Threads -> CallType] /\ th'[t] = r
          /\ \A u \in Threads : u # t => th'[u] = th[u]
        BY <2>1, <2>2, Moved, Zenon
    <2>4. Types'
        BY <1>1, <2>1, <2>3, Zenon DEF Types
    <2>5. Calls'
        BY <1>1, <2>2, <2>3, ZenonT(30) DEF Types, Calls, Working
    <2>6. Apart' /\ Guards'
        BY <1>1, <2>2, <2>3 DEF Types, Apart, Guards, Working
    <2>7. ByEntry(s) = {} /\ ByCall(s) = {} /\ ByDone(s) = {}
        BY <1>1, <1>4 DEF Reservations, Held
    <2>8. ASSUME NEW q \in SocketIds
          PROVE  /\ ByEntry(q)' = ByEntry(q) /\ ByDone(q)' = ByDone(q)
                 /\ ByCall(q)' = IF q = s THEN {t} ELSE ByCall(q)
        BY <1>1, <2>2, <2>3, <2>7 DEF ByEntry, ByCall, ByDone
    <2>9. Reservations'
        <3>1. \A p \in SocketIds : p = s => Held(p \in sockets', ByEntry(p)', ByCall(p)', ByDone(p)')
            BY <2>1, <2>7, <2>8 DEF Held, AtMostOne
        <3>2. \A p \in SocketIds : p # s => (p \in sockets' <=> p \in sockets)
            BY <2>1
        <3> QED BY <2>8, <3>1, <3>2, HoldersMoved, Zenon
    <2> QED BY <1>2, <2>4, <2>5, <2>6, <2>9
<1> QED BY <1>3, <1>4

\* Opening a handshake with a fresh random number keeps the invariant.
LEMMA OpenInv ==
    ASSUME NEW t \in Threads, CtxInv, Open(t)
    PROVE  CtxInv'
<1> USE Absent DEF CtxInv
<1>1. PICK h \in Local :
          /\ table[<<h, 1>>] = Vacant
          /\ \A u \in Threads : th[u].no = <<h, 1>> => th[u].pc = "entry"
          /\ th' = [th EXCEPT ![t] = [Idle EXCEPT !.pc = "payload", !.no = <<h, 1>>]]
    BY Zenon DEF Open
<1>2. th[t].pc = "idle" /\ UNCHANGED <<sockets, table, guard, processed, complete>>
    BY DEF Open
<1> DEFINE no == <<h, 1>>
           r == [Idle EXCEPT !.pc = "payload", !.no = no]
<1>3. no \in Nos /\ no[2] = 1
    BY DEF Nos
<1>4. r \in CallType /\ r.pc = "payload" /\ r.sock = NoSocket /\ r.no = no
    BY <1>3, Zenon DEF Idle, CallType, PCs
<1> HIDE DEF r, no
<1>5. /\ th' \in [Threads -> CallType] /\ th'[t] = r
      /\ \A u \in Threads : u # t => th'[u] = th[u]
    <2>1. th' = [th EXCEPT ![t] = r]
        BY <1>1 DEF r, no
    <2> QED BY <2>1, <1>4, Moved, Zenon
<1>6. table[no] = Vacant /\ \A u \in Threads : th[u].no = no => th[u].pc = "entry"
    BY <1>1 DEF no
<1>7. Types'
    BY <1>2, <1>5 DEF Types
<1>8. Entries' /\ Settled'
    BY <1>2 DEF Entries, EntryOK, Settled
<1>9. Calls'
    BY <1>2, <1>3, <1>4, <1>5, Zenon DEF Types, Calls, Working
<1>10. Apart' /\ Guards'
    BY <1>2, <1>3, <1>4, <1>5, <1>6 DEF Types, Apart, Guards, Working
<1>11. ASSUME NEW q \in SocketIds
       PROVE  ByEntry(q)' = ByEntry(q) /\ ByCall(q)' = ByCall(q) /\ ByDone(q)' = ByDone(q)
    BY <1>2, <1>4, <1>5 DEF ByEntry, ByCall, ByDone
<1>12. Reservations'
    BY <1>2, <1>11, HoldersSame
<1> QED BY <1>7, <1>8, <1>9, <1>10, <1>12, Zenon

\* A thread that holds nothing gets or ends a packet.
LEMMA RecvInv ==
    ASSUME NEW t \in Threads, CtxInv, Recv(t)
    PROVE  CtxInv'
<1> USE Absent DEF CtxInv
<1>1. PICK no \in Nos, s \in 1 .. Segs :
          th' = [th EXCEPT ![t] = [Idle EXCEPT !.pc = "entry", !.no = no, !.seg = s]]
    BY Zenon DEF Recv
<1>2. th[t].pc = "idle" /\ UNCHANGED <<sockets, table, guard, processed, complete>>
    BY DEF Recv
<1> DEFINE r == [Idle EXCEPT !.pc = "entry", !.no = no, !.seg = s]
<1>3. r \in CallType /\ r.pc = "entry" /\ r.sock = NoSocket /\ r.no = no /\ r.seg = s
    <2>1. s \in Nat
        OBVIOUS
    <2> QED BY <2>1, Zenon DEF Idle, CallType, PCs
<1> HIDE DEF r
<1>4. /\ th' \in [Threads -> CallType] /\ th'[t] = r
      /\ \A u \in Threads : u # t => th'[u] = th[u]
    <2>1. th' = [th EXCEPT ![t] = r]
        BY <1>1 DEF r
    <2> QED BY <2>1, <1>3, Moved, Zenon
<1>5. Types'
    BY <1>2, <1>4, Zenon DEF Types
<1>6. Entries' /\ Settled'
    BY <1>2 DEF Entries, EntryOK, Settled
<1>7. Calls'
    BY <1>2, <1>3, <1>4, ZenonT(30) DEF Types, Calls, Working
<1>8. Apart' /\ Guards'
    BY <1>2, <1>3, <1>4 DEF Types, Apart, Guards, Working
<1>9. ASSUME NEW q \in SocketIds
      PROVE  ByEntry(q)' = ByEntry(q) /\ ByCall(q)' = ByCall(q) /\ ByDone(q)' = ByDone(q)
    BY <1>2, <1>3, <1>4, Zenon DEF ByEntry, ByCall, ByDone
<1>10. Reservations'
    BY <1>2, <1>9, HoldersSame
<1> QED BY <1>5, <1>6, <1>7, <1>8, <1>10

\* A fragment whose number is not accepted keeps the invariant.
LEMMA IgnoreInv ==
    ASSUME NEW t \in Threads, CtxInv, Ignore(t)
    PROVE  CtxInv'
<1> USE Absent, Constants, NumberParts DEF CtxInv
<1>1. /\ th[t].pc = "entry" /\ th' = [th EXCEPT ![t] = Idle]
      /\ UNCHANGED <<sockets, table, guard, processed, complete>>
    BY DEF Ignore, AtEntry
<1>2. /\ th' \in [Threads -> CallType] /\ th'[t] = Idle
      /\ \A u \in Threads : u # t => th'[u] = th[u]
    BY <1>1, Moved, Zenon
<1>3. Types'
    BY <1>1, <1>2 DEF Types
<1>4. Entries' /\ Settled'
    BY <1>1, Zenon DEF Entries, EntryOK, Settled
<1>5. Calls'
    BY <1>1, <1>2, ZenonT(30) DEF Types, Calls, Working
<1>6. Apart' /\ Guards'
    BY <1>1, <1>2, ZenonT(30) DEF Types, Apart, Guards, Working
<1>7. ASSUME NEW q \in SocketIds
      PROVE  ByEntry(q)' = ByEntry(q) /\ ByCall(q)' = ByCall(q) /\ ByDone(q)' = ByDone(q)
    BY <1>1, <1>2 DEF ByEntry, ByCall, ByDone
<1>8. Reservations'
    BY <1>1, <1>7, HoldersSame
<1> QED BY <1>3, <1>4, <1>5, <1>6, <1>8, Zenon

\* An initial message that process_initialize refuses, or cannot answer, keeps the invariant:
\* the id that was reserved for it is free again.
LEMMA RejectInitInv ==
    ASSUME NEW t \in Threads, CtxInv, RejectInit(t)
    PROVE  CtxInv'
<1> USE Absent, Constants, NumberParts DEF CtxInv
<1>0. PICK s : s = th[t].sock
    OBVIOUS
<1>1. /\ th[t].pc \in {"payload", "cancel"} /\ th' = [th EXCEPT ![t] = Idle] /\ guard' = Release(t)
      /\ sockets' = sockets \ {s} /\ UNCHANGED <<table, processed, complete>>
    BY <1>0 DEF RejectInit
<1>2. /\ th' \in [Threads -> CallType] /\ th'[t] = Idle
      /\ \A u \in Threads : u # t => th'[u] = th[u]
    BY <1>1, Moved, Zenon
<1>3. /\ guard' \in [Shards -> Threads \cup {NoThread}]
      /\ \A d \in Shards : guard'[d] = NoThread \/ (guard'[d] = guard[d] /\ guard[d] # t)
    BY <1>1, Zenon DEF Release, Types
<1>4. Types'
    BY <1>1, <1>2, <1>3, Zenon DEF Types
<1>5. Entries' /\ Settled'
    BY <1>1, Zenon DEF Entries, EntryOK, Settled
<1>6. Calls'
    BY <1>1, <1>2, Zenon DEF Types, Calls, Working
<1>7. Apart'
    BY <1>1, <1>2, ZenonT(30) DEF Types, Apart, Working
<1>8. Guards'
    BY <1>1, <1>2, <1>3 DEF Types, Guards, Working
<1>9. ASSUME NEW q \in SocketIds
      PROVE  /\ ByEntry(q)' = ByEntry(q) /\ ByDone(q)' = ByDone(q)
             /\ q # s => ByCall(q)' = ByCall(q)
    <2>1. ByEntry(q)' = ByEntry(q) /\ ByDone(q)' = ByDone(q)
        BY <1>1, Zenon DEF ByEntry, ByDone
    <2>2. ASSUME q # s
          PROVE  ByCall(q)' = ByCall(q)
        <3>1. \A u \in Threads :
                  th'[u].pc \in {"insert", "cancel"} /\ th'[u].sock = q
                      <=> th[u].pc \in {"insert", "cancel"} /\ th[u].sock = q
            <4>1. ~ (th'[t].pc \in {"insert", "cancel"})
                BY <1>2 DEF Idle
            <4> QED BY <1>0, <1>2, <2>2, <4>1, Zenon
        <3> QED BY <3>1, Zenon DEF ByCall
    <2> QED BY <2>1, <2>2, Zenon
<1>10. Reservations'
    <2>1. CASE th[t].pc = "payload"
        <3>1. s \notin SocketIds
            BY <1>0, <2>1, Zenon DEF Calls
        <3>2. \A q \in SocketIds : q # s
            BY <3>1, Zenon
        <3>3. \A q \in SocketIds : q \in sockets' <=> q \in sockets
            BY <1>1, <3>2, Zenon
        <3>4. \A q \in SocketIds : ByEntry(q)' = ByEntry(q) /\ ByDone(q)' = ByDone(q) /\ ByCall(q)' = ByCall(q)
            BY <1>9, <3>2, Zenon
        <3> QED BY <3>3, <3>4, HoldersMoved, Zenon
    <2>2. CASE th[t].pc = "cancel"
        <3>1. s \in SocketIds /\ t \in ByCall(s)
            BY <1>0, <2>2, Zenon DEF Calls, ByCall
        <3>2. ByCall(s) = {t} /\ ByEntry(s) = {} /\ ByDone(s) = {}
            <4>1. Held(s \in sockets, ByEntry(s), ByCall(s), ByDone(s))
                BY <3>1, Zenon DEF Reservations
            <4> QED BY <3>1, <4>1 DEF Held, AtMostOne
        <3>3. ByCall(s)' = {}
            <4>1. ASSUME NEW u \in Threads, th'[u].pc \in {"insert", "cancel"}, th'[u].sock = s
                  PROVE  FALSE
                <5>1. u # t
                    BY <1>2, <4>1 DEF Idle
                <5>2. u \in ByCall(s)
                    BY <1>2, <4>1, <5>1, Zenon DEF ByCall
                <5> QED BY <3>2, <5>1, <5>2, Zenon
            <4> QED BY <4>1, Zenon DEF ByCall
        <3>4. s \notin sockets' /\ \A q \in SocketIds : q # s => (q \in sockets' <=> q \in sockets)
            BY <1>1, Zenon
        <3>5. \A q \in SocketIds : q = s => Held(q \in sockets', ByEntry(q)', ByCall(q)', ByDone(q)')
            BY <1>9, <3>2, <3>3, <3>4, Zenon DEF Held, AtMostOne
        <3> QED BY <1>9, <3>4, <3>5, HoldersMoved, Zenon
    <2> QED BY <1>1, <2>1, <2>2, Zenon
<1> QED BY <1>4, <1>5, <1>6, <1>7, <1>8, <1>10, Zenon

\* The thread's id goes into the entry of the reply number, which nobody else uses.
LEMMA PutInitInv ==
    ASSUME NEW t \in Threads, CtxInv, PutInit(t)
    PROVE  CtxInv'
<1> USE Absent, Constants, NumberParts DEF CtxInv
<1> DEFINE no == th[t].no
           s == th[t].sock
           e == Sent("init", s)
<1>1. /\ th[t].pc = "insert" /\ no[2] = 1 /\ th' = [th EXCEPT ![t] = Idle]
      /\ table' = [table EXCEPT ![no] = e]
      /\ UNCHANGED <<sockets, guard, processed, complete>>
    BY DEF PutInit
<1>2. no \in Nos /\ s \in SocketIds /\ Working(t)
    BY <1>1, Zenon DEF Calls, Working
<1>3. e \in EntryType /\ e.kind = "init" /\ e.sock = s /\ e.got = {}
    BY <1>2, Zenon DEF Sent, EntryType, Kinds
<1>4. table[no] = Vacant /\ \A u \in Threads : u # t => ~(Working(u) /\ th[u].no = no)
    BY <1>1, <1>2 DEF Apart
<1> HIDE DEF e, no, s
<1>5. /\ th' \in [Threads -> CallType] /\ th'[t] = Idle
      /\ \A u \in Threads : u # t => th'[u] = th[u]
    BY <1>1, Moved, Zenon
<1>6. /\ table' \in [Nos -> EntryType] /\ table'[no] = e
      /\ \A n \in Nos : n # no => table'[n] = table[n]
    BY <1>1, <1>2, <1>3, Entered, Zenon
<1>7. Types'
    BY <1>1, <1>5, <1>6 DEF Types
<1>8. Entries'
    BY <1>1, <1>2, <1>3, <1>6, Zenon DEF Types, Entries, EntryOK
<1>9. Calls'
    BY <1>1, <1>5, Zenon DEF Types, Calls, Working
<1>10. Settled'
    BY <1>1, <1>2, <1>4, <1>6, Zenon DEF Types, Settled
<1>11. Apart'
    <2>1. \A n \in Nos : table[ConfirmNo(n)] = Vacant => table'[ConfirmNo(n)] = Vacant
        BY <1>1, <1>6
    <2>2. \A u \in Threads : Working(u)' => u # t /\ Working(u) /\ th'[u].no = th[u].no
        BY <1>5 DEF Working
    <2>3. \A u \in Threads : Working(u)' => th[u].no \in Nos
        BY <2>2, Zenon DEF Calls
    <2> QED BY <1>1, <1>4, <1>6, <2>1, <2>2, <2>3 DEF Apart
<1>12. Guards'
    BY <1>1, <1>5 DEF Types, Guards, Working, no
<1>13. ByCall(s) = {t} /\ ByEntry(s) = {} /\ ByDone(s) = {} /\ s \in sockets
    <2>1. t \in ByCall(s)
        BY <1>1, Zenon DEF ByCall, s
    <2> QED BY <1>2, <2>1 DEF Reservations, Held, AtMostOne
<1>14. ASSUME NEW q \in SocketIds
       PROVE  /\ ByEntry(q)' = IF q = s THEN {no} ELSE ByEntry(q)
              /\ ByCall(q)' = IF q = s THEN {} ELSE ByCall(q)
              /\ ByDone(q)' = ByDone(q)
    <2>1. ByEntry(q)' = IF q = s THEN {no} ELSE ByEntry(q)
        BY <1>2, <1>3, <1>4, <1>6, <1>13 DEF ByEntry
    <2>2. ByCall(q)' = IF q = s THEN {} ELSE ByCall(q)
        BY <1>1, <1>5, <1>13 DEF ByCall, s
    <2> QED BY <1>1, <2>1, <2>2, Zenon DEF ByDone
<1>15. Reservations'
    <2>1. \A p \in SocketIds : p = s => Held(p \in sockets', ByEntry(p)', ByCall(p)', ByDone(p)')
        BY <1>1, <1>13, <1>14, Zenon DEF Held, AtMostOne
    <2> QED BY <1>1, <1>14, <2>1, HoldersMoved, Zenon
<1> QED BY <1>7, <1>8, <1>9, <1>10, <1>11, <1>12, <1>15, Zenon

\* Likewise with the confirm number; the collision is excluded by Apart.
LEMMA PutReplyInv ==
    ASSUME NEW t \in Threads, CtxInv, PutReply(t)
    PROVE  CtxInv'
<1> USE Absent, Constants, NumberParts DEF CtxInv
<1> DEFINE no == ConfirmNo(th[t].no)
           s == th[t].sock
           e == Sent("resp", s)
<1>1. th[t].pc = "insert" /\ th[t].no[2] = 0 /\ th' = [th EXCEPT ![t] = Idle]
    BY Zenon DEF PutReply
<1>2. /\ th[t].no \in Nos /\ no \in Nos /\ no[2] = 2 /\ s \in SocketIds /\ Working(t)
      /\ table[no] = Vacant /\ processed[th[t].no] = 1
    BY <1>1, Zenon DEF Calls, Working, Apart
<1>3. /\ table' = [table EXCEPT ![no] = e] /\ guard' = Release(t)
      /\ UNCHANGED <<sockets, processed, complete>>
    BY <1>2, Zenon DEF PutReply
<1>4. e \in EntryType /\ e.kind = "resp" /\ e.sock = s /\ e.got = {}
    BY <1>2, Zenon DEF Sent, EntryType, Kinds
<1>5. \A n \in Nos : n[2] = 0 /\ ConfirmNo(n) = no => n = th[t].no
    BY <1>1, <1>2, ConfirmInjective, ZenonT(30)
<1>6. \A u \in Threads : u # t => ~(Working(u) /\ th[u].no = th[t].no)
    BY <1>2 DEF Apart
<1> HIDE DEF e, no, s
<1>7. /\ th' \in [Threads -> CallType] /\ th'[t] = Idle
      /\ \A u \in Threads : u # t => th'[u] = th[u]
    BY <1>1, Moved, Zenon
<1>8. /\ table' \in [Nos -> EntryType] /\ table'[no] = e
      /\ \A n \in Nos : n # no => table'[n] = table[n]
    BY <1>2, <1>3, <1>4, Entered, Zenon
<1>9. /\ guard' \in [Shards -> Threads \cup {NoThread}]
      /\ \A d \in Shards : guard'[d] = NoThread \/ (guard'[d] = guard[d] /\ guard[d] # t)
    BY <1>3, Zenon DEF Release, Types
<1>10. Types'
    BY <1>3, <1>7, <1>8, <1>9, Zenon DEF Types
<1>11. Entries'
    <2>1. \A n \in Nos : n = no => EntryOK(n)'
        BY <1>2, <1>4, <1>8, Zenon DEF EntryOK
    <2>2. \A n \in Nos : n # no => EntryOK(n)'
        BY <1>8, ZenonT(30) DEF Entries, EntryOK
    <2> QED BY <2>1, <2>2 DEF Entries
<1>12. Calls'
    BY <1>1, <1>7, Zenon DEF Types, Calls, Working
<1>13. Settled'
    BY <1>2, <1>3, <1>8 DEF Types, Settled
<1>14. Apart'
    <2>1. \A u \in Threads : Working(u)' =>
              /\ u # t /\ Working(u) /\ th'[u].no = th[u].no
              /\ th[u].no \in Nos /\ th[u].no # th[t].no
        BY <1>6, <1>7, Zenon DEF Working, Calls
    <2>2. \A n \in Nos : n[2] = 1 /\ table[n] = Vacant => table'[n] = Vacant
        BY <1>2, <1>8
    <2>3. \A n \in Nos : n[2] = 0 /\ n # th[t].no => table'[ConfirmNo(n)] = table[ConfirmNo(n)]
        BY <1>5, <1>8, Zenon
    <2>4. \A u \in Threads : Working(u)' =>
              /\ th'[u].no[2] = 1 => table'[th'[u].no] = Vacant
              /\ th'[u].no[2] = 0 => processed'[th'[u].no] = 1 /\ table'[ConfirmNo(th'[u].no)] = Vacant
        <3> SUFFICES ASSUME NEW u \in Threads, Working(u)'
                     PROVE  /\ th[u].no[2] = 1 => table'[th[u].no] = Vacant
                            /\ th[u].no[2] = 0 =>
                                   processed'[th[u].no] = 1 /\ table'[ConfirmNo(th[u].no)] = Vacant
            BY <2>1, Zenon
        <3>1. /\ th[u].no[2] = 1 => table[th[u].no] = Vacant
              /\ th[u].no[2] = 0 => processed[th[u].no] = 1 /\ table[ConfirmNo(th[u].no)] = Vacant
            BY <2>1, Zenon DEF Apart
        <3> QED BY <1>3, <2>1, <2>2, <2>3, <3>1, Zenon
    <2>5. \A u, v \in Threads : Working(u)' /\ Working(v)' /\ th'[u].no = th'[v].no => u = v
        BY <2>1, Zenon DEF Apart
    <2>6. \A n \in Nos : n[2] = 0 /\ processed'[n] = 0 => table'[ConfirmNo(n)] = Vacant
        <3>1. \A n \in Nos : processed'[n] = 0 => n # th[t].no /\ processed[n] = 0
            BY <1>2, <1>3
        <3> QED BY <2>3, <3>1, Zenon DEF Apart
    <2> QED BY <2>4, <2>5, <2>6, Zenon DEF Apart
<1>15. Guards'
    BY <1>1, <1>7, <1>9 DEF Types, Guards, Working
<1>16. ByCall(s) = {t} /\ ByEntry(s) = {} /\ ByDone(s) = {} /\ s \in sockets
    <2>1. t \in ByCall(s)
        BY <1>1 DEF ByCall, s
    <2> QED BY <1>2, <2>1, ZenonT(30) DEF Reservations, Held, AtMostOne
<1>17. ASSUME NEW q \in SocketIds
       PROVE  /\ ByEntry(q)' = IF q = s THEN {no} ELSE ByEntry(q)
              /\ ByCall(q)' = IF q = s THEN {} ELSE ByCall(q)
              /\ ByDone(q)' = ByDone(q)
    <2>1. ByEntry(q)' = IF q = s THEN {no} ELSE ByEntry(q)
        BY <1>2, <1>4, <1>8, <1>16 DEF ByEntry
    <2>2. ByCall(q)' = IF q = s THEN {} ELSE ByCall(q)
        BY <1>1, <1>7, <1>16 DEF ByCall, s
    <2> QED BY <1>3, <2>1, <2>2 DEF ByDone
<1>18. Reservations'
    <2>1. \A p \in SocketIds : p = s => Held(p \in sockets', ByEntry(p)', ByCall(p)', ByDone(p)')
        BY <1>3, <1>16, <1>17, Zenon DEF Held, AtMostOne
    <2> QED BY <1>3, <1>17, <2>1, HoldersMoved, Zenon
<1> QED BY <1>10, <1>11, <1>12, <1>13, <1>14, <1>15, <1>18

\* Collecting one fragment of a message keeps the invariant.
LEMMA CollectInv ==
    ASSUME NEW t \in Threads, CtxInv, Collect(t)
    PROVE  CtxInv'
<1> USE Absent, Constants, NumberParts DEF CtxInv
<1> DEFINE no == th[t].no
           e == [table[no] EXCEPT !.got = Got(t), !.kind = IF @ = "vacant" THEN "recv" ELSE @]
<1>1. /\ th[t].pc = "entry" /\ th' = [th EXCEPT ![t] = Idle]
      /\ Accepts(no) /\ Got(t) # 1 .. Segs
      /\ UNCHANGED <<sockets, guard, processed, complete>>
    BY Zenon DEF Collect, AtEntry
<1>2. no \in Nos /\ th[t].seg \in 1 .. Segs /\ table[no] \in EntryType
    BY <1>1 DEF Calls, Types
<1>3. table' = [table EXCEPT ![no] = e]
    BY <1>2, Zenon DEF Collect, Types
<1>4. /\ e \in EntryType /\ e.sock = table[no].sock /\ e.got # 1 .. Segs
      /\ e.kind = IF table[no].kind = "vacant" THEN "recv" ELSE table[no].kind
    BY <1>1, <1>2, ZenonT(30) DEF Got, EntryType, Kinds
<1>5. table[no].kind = "vacant" => no[2] = 0
    BY <1>1, Zenon DEF Accepts
<1>6. table[no].kind # "cooldown"
    BY <1>1 DEF Accepts
<1> HIDE DEF e, no
<1>7. /\ th' \in [Threads -> CallType] /\ th'[t] = Idle
      /\ \A u \in Threads : u # t => th'[u] = th[u]
    BY <1>1, Moved, Zenon
<1>8. /\ table' \in [Nos -> EntryType] /\ table'[no] = e
      /\ \A n \in Nos : n # no => table'[n] = table[n]
    BY <1>2, <1>3, <1>4, Entered, Zenon
<1>9. Types'
    BY <1>1, <1>7, <1>8, Zenon DEF Types
<1>10. Entries'
    BY <1>2, <1>4, <1>5, <1>8 DEF Entries, EntryOK
<1>11. Calls'
    BY <1>1, <1>7, ZenonT(30) DEF Types, Calls, Working
<1>12. Settled'
    BY <1>1, <1>2, <1>6, <1>8, ZenonT(30) DEF Types, Settled
<1>13. Apart'
    <2>1. \A u \in Threads : Working(u)' =>
              u # t /\ Working(u) /\ th'[u].no = th[u].no /\ th[u].no \in Nos
        BY <1>7, Zenon DEF Working, Calls
    <2>2. \A n \in Nos : n[2] # 0 /\ table[n] = Vacant => table'[n] = Vacant
        BY <1>2, <1>5, <1>8, Zenon
    <2> QED BY <1>1, <2>1, <2>2 DEF Apart, Working
<1>14. Guards'
    BY <1>1, <1>7, Zenon DEF Types, Guards, Working
<1>15. ASSUME NEW q \in SocketIds
       PROVE  ByEntry(q)' = ByEntry(q) /\ ByCall(q)' = ByCall(q) /\ ByDone(q)' = ByDone(q)
    BY <1>1, <1>2, <1>4, <1>7, <1>8 DEF ByEntry, ByCall, ByDone
<1>16. Reservations'
    BY <1>1, <1>15, HoldersSame, Zenon
<1> QED BY <1>9, <1>10, <1>11, <1>12, <1>13, <1>14, <1>16

\* A whole message: its number was not processed, and its entry is put on cooldown.
LEMMA WholeFacts ==
    ASSUME NEW t \in Threads, CtxInv, Whole(t)
    PROVE  LET no == th[t].no IN
           /\ no \in Nos /\ th[t].pc = "entry" /\ processed[no] = 0
           /\ table[no].kind \in {"recv", "init", "resp", "vacant"}
           /\ table[no].kind = "vacant" => no[2] = 0
           /\ guard[ShardOf[no]] = NoThread
           /\ table' \in [Nos -> EntryType] /\ table'[no] = CoolDown
           /\ \A n \in Nos : n # no => table'[n] = table[n]
           /\ processed' \in [Nos -> Nat] /\ processed'[no] = 1
           /\ \A n \in Nos : n # no => processed'[n] = processed[n]
<1> USE Absent, Constants, NumberParts DEF CtxInv
<1> DEFINE no == th[t].no
<1>1. /\ th[t].pc = "entry" /\ guard[ShardOf[no]] = NoThread /\ Accepts(no)
      /\ table' = [table EXCEPT ![no] = AfterMessage(@)]
      /\ processed' = [processed EXCEPT ![no] = @ + 1]
    BY Zenon DEF Whole, AtEntry
<1>2. no \in Nos
    BY <1>1, Zenon DEF Calls
<1>3. /\ table[no].kind \in {"recv", "init", "resp", "vacant"}
      /\ table[no].kind = "vacant" => no[2] = 0
    BY <1>1, Zenon DEF Accepts
<1>4. processed[no] = 0
    BY <1>2, <1>3, Zenon DEF Settled
<1>5. table' = [table EXCEPT ![no] = CoolDown]
    BY <1>1, <1>2 DEF AfterMessage, Types
<1> HIDE DEF no
<1>6. /\ table' \in [Nos -> EntryType] /\ table'[no] = CoolDown
      /\ \A n \in Nos : n # no => table'[n] = table[n]
    BY <1>2, <1>5, Entered, Zenon
<1>7. /\ processed' \in [Nos -> Nat] /\ processed'[no] = 1
      /\ \A n \in Nos : n # no => processed'[n] = processed[n]
    BY <1>1, <1>2, <1>4 DEF Types
<1> QED BY <1>1, <1>2, <1>3, <1>4, <1>6, <1>7, Zenon DEF no

\* What the three ends of a whole message have in common.
LEMMA WholeInv ==
    ASSUME NEW t \in Threads, CtxInv, Whole(t)
    PROVE  /\ Entries' /\ Settled'
           /\ \A n \in Nos : n # th[t].no /\ table[n] = Vacant => table'[n] = Vacant
           /\ \A n \in Nos : n[2] # 0 /\ table[n] = Vacant => table'[n] = Vacant
           /\ \A n \in Nos : n[2] = 0 /\ processed'[n] = 0 => table'[ConfirmNo(n)] = Vacant
           /\ \A u \in Threads : Working(u) => th[u].no # th[t].no
<1> USE Absent, Constants, NumberParts DEF CtxInv
<1>1. Entries'
    <2>1. \A n \in Nos : n = th[t].no => EntryOK(n)'
        <3>1. table'[th[t].no] = CoolDown
            BY WholeFacts, Zenon
        <3> QED BY <3>1, Zenon DEF EntryOK
    <2>2. \A n \in Nos : n # th[t].no => EntryOK(n)'
        BY WholeFacts DEF Entries, EntryOK
    <2> QED BY <2>1, <2>2 DEF Entries
<1>2. Settled'
    BY WholeFacts DEF Settled
<1>3. \A n \in Nos : n[2] # 0 /\ table[n] = Vacant => table'[n] = Vacant
    BY WholeFacts, Zenon
<1>4. \A n \in Nos : n[2] = 0 /\ processed'[n] = 0 => table'[ConfirmNo(n)] = Vacant
    <2> SUFFICES ASSUME NEW n \in Nos, n[2] = 0, processed'[n] = 0
                 PROVE  table'[ConfirmNo(n)] = Vacant
        BY Zenon
    <2>1. processed[n] = 0
        BY WholeFacts, Zenon
    <2>2. table[ConfirmNo(n)] = Vacant
        BY <2>1, Zenon DEF Apart
    <2> QED BY <1>3, <2>2
<1>5. \A u \in Threads : Working(u) => th[u].no # th[t].no
    <2> SUFFICES ASSUME NEW u \in Threads, Working(u), th[u].no = th[t].no
                 PROVE  FALSE
        OBVIOUS
    <2>1. /\ th[t].no[2] = 1 => table[th[t].no] = Vacant
          /\ th[t].no[2] = 0 => processed[th[t].no] = 1
          /\ th[t].no[2] \in {0, 1}
        BY Zenon DEF Apart, Calls
    <2>2. /\ processed[th[t].no] = 0
          /\ table[th[t].no].kind = "vacant" => th[t].no[2] = 0
        BY WholeFacts, Zenon
    <2> QED BY <2>1, <2>2
<1>6. \A n \in Nos : n # th[t].no /\ table[n] = Vacant => table'[n] = Vacant
    BY WholeFacts
<1> QED BY <1>1, <1>2, <1>3, <1>4, <1>5, <1>6, Zenon

\* The end of a reply or a confirmation: the id of its entry loses its holder.
LEMMA WholeEnded ==
    ASSUME NEW t \in Threads, CtxInv, Whole(t), th[t].no[2] # 0,
           th' = [th EXCEPT ![t] = Idle], UNCHANGED guard
    PROVE  LET q == table[th[t].no].sock IN
           /\ th' \in [Threads -> CallType] /\ Calls' /\ Apart' /\ Guards'
           /\ q \in sockets /\ q \in SocketIds
           /\ ByEntry(q) # {} /\ ByCall(q) = {} /\ ByDone(q) = {}
           /\ \A p \in SocketIds : /\ ByEntry(p)' = IF p = q THEN {} ELSE ByEntry(p)
                                   /\ ByCall(p)' = ByCall(p)
<1> USE Absent, Constants, NumberParts DEF CtxInv
<1> DEFINE no == th[t].no
           q == table[no].sock
<1>1. no \in Nos /\ th[t].pc = "entry" /\ q \in SocketIds
    BY WholeFacts, Zenon DEF Entries, EntryOK
<1>2. no \in ByEntry(q)
    BY <1>1, Zenon DEF ByEntry
<1>3. ByCall(q) = {} /\ ByDone(q) = {} /\ q \in sockets /\ ByEntry(q) = {no}
    BY <1>1, <1>2 DEF Reservations, Held, AtMostOne
<1>4. /\ table'[no] = CoolDown
      /\ \A n \in Nos : n # no => table'[n] = table[n]
    BY WholeFacts, Zenon
<1>5. processed' \in [Nos -> Nat] /\ \A n \in Nos : n # no => processed'[n] = processed[n]
    BY WholeFacts, Zenon
<1> HIDE DEF no, q
<1>6. /\ th' \in [Threads -> CallType] /\ th'[t] = Idle
      /\ \A u \in Threads : u # t => th'[u] = th[u]
    BY Moved, Zenon
<1>7. Calls'
    BY <1>1, <1>6, Zenon DEF Types, Calls, Working
<1>8. Guards'
    BY <1>1, <1>6 DEF Types, Guards, Working
<1>9. Apart'
    <2>1. \A u \in Threads : Working(u)' =>
              /\ u # t /\ Working(u) /\ th'[u].no = th[u].no
              /\ th[u].no \in Nos /\ th[u].no # no
        BY <1>6, WholeInv, ZenonT(30) DEF Working, Calls, no
    <2>2. /\ \A n \in Nos : n[2] # 0 /\ table[n] = Vacant => table'[n] = Vacant
          /\ \A n \in Nos : n[2] = 0 /\ processed'[n] = 0 => table'[ConfirmNo(n)] = Vacant
        BY WholeInv, Zenon
    <2>3. \A u \in Threads : Working(u)' =>
              /\ th'[u].no[2] = 1 => table'[th'[u].no] = Vacant
              /\ th'[u].no[2] = 0 => processed'[th'[u].no] = 1 /\ table'[ConfirmNo(th'[u].no)] = Vacant
        BY <1>5, <2>1, <2>2 DEF Apart
    <2>4. \A u, v \in Threads : Working(u)' /\ Working(v)' /\ th'[u].no = th'[v].no => u = v
        BY <2>1 DEF Apart
    <2> QED BY <2>2, <2>3, <2>4, Zenon DEF Apart
<1>10. ASSUME NEW p \in SocketIds
       PROVE  ByEntry(p)' = (IF p = q THEN {} ELSE ByEntry(p)) /\ ByCall(p)' = ByCall(p)
    <2>1. ByEntry(p)' = (IF p = q THEN {} ELSE ByEntry(p))
        BY <1>1, <1>3, <1>4 DEF ByEntry, q
    <2>2. ByCall(p)' = ByCall(p)
        BY <1>1, <1>6, Zenon DEF ByCall
    <2> QED BY <2>1, <2>2
<1> QED BY <1>1, <1>2, <1>3, <1>6, <1>7, <1>8, <1>9, <1>10, Zenon DEF no, q

\* A reply or confirm message that succeeds turns the call into a completed handshake with its socket id.
LEMMA FinishInv ==
    ASSUME NEW t \in Threads, CtxInv, Finish(t)
    PROVE  CtxInv'
<1> DEFINE no == th[t].no
           q == table[no].sock
<1>1. /\ Whole(t) /\ no[2] # 0 /\ th' = [th EXCEPT ![t] = Idle]
      /\ complete' = complete \cup {<<no, q>>} /\ UNCHANGED <<sockets, guard>>
    BY DEF Finish
<1>2. /\ th' \in [Threads -> CallType] /\ Calls' /\ Apart' /\ Guards'
      /\ q \in sockets /\ q \in SocketIds
      /\ ByEntry(q) # {} /\ ByCall(q) = {} /\ ByDone(q) = {}
      /\ \A p \in SocketIds : /\ ByEntry(p)' = IF p = q THEN {} ELSE ByEntry(p)
                              /\ ByCall(p)' = ByCall(p)
    BY <1>1, WholeEnded, Zenon
<1>3. Entries' /\ Settled'
    BY <1>1, WholeInv, Zenon
<1>4. no \in Nos /\ table' \in [Nos -> EntryType] /\ processed' \in [Nos -> Nat]
    BY <1>1, WholeFacts, Zenon
<1> HIDE DEF no, q
<1>5. Types'
    BY <1>1, <1>2, <1>4 DEF CtxInv, Types
<1>6. ASSUME NEW p \in SocketIds
      PROVE  ByDone(p)' = IF p = q THEN {<<no, q>>} ELSE ByDone(p)
    BY <1>1, <1>2 DEF ByDone
<1>7. Reservations'
    <2>1. \A p \in SocketIds : p = q =>
              ByEntry(p)' = {} /\ ByCall(p)' = {} /\ ByDone(p)' = {<<no, q>>} /\ p \in sockets'
        BY <1>1, <1>2, <1>6, Zenon
    <2>2. \A p \in SocketIds : p # q =>
              ByEntry(p)' = ByEntry(p) /\ ByCall(p)' = ByCall(p) /\ ByDone(p)' = ByDone(p)
        BY <1>2, <1>6
    <2>3. \A p \in SocketIds : p = q => Held(p \in sockets', ByEntry(p)', ByCall(p)', ByDone(p)')
        BY <2>1, Zenon DEF Held, AtMostOne
    <2> QED BY <1>1, <2>2, <2>3, HoldersMoved, Zenon
<1> QED BY <1>2, <1>3, <1>5, <1>7, Zenon DEF CtxInv

\* A reply or confirm message that fails gives the socket id back and keeps the invariant.
LEMMA FailInv ==
    ASSUME NEW t \in Threads, CtxInv, Fail(t)
    PROVE  CtxInv'
<1> DEFINE q == table[th[t].no].sock
<1>1. /\ Whole(t) /\ th[t].no[2] # 0 /\ th' = [th EXCEPT ![t] = Idle]
      /\ sockets' = sockets \ {q} /\ UNCHANGED <<complete, guard>>
    BY DEF Fail
<1>2. /\ th' \in [Threads -> CallType] /\ Calls' /\ Apart' /\ Guards'
      /\ q \in sockets /\ q \in SocketIds
      /\ ByEntry(q) # {} /\ ByCall(q) = {} /\ ByDone(q) = {}
      /\ \A p \in SocketIds : /\ ByEntry(p)' = IF p = q THEN {} ELSE ByEntry(p)
                              /\ ByCall(p)' = ByCall(p)
    BY <1>1, WholeEnded, Zenon
<1>3. Entries' /\ Settled'
    BY <1>1, WholeInv, Zenon
<1>4. table' \in [Nos -> EntryType] /\ processed' \in [Nos -> Nat]
    BY <1>1, WholeFacts, Zenon
<1> HIDE DEF q
<1>5. Types'
    BY <1>1, <1>2, <1>4, Zenon DEF CtxInv, Types
<1>6. \A p \in SocketIds : ByDone(p)' = ByDone(p)
    BY <1>1, Zenon DEF ByDone
<1>7. Reservations'
    <2>1. \A p \in SocketIds : p = q => Held(p \in sockets', ByEntry(p)', ByCall(p)', ByDone(p)')
        BY <1>1, <1>2, <1>6, Zenon DEF Held, AtMostOne
    <2>2. \A p \in SocketIds : p # q => (p \in sockets' <=> p \in sockets)
        BY <1>1, Zenon
    <2> QED BY <1>2, <1>6, <2>1, <2>2, HoldersMoved, Zenon
<1> QED BY <1>2, <1>3, <1>5, <1>7 DEF CtxInv

\* The initial message is whole: the thread may keep its entry and is to answer it.
LEMMA InitWholeInv ==
    ASSUME NEW t \in Threads, CtxInv, InitWhole(t)
    PROVE  CtxInv'
<1> USE Absent DEF CtxInv
<1> DEFINE no == th[t].no
           r == [th[t] EXCEPT !.pc = "payload"]
<1>1. /\ Whole(t) /\ no[2] = 0 /\ UNCHANGED <<sockets, complete>>
      /\ guard' = IF HoldsGuard(table[no]) THEN [guard EXCEPT ![ShardOf[no]] = t] ELSE guard
    BY DEF InitWhole
<1>2. th[t] \in CallType /\ th' = [th EXCEPT ![t] = r]
    BY Zenon DEF InitWhole, Types
<1>3. no \in Nos /\ th[t].pc = "entry" /\ table[no].sock = NoSocket
    <2>1. no \in Nos /\ th[t].pc = "entry"
        BY <1>1, WholeFacts, Zenon
    <2>2. table[no].kind \notin {"init", "resp"}
        BY <1>1, <2>1 DEF Entries, EntryOK
    <2>3. table[no].sock \notin SocketIds /\ table[no] \in EntryType
        BY <2>1, <2>2 DEF Entries, EntryOK, Types
    <2>4. table[no].sock \in SocketIds \cup {NoSocket}
        BY <2>3 DEF EntryType
    <2> QED BY <2>1, <2>3, <2>4, Zenon
<1>4. r \in CallType /\ r.pc = "payload" /\ r.sock = th[t].sock /\ r.no = no
    BY <1>2 DEF CallType, PCs
<1>5. th[t].sock = NoSocket
    <2>1. th[t].sock \in SocketIds \cup {NoSocket}
        BY <1>2 DEF CallType
    <2> QED BY <1>3, <2>1 DEF Calls
<1>6. /\ table' \in [Nos -> EntryType] /\ table'[no] = CoolDown
      /\ \A n \in Nos : n # no => table'[n] = table[n]
    BY <1>1, WholeFacts, Zenon
<1>7. /\ processed[no] = 0 /\ processed' \in [Nos -> Nat] /\ processed'[no] = 1
      /\ \A n \in Nos : n # no => processed'[n] = processed[n]
    BY <1>1, WholeFacts, Zenon
<1>8. guard[ShardOf[no]] = NoThread
    BY <1>1, WholeFacts, Zenon
<1>9. Entries' /\ Settled'
    BY <1>1, WholeInv, Zenon
<1>10. \A u \in Threads : Working(u) => th[u].no # no
    BY <1>1, WholeInv, Zenon
<1>11. /\ \A n \in Nos : n[2] # 0 /\ table[n] = Vacant => table'[n] = Vacant
       /\ \A n \in Nos : n[2] = 0 /\ processed'[n] = 0 => table'[ConfirmNo(n)] = Vacant
    BY <1>1, WholeInv, Zenon
<1>12. table'[ConfirmNo(no)] = Vacant
    <2>1. table[ConfirmNo(no)] = Vacant
        BY <1>1, <1>3, <1>7, Zenon DEF Apart
    <2> QED BY <1>3, <1>11, <2>1, NumberParts
<1> HIDE DEF no, r
<1>13. /\ th' \in [Threads -> CallType] /\ th'[t] = r
       /\ \A u \in Threads : u # t => th'[u] = th[u]
    BY <1>2, <1>4, Moved, Zenon
<1>14. /\ guard' \in [Shards -> Threads \cup {NoThread}]
       /\ \A d \in Shards : guard'[d] = guard[d] \/ (d = ShardOf[no] /\ guard'[d] = t)
    BY <1>1, <1>3, Zenon DEF Types
<1>15. Types'
    BY <1>1, <1>6, <1>7, <1>13, <1>14, Zenon DEF Types
<1>16. Calls'
    BY <1>1, <1>3, <1>4, <1>5, <1>13, Zenon DEF Types, Calls, Working
<1>17. Apart'
    <2>1. \A u \in Threads : Working(u)' /\ u # t =>
              /\ Working(u) /\ th'[u].no = th[u].no
              /\ th[u].no \in Nos /\ th[u].no # no
        BY <1>10, <1>13, Zenon DEF Working, Calls
    <2>2. \A u \in Threads : Working(u)' =>
              /\ th'[u].no[2] = 1 => table'[th'[u].no] = Vacant
              /\ th'[u].no[2] = 0 => processed'[th'[u].no] = 1 /\ table'[ConfirmNo(th'[u].no)] = Vacant
        <3>1. th'[t].no = no /\ no[2] = 0 /\ processed'[no] = 1
            BY <1>1, <1>4, <1>7, <1>13, Zenon
        <3>2. ASSUME NEW u \in Threads, u # t, Working(u)'
              PROVE  /\ th[u].no[2] = 1 => table'[th[u].no] = Vacant
                     /\ th[u].no[2] = 0 => processed'[th[u].no] = 1 /\ table'[ConfirmNo(th[u].no)] = Vacant
            <4>1. Working(u) /\ th[u].no \in Nos /\ th[u].no # no
                BY <2>1, <3>2, Zenon
            <4>2. /\ th[u].no[2] = 1 => table[th[u].no] = Vacant
                  /\ th[u].no[2] = 0 => processed[th[u].no] = 1 /\ table[ConfirmNo(th[u].no)] = Vacant
                BY <4>1, Zenon DEF Apart
            <4> QED BY <1>7, <1>11, <4>1, <4>2, NumberParts
        <3>3. ASSUME NEW u \in Threads, Working(u)'
              PROVE  /\ th'[u].no[2] = 1 => table'[th'[u].no] = Vacant
                     /\ th'[u].no[2] = 0 => processed'[th'[u].no] = 1 /\ table'[ConfirmNo(th'[u].no)] = Vacant
            <4>1. CASE u = t
                BY <1>12, <3>1, <4>1
            <4>2. CASE u # t
                <5>1. th'[u].no = th[u].no
                    BY <1>13, <4>2, Zenon
                <5> QED BY <3>2, <3>3, <4>2, <5>1, Zenon
            <4> QED BY <4>1, <4>2, Zenon
        <3> QED BY <3>3, Zenon
    <2>3. \A u, v \in Threads : Working(u)' /\ Working(v)' /\ th'[u].no = th'[v].no => u = v
        BY <1>4, <1>13, <2>1, ZenonT(30) DEF Apart
    <2> QED BY <1>11, <2>2, <2>3, Zenon DEF Apart
<1>18. Guards'
    <2>1. ASSUME NEW d \in Shards, guard'[d] \in Threads
          PROVE  Working(guard[d])' /\ th'[guard'[d]].no[2] = 0 /\ d = ShardOf[th'[guard'[d]].no]
        <3>1. CASE d = ShardOf[no] /\ guard'[d] = t
            BY <1>1, <1>4, <1>13, <3>1, Zenon DEF Working
        <3>2. CASE guard'[d] = guard[d]
            <4>1. /\ Working(guard[d]) /\ th[guard[d]].no[2] = 0
                  /\ d = ShardOf[th[guard[d]].no] /\ guard[d] \in Threads
                BY <2>1, <3>2, Zenon DEF Guards
            <4>2. guard[d] # t
                BY <1>3, <4>1, Zenon DEF Working
            <4> QED BY <1>13, <3>2, <4>1, <4>2, Zenon DEF Working
        <3> QED BY <1>14, <3>1, <3>2, Zenon
    <2> QED BY <2>1, Zenon DEF Guards
<1>19. ASSUME NEW p \in SocketIds
       PROVE  ByEntry(p)' = ByEntry(p) /\ ByCall(p)' = ByCall(p) /\ ByDone(p)' = ByDone(p)
    <2>1. ByEntry(p)' = ByEntry(p)
        BY <1>3, <1>6, Constants, ZenonT(30) DEF ByEntry
    <2>2. ByCall(p)' = ByCall(p)
        BY <1>3, <1>4, <1>13, Zenon DEF ByCall
    <2> QED BY <1>1, <2>1, <2>2, Zenon DEF ByDone
<1>20. Reservations'
    BY <1>1, <1>19, HoldersSame
<1> QED BY <1>9, <1>15, <1>16, <1>17, <1>18, <1>20, ZenonT(30)

-----------------------------------------------------------------------------
\* Every step of every thread keeps the invariant.
LEMMA StepInv == CtxInv /\ [Next]_vars => CtxInv'
<1> SUFFICES ASSUME CtxInv, [Next]_vars PROVE CtxInv'
    BY Zenon
<1>1. CASE UNCHANGED vars
    <2> USE <1>1 DEF vars
    <2>1. Types'
        BY Zenon DEF CtxInv, Types
    <2>2. Entries' /\ Settled'
        BY Zenon DEF CtxInv, Entries, EntryOK, Settled
    <2>3. Calls' /\ Guards'
        BY Zenon DEF CtxInv, Calls, Guards, Working
    <2>4. Apart'
        BY Zenon DEF CtxInv, Apart, Working
    <2>5. Reservations'
        BY HoldersSame, Zenon DEF ByEntry, ByCall, ByDone
    <2> QED BY <2>1, <2>2, <2>3, <2>4, <2>5, Zenon DEF CtxInv
<1>2. ASSUME NEW t \in Threads, Open(t) \/ Recv(t) \/ Step(t)
      PROVE  CtxInv'
    <2>1. CASE Open(t) \/ Recv(t)
        BY <2>1, OpenInv, RecvInv, Zenon
    <2>2. CASE Draw(t) \/ Reserve(t) \/ PutInit(t)
        BY <2>2, DrawInv, ReserveInv, PutInitInv, Zenon
    <2>3. CASE RejectInit(t) \/ PutReply(t)
        BY <2>3, RejectInitInv, PutReplyInv
    <2>4. CASE Ignore(t) \/ Collect(t)
        BY <2>4, IgnoreInv, CollectInv
    <2>5. CASE InitWhole(t) \/ Finish(t) \/ Fail(t)
        BY <2>5, InitWholeInv, FinishInv, FailInv, Zenon
    <2> QED BY <1>2, <2>1, <2>2, <2>3, <2>4, <2>5, Zenon DEF Step
<1> QED BY <1>1, <1>2, Zenon DEF Next

\* The invariant holds in every reachable state.
LEMMA ContextInvariant == Spec => []CtxInv
<1> QED BY InitInv, StepInv, PTL DEF Spec

\* The table, the guards and the calls keep their types; only entries of a handshake under
\* way, and calls that drew one, have a socket id, and no entry keeps a whole message.
THEOREM ContextTypeCorrect == Spec => []TypeOK
<1>1. CtxInv => TypeOK
    <2> SUFFICES ASSUME CtxInv PROVE TypeOK
        OBVIOUS
    <2>1. sockets \subseteq SocketIds /\ guard \in [Shards -> Threads \cup {NoThread}]
        BY DEF CtxInv, Types
    <2>2. ASSUME NEW no \in Nos
          PROVE  /\ table[no].kind \in {"vacant", "cooldown", "recv", "init", "resp"}
                 /\ table[no].sock \in SocketIds <=> table[no].kind \in {"init", "resp"}
                 /\ table[no].got \subseteq 1 .. Segs /\ table[no].got # 1 .. Segs
        <3>1. table[no] \in EntryType
            BY DEF CtxInv, Types
        <3>2. EntryOK(no)
            BY DEF CtxInv, Entries
        <3>3. /\ table[no].kind \in {"vacant", "cooldown", "recv", "init", "resp"}
              /\ table[no].got \subseteq 1 .. Segs
            BY <3>1, Zenon DEF EntryType, Kinds
        <3> QED BY <3>2, <3>3, Zenon DEF EntryOK
    <2>3. ASSUME NEW t \in Threads
          PROVE  /\ th[t].pc \in {"idle", "payload", "reserve", "insert", "cancel", "entry"}
                 /\ th[t].sock \in SocketIds <=> th[t].pc \in {"reserve", "insert", "cancel"}
        <3>1. th[t] \in CallType
            BY DEF CtxInv, Types
        <3>2. th[t].pc \in {"idle", "payload", "reserve", "insert", "cancel", "entry"}
            BY <3>1, Zenon DEF CallType, PCs
        <3> QED BY <3>2, Zenon DEF CtxInv, Calls
    <2> QED BY <2>1, <2>2, <2>3, Zenon DEF TypeOK
<1> QED BY <1>1, ContextInvariant, PTL

\* Resent, duplicated and reordered fragments, received by any number of threads, never get
\* the message of a handshake number processed twice: recv leaves CoolDown in the entry.
THEOREM MessagesProcessedOnce == Spec => []ProcessedOnce
<1>1. CtxInv => ProcessedOnce
    BY DEF CtxInv, Types, Settled, ProcessedOnce
<1> QED BY <1>1, ContextInvariant, PTL

\* Every id in socket_table has exactly one entry, call or completed handshake that is to
\* remove it or fill it in, however create_payload, the replies and the failures interleave.
THEOREM SocketIdsHeldOnce == Spec => []OneHolder
<1>1. ASSUME CtxInv, NEW s \in SocketIds
      PROVE  Cardinality(Holders(s)) = IF s \in sockets THEN 1 ELSE 0
    <2>1. Holders(s) = ByEntry(s) \cup ByCall(s) \cup ByDone(s)
        BY DEF Holders, ByEntry, ByCall, ByDone
    <2>2. CASE s \in sockets
        <3>1. \E x : Holders(s) = {x}
            <4>1. CASE ByEntry(s) # {}
                <5>1. ByCall(s) = {} /\ ByDone(s) = {} /\ AtMostOne(ByEntry(s))
                    BY <1>1, <4>1 DEF CtxInv, Reservations, Held
                <5>2. PICK x : x \in ByEntry(s)
                    BY <4>1
                <5>3. Holders(s) = {x}
                    BY <2>1, <5>1, <5>2, Zenon DEF AtMostOne
                <5> QED BY <5>3, Zenon
            <4>2. CASE ByCall(s) # {}
                BY <1>1, <2>1, <4>2 DEF CtxInv, Reservations, Held, AtMostOne
            <4>3. CASE ByDone(s) # {}
                BY <1>1, <2>1, <4>3 DEF CtxInv, Reservations, Held, AtMostOne
            <4> QED BY <1>1, <2>2, <4>1, <4>2, <4>3, Zenon DEF CtxInv, Reservations, Held
        <3> QED BY <2>2, <3>1, FS_Singleton, Zenon
    <2>3. CASE s \notin sockets
        <3>1. Holders(s) = {}
            BY <1>1, <2>1, <2>3 DEF CtxInv, Reservations, Held
        <3> QED BY <2>3, <3>1, FS_EmptySet, Zenon
    <2> QED BY <2>2, <2>3, Zenon
<1>2. CtxInv => OneHolder
    BY <1>1, Zenon DEF OneHolder
<1> QED BY <1>2, ContextInvariant, PTL

\* recv_init_message never finds the entry of its confirmation number occupied: the branch
\* that gives the socket id back and drops the handshake is not taken.
THEOREM ConfirmNumbersUnused == Spec => []NoCollision
<1>1. CtxInv => NoCollision
    BY DEF CtxInv, Apart, Working, NoCollision
<1> QED BY <1>1, ContextInvariant, PTL

\* Threads that wait for each other's entries in a circle, or one for its own, can only do so
\* because recv_init_message asks for the entry of a confirmation number while it may have that
\* of an initial one in the same shard; whatever the hash of the numbers, nothing else in
\* open() and recv() deadlocks.
THEOREM DeadlockNeedsAnswers == Spec => []OnlyAnswersDeadlock
<1>1. ASSUME CtxInv, NEW d \in Shards, guard[d] \in Threads
      PROVE  /\ Working(guard[d]) /\ th[guard[d]].no \in Nos /\ th[guard[d]].no[2] = 0
             /\ d = ShardOf[th[guard[d]].no]
    BY <1>1, Zenon DEF CtxInv, Guards, Calls
<1>2. ASSUME CtxInv, NEW t \in Threads
      PROVE  Wants(t) \subseteq Shards
    <2>1. CASE th[t].pc = "entry"
        BY <1>2, <2>1, NumberParts, ZenonT(30) DEF CtxInv, Calls, Wants
    <2>2. CASE th[t].pc = "insert"
        BY <1>2, <2>2, NumberParts, Zenon DEF CtxInv, Calls, Working, Wants
    <2>3. CASE th[t].pc \notin {"entry", "insert"}
        BY <2>3, Zenon DEF Wants
    <2> QED BY <2>1, <2>2, <2>3, Zenon
\* A thread of the circle that has an entry is an answer that waits for another such thread.
<1>3. ASSUME CtxInv, NEW S \in SUBSET Threads, Circle(S), NEW d \in Shards, guard[d] \in S
      PROVE  /\ AnswersHolding(guard[d])
             /\ guard[ShardOf[ConfirmNo(th[guard[d]].no)]] \in S
    <2> DEFINE t == guard[d]
    <2>1. /\ t \in Threads /\ Working(t) /\ th[t].no \in Nos /\ th[t].no[2] = 0
          /\ d = ShardOf[th[t].no] /\ guard[d] = t
        BY <1>1, <1>3, Zenon
    <2> HIDE DEF t
    <2>2. PICK e \in Wants(t) : guard[e] \in S
        BY <1>3, Zenon DEF Circle, t
    <2>3. th[t].pc = "insert" /\ e = ShardOf[ConfirmNo(th[t].no)]
        BY <2>1, <2>2 DEF Wants, Working
    <2>4. AnswersHolding(t) /\ guard[ShardOf[ConfirmNo(th[t].no)]] \in S
        BY <2>1, <2>2, <2>3, Zenon DEF AnswersHolding
    <2> QED BY <2>4 DEF t
<1>4. ASSUME CtxInv, NEW S \in SUBSET Threads, Circle(S)
      PROVE  \E t, u \in S :
                 /\ AnswersHolding(t) /\ AnswersHolding(u)
                 /\ ShardOf[ConfirmNo(th[t].no)] = ShardOf[th[u].no]
    <2>1. PICK x \in S : TRUE
        BY <1>4, Zenon DEF Circle
    <2>2. PICK d \in Wants(x) : guard[d] \in S
        BY <1>4, <2>1, Zenon DEF Circle
    <2>3. d \in Shards
        BY <1>2, <1>4, <2>1, <2>2, Zenon
    <2> DEFINE t == guard[d]
               c == ShardOf[ConfirmNo(th[t].no)]
               u == guard[c]
    <2>4. t \in S /\ AnswersHolding(t) /\ u \in S
        BY <1>3, <1>4, <2>2, <2>3, Zenon
    <2>5. c \in Shards
        BY <1>1, <1>4, <2>2, <2>3, NumberParts, Zenon
    <2> HIDE DEF t, c
    <2>6. AnswersHolding(u) /\ c = ShardOf[th[u].no]
        BY <1>1, <1>3, <1>4, <2>4, <2>5, Zenon
    <2> QED BY <2>4, <2>6, Zenon DEF c
<1>5. CtxInv => OnlyAnswersDeadlock
    BY <1>4, Zenon DEF OnlyAnswersDeadlock
<1> QED BY <1>5, ContextInvariant, PTL
=============================================================================
