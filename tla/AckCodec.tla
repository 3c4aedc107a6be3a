------------------------------ MODULE AckCodec ------------------------------
(***************************************************************************)
(* Acknowledgement frames, session/src/ack_runs.rs: `encode` packs a       *)
(* prefix of sorted packet numbers into the capacity of a packet, `decode` *)
(* takes the numbers out again.                                            *)
(*                                                                         *)
(* A packet number is a u32, four bytes.  A frame is a single number, or a *)
(* number and a run: a length byte and varints 2k+1 for k+1 consecutive    *)
(* numbers, which one absent number follows, and 2k for a number after     *)
(* k+1 absent ones.                                                        *)
(***************************************************************************)
EXTENDS Varint, SequencesExt

VARIANT_ACK_SINGLE == 0
VARIANT_ACK_RUN == 1

-----------------------------------------------------------------------------
(* encode.  s.i counts the numbers written, s.set those of an unfinished   *)
(* run of consecutive numbers at the end of them.                          *)

SetRun(k) == varu_write(2 * (k - 1) + 1)

UnsetRun(k) == varu_write(2 * k)

\* Mutant: the whole run is given up but its first number counts as written.
GiveUpSetShort(s) == [s EXCEPT !.i = @ - (s.set - 1), !.set = 0]

\* The run of consecutive numbers has no room: it is left for the next frame.
GiveUpSet(s) == [s EXCEPT !.i = @ - s.set, !.set = 0]

WrittenSet(s) == [s EXCEPT !.buf = @ \o SetRun(s.set), !.set = 0]

RECURSIVE Run(_, _, _), Gap(_, _, _, _)

\* The inner loop: the numbers after the first one of a frame.
Run(acks, s, maxLen) ==
    LET diff == acks[s.i + 1] - acks[s.i]
        written == WrittenSet(s)
        full == Len(written.buf)
    IN CASE s.i = Len(acks) ->
                IF s.set = 0 THEN s ELSE IF full > maxLen THEN GiveUpSet(s) ELSE written
         [] s.i < Len(acks) /\ diff <= 1 ->
                Run(acks, [s EXCEPT !.i = @ + 1, !.set = @ + 1], maxLen)
         [] s.i < Len(acks) /\ diff > 1 /\ s.set = 0 ->
                Gap(acks, s, diff, maxLen)
         [] s.i < Len(acks) /\ diff > 1 /\ s.set > 0 ->
                CASE full > maxLen -> GiveUpSet(s)
                  [] full = maxLen -> written
                  [] full < maxLen /\ diff = 2 ->
                        Run(acks, [written EXCEPT !.i = @ + 1, !.set = 1], maxLen)
                  [] full < maxLen /\ diff > 2 -> Gap(acks, written, diff - 1, maxLen)

\* A number that comes after absent ones.
Gap(acks, s, diff, maxLen) ==
    LET absent == diff - 2
        written == [s EXCEPT !.buf = @ \o UnsetRun(absent), !.i = @ + 1]
    IN CASE absent > VARINT_U32_MAX \div 2 \/ Len(written.buf) > maxLen -> s
         [] absent <= VARINT_U32_MAX \div 2 /\ Len(written.buf) = maxLen -> written
         [] absent <= VARINT_U32_MAX \div 2 /\ Len(written.buf) < maxLen -> Run(acks, written, maxLen)

\* Mutant: the length of a frame is not limited to what its length byte can say.
RunLimitUnbounded(len, capacity) == capacity

\* A run has at most u8::MAX + 1 bytes after its length byte.
RunLimit(len, capacity) ==
    LET most == len + 2^ByteBits IN IF capacity < most THEN capacity ELSE most

\* Mutant: room for the variant is not counted.
HeadFitsTight(len, capacity) == len + 4 <= capacity

HeadFits(len, capacity) == len + 5 <= capacity

RECURSIVE encode(_, _, _)

\* The outer loop: s.buf is the packet, s.i the numbers already written.
encode(s, acks, capacity) ==
    LET head(variant) == s.buf \o <<variant>> \o ToBeBytes(acks[s.i + 1], 4)
        lenIdx == Len(s.buf) + 5
        run == Run(acks, [i |-> s.i + 1, buf |-> Append(head(VARIANT_ACK_RUN), 0), set |-> 0],
                   RunLimit(lenIdx + 1, capacity))
        total == Len(run.buf) - lenIdx
        single == [s EXCEPT !.buf = head(VARIANT_ACK_SINGLE), !.i = @ + 1]
    IN CASE s.i = Len(acks) \/ ~HeadFits(Len(s.buf), capacity) -> s
         [] s.i < Len(acks) /\ lenIdx + 1 > capacity -> single
         [] s.i < Len(acks) /\ lenIdx + 1 <= capacity ->
                IF total <= 1
                THEN encode([single EXCEPT !.i = run.i], acks, capacity)
                ELSE encode([i |-> run.i, buf |-> [run.buf EXCEPT ![lenIdx + 1] = total - 2]],
                            acks, capacity)

-----------------------------------------------------------------------------
(* decode, and the loop over the frames of a packet.                       *)

U32(n) == n % 2^(4 * ByteBits)

RECURSIVE DecodeRun(_, _, _, _)

\* The absent number after a run.  After u32::MAX the addition wraps, in a build without
\* overflow checks; with them it panics.
AfterSetRun(ack) == U32(ack + 1)

\* The varints of a run, from position i of buf to its end.
DecodeRun(buf, i, cur, acks) ==
    LET read == varu_try_read(buf, i, 4)
        len == read.value \div 2
        set == [k \in 1..(len + 1) |-> U32(cur + k)]
        ack == U32(cur + len + 2)
    IN CASE i > Len(buf) -> [ok |-> TRUE, next |-> i, acks |-> acks]
         [] i <= Len(buf) /\ ~read.ok -> [ok |-> FALSE, next |-> i, acks |-> acks]
         [] i <= Len(buf) /\ read.ok /\ read.value % 2 = 1 ->
                DecodeRun(buf, read.next, AfterSetRun(U32(cur + len + 1)), acks \o set)
         [] i <= Len(buf) /\ read.ok /\ read.value % 2 = 0 ->
                DecodeRun(buf, read.next, ack, Append(acks, ack))

\* Position i is the one after the variant.
decode(buf, isRun, i) ==
    LET first == FromBeBytes(SubSeq(buf, i, i + 3))
        end == i + 4 + buf[i + 4] + 1
    IN CASE i + 3 + (IF isRun THEN 1 ELSE 0) > Len(buf) ->
                [ok |-> FALSE, next |-> i, acks |-> <<>>]
         [] i + 3 <= Len(buf) /\ ~isRun ->
                [ok |-> TRUE, next |-> i + 4, acks |-> <<first>>]
         [] i + 4 <= Len(buf) /\ isRun ->
                IF end > Len(buf) THEN [ok |-> FALSE, next |-> i + 5, acks |-> <<first>>]
                ELSE DecodeRun(SubSeq(buf, 1, end), i + 5, first, <<first>>)

RECURSIVE Decoded(_, _)

\* All numbers in the frames of buf from position i on; recv stops at a bad frame.
Decoded(buf, i) ==
    IF i > Len(buf) THEN <<>>
    ELSE LET r == decode(buf, buf[i] = VARIANT_ACK_RUN, i + 1) IN
         r.acks \o IF r.ok THEN Decoded(buf, r.next) ELSE <<"bad frame">>
=============================================================================
