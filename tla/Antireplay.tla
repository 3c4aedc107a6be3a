----------------------------- MODULE Antireplay -----------------------------
(***************************************************************************)
(* The replay filter of session/src/antireplay.rs: an array of L atomic    *)
(* counters.  A packet counter is mapped to one slot; `check` compares it  *)
(* with the slot without changing anything, `update` raises the slot with  *)
(* one atomic fetch_max and accepts the counter if the slot was below it.  *)
(*                                                                         *)
(* Receiving threads call `check`, authenticate the packet, then call      *)
(* `update` (the order the doc comment of `update` asks for).  Any counter *)
(* may arrive at any time, any number of times, on any thread.             *)
(***************************************************************************)
EXTENDS Integers, FiniteSetsExt

CONSTANTS
    Threads,      \* the receiving threads
    CounterBits,  \* width of a packet counter, 32 in the code
    LBits         \* log2 of the number of slots L

L == 2^LBits

\* L = 1 passes the code's const assertion but shifts a u32 by 32, see README.
ASSUME SizeAssumption == CounterBits \in Nat /\ LBits \in 1..CounterBits /\ L \in Nat \ {0}

Slots == 0..(L - 1)

\* Counters start at AES_GCM_INIT_COUNTER > 0, the slots at 0.
Counters == 1..(2^CounterBits - 1)

\* u32::reverse_bits at the model's width.
ReverseBits(c) ==
    MapThenSumSet(LAMBDA i : ((c \div 2^i) % 2) * 2^(CounterBits - 1 - i), 0..(CounterBits - 1))

slot(counter) == ReverseBits(counter) \div 2^(CounterBits - LBits)

\* The array index is in bounds, and two counters share a slot exactly when
\* they agree in their low LBits bits.  TLC evaluates both on every instance.
ASSUME SlotAssumption ==
    /\ \A c \in Counters : slot(c) \in Slots
    /\ \A c, d \in Counters : slot(c) = slot(d) => c % L = d % L

-----------------------------------------------------------------------------

VARIABLES
    last,      \* the array of atomic counters
    checked,   \* thread -> the counter it has checked and not yet updated, or 0
    updated,   \* history: counters ever passed to update
    accepts    \* history: counter -> how many calls of update returned true

vars == <<last, checked, updated, accepts>>

Idle == 0

Init ==
    /\ last = [i \in Slots |-> 0]
    /\ checked = [t \in Threads |-> Idle]
    /\ updated = {}
    /\ accepts = [c \in Counters |-> 0]

\* check(): a rejected packet is dropped, an accepted one is authenticated.
Check(t, c) ==
    /\ checked[t] = Idle
    /\ last[slot(c)] < c
    /\ checked' = [checked EXCEPT ![t] = c]
    /\ UNCHANGED <<last, updated, accepts>>

\* update() trusting the earlier check.
UpdateTrustsCheck(t) ==
    LET c == checked[t] IN
    /\ c # Idle
    /\ last' = [last EXCEPT ![slot(c)] = IF @ < c THEN c ELSE @]
    /\ accepts' = [accepts EXCEPT ![c] = @ + 1]
    /\ updated' = updated \union {c}
    /\ checked' = [checked EXCEPT ![t] = Idle]

\* update() keeping one maximum for all slots.
UpdateRaisesAll(t) ==
    LET c == checked[t]
        pre == last[slot(c)] IN
    /\ c # Idle
    /\ last' = [i \in Slots |-> IF last[i] < c THEN c ELSE last[i]]
    /\ accepts' = [accepts EXCEPT ![c] = IF pre < c THEN @ + 1 ELSE @]
    /\ updated' = updated \union {c}
    /\ checked' = [checked EXCEPT ![t] = Idle]

\* update(): one fetch_max; the packet is delivered iff it returns true.
Update(t) ==
    LET c == checked[t]
        pre == last[slot(c)] IN
    /\ c # Idle
    /\ last' = [last EXCEPT ![slot(c)] = IF pre < c THEN c ELSE pre]
    /\ accepts' = [accepts EXCEPT ![c] = IF pre < c THEN @ + 1 ELSE @]
    /\ updated' = updated \union {c}
    /\ checked' = [checked EXCEPT ![t] = Idle]

Next ==
    \E t \in Threads :
        \/ \E c \in Counters : Check(t, c)
        \/ Update(t)

Spec == Init /\ [][Next]_vars

-----------------------------------------------------------------------------

\* Every variable keeps its type; in particular update() never indexes the
\* array outside its L slots.
TypeOK ==
    /\ last \in [Slots -> Counters \union {0}]
    /\ checked \in [Threads -> Counters \union {Idle}]
    /\ updated \in SUBSET Counters
    /\ accepts \in [Counters -> Nat]

\* "If the value of `counter` has ever been passed to `update` before, this will
\* return false": a counter that went through update() fails every later check()
\* and update(), whatever the threads did in between.
ReplayIsRejected == \A c \in updated : ~(last[slot(c)] < c)

\* However check() and update() of several threads interleave, update() returns
\* true at most once for a counter.
AcceptedAtMostOnce == \A c \in Counters : accepts[c] <= 1

\* The filter is a window of L: a counter never passed to update() that is less
\* than L behind the largest one that was still passes check().
FreshInWindowPasses ==
    \A c \in Counters \ updated :
        (\A d \in updated : d < c + L) => last[slot(c)] < c

Filter == INSTANCE OnceFilter WITH
    Packets <- Counters, Window <- L, settled <- updated, deliveries <- accepts

\* The array of atomics implements the once-only filter: every update() delivers a packet
\* no update() has decided on, or refuses a copy of one it has decided on, or refuses a
\* packet that is L or more behind another one.
ImplementsFilter == Filter!Spec
=============================================================================
