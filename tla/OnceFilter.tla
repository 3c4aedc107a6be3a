----------------------------- MODULE OnceFilter -----------------------------
(***************************************************************************)
(* What a replay filter promises to the receiver of packets: of all the    *)
(* copies of a packet one is delivered, and a packet is turned away for    *)
(* good without any delivery only when a packet of at least Window numbers *)
(* later was settled before it.                                            *)
(***************************************************************************)
EXTENDS Naturals

CONSTANTS
    Packets,   \* packet counters
    Window     \* how far a packet may be late

VARIABLES
    settled,     \* packets the filter has decided on
    deliveries   \* packet -> how many of its copies were delivered

vars == <<settled, deliveries>>

Init ==
    /\ settled = {}
    /\ deliveries = [p \in Packets |-> 0]

Deliver(p) ==
    /\ p \notin settled
    /\ settled' = settled \union {p}
    /\ deliveries' = [deliveries EXCEPT ![p] = @ + 1]

TooLate(p) ==
    /\ p \notin settled
    /\ \E q \in settled : q >= p + Window
    /\ settled' = settled \union {p}
    /\ UNCHANGED deliveries

Next == \E p \in Packets : Deliver(p) \/ TooLate(p)

Spec == Init /\ [][Next]_vars
=============================================================================
