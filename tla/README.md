# pqsnet in TLA+

pqsnet has two crates. `transport` is a post-quantum handshake (ML-KEM, ML-DSA,
SHAKE, AES-GCM) with resumption. `session` carries *documents* over it: each
document is sent on the channel of an older document, its parent, is cut into
segments, and opens a channel of its own. Many threads call into one session at
once; the shared state is a table of mutex-protected slots on each side, a few
atomic counters, and the handshake table.

The code is work in progress: several functions end in `todo!()`. The models
follow what is written, and mark as *external* what the written code needs from
the unwritten one.

## Inventory

| Part of the system | Source | Module | Status |
|---|---|---|---|
| Anti-replay filter | `session/src/antireplay.rs` | `OnceFilter`, `Antireplay`, `PacketProofs` | modelled, refinement proved |
| Desegmenter | `session/src/desegmenter.rs` | `Desegmenter`, `DesegmenterProofs` | modelled, safety proved |
| Symmetric state | `transport/src/symmetric_state.rs` | `SymmetricState` | modelled |
| Handshake | `transport/src/{initiator,responder,key_bundle,api}.rs` | `Handshake`, `HandshakeFacts`, `HandshakeProofs` | modelled, safety proved |
| Receiving documents, channels | `session/src/{recv,session,channel}.rs` | `RecvTable`, `RecvTableProofs` | partly, some invariants proved |
| Waiting receivers and flushes | `session/src/channel.rs` | `Waiters`, `WaitersProofs` | modelled, safety proved |
| Sending documents | `session/src/channel.rs` | `SendTable`, `SendTableProofs` | partly, safety proved |
| Handshake table, socket ids | `session/src/context.rs` | `Context`, `ContextProofs` | partly, safety proved |
| Packet builder | `session/src/packet_builder.rs` | `PacketBuilder`, `PacketProofs` | modelled, proved |
| Transmission, loss recovery | `session/src/send.rs` | `Transmit` | modelled |
| Varints, acknowledgement runs | `session/src/{varint,ack_runs}.rs` | `Varint`, `AckCodec`, `AckRuns` | modelled |
| Document numbers | `session/src/doc_no.rs` | none | its methods are not used |
| `unbound_recv.rs`, `session copy.rs`, `socket.rs` | | none | unfinished or old copies |
| Congestion control, statistics, crypto wrappers | | none | stubs and libraries |

`SymmetricState` is used by `Handshake`. `Context` takes from `Handshake` only
that a message may authenticate or not, and from `Desegmenter` that a message is
whole when all its fragments have come. `RecvTable` takes from `SendTable` the
slots of its own documents with their channels. `Transmit` extends
`PacketBuilder` and `AckCodec`, which both stand on `Varint`, and reads the slots
that `SendTable` and `RecvTable` fill. `Antireplay` implements `OnceFilter`.

How the parts meet: `Context::recv` desegments handshake messages and runs the
handshake; on completion a socket would be entered under the reserved socket id
(that step is a stub). Packets of a socket go to `Session::recv`, which hands
each segment frame to `recv_seg`. A complete document is posted to its parent's
channel, where the application takes it; tasks that wait for it are woken. In the
other direction a sent document has a slot, and `transmit` cuts it into segments,
fills packets with them, with control frames and with acknowledgements, and sends
again what was not acknowledged in time.

## Modules

### Antireplay

`last` is the array of atomics. `Check` is the load, `Update` the `fetch_max`;
a thread authenticates its packet between the two, so any interleaving of other
threads fits there. `slot` is the reversal of bits at the model's width.
`updated` and `accepts` are histories.

`OnceFilter` is what the filter promises: a packet is delivered at most once, and
one that was not delivered is refused only when a packet `L` or more counters
later was decided on before. `ImplementsFilter` maps the array of atomics to it.

`L = 1` is left out: `slot` then shifts a `u32` by 32, although the constant
assertion of the type lets it pass. `Context::recv` does not call the filter yet
(`context.rs:339`), so the composition is not modelled.

### Desegmenter

One message of `Len` bytes, a bit set in words of `WIDTH` bits. Each `fetch_or`
(`CheckAndSetBits`), each copied range (`Copy`), the `fetch_add` (`FetchAdd`) and
the taking of the memory (`Take`) is a step. `start` is the range carried from
word to word. `NextWord` is the loop of `desegmenter.rs:109` as written, with its
exclusive end one too early. The carry trick with `wrapping_add` is modelled by
what it computes, the maximal runs of new bits (`Runs`). Header parsing is
abstracted to the offset and length; an empty segment is left out, since
`range.end - 1` underflows on it. `SpecApart` is the same system whose callers never
have two threads at work on copies of one segment. `recv_doc_marks` is the loop that
`recv.rs:40-57` has for documents: it has the same bound, and counts the bytes it marks
instead of the ranges it copies.

### SymmetricState and Handshake

Symbolic and with perfect cryptography: a chaining key is the sequence of what
was mixed in, with step numbers; a ciphertext records key, step and plaintext;
a signature records signer, context and data. `Open`, `RecvInit`, `RecvReply`
and `RecvConfirm` are the four API calls with their error results. Parties keep
resumptions (`Remember`), lose them (`Lose`), rotate bundles (`Rotate`) and time
passes (`Tick`); these four are the application's and the clock's. A handshake has
one responder, which is not the initiator itself, and an initiator without a token
has no resumption data.

`InitSignTagRev` is how far before its end the signature's slice of a resuming
initialize message stops. `initiator.rs:71` has the length of a tag (16), and the
copy then panics on every resumption; `MC_HandshakeAsWritten` shows it.
`handshake_resume` takes 0, the value the responder parses with, because there is
no resumption to examine otherwise. This is the only place where a constant
departs from the source.

### RecvTable

`entry` holds both tables, `lock` the mutexes held across steps, `th` each
thread's place in `recv_seg`, `fin_doc` or a drop function. A step is what
happens under one mutex. `RecvKnown` and `RecvNew` are the two branches of
`recv_seg`; `LookupParent`, `Create` and `Resume` its continuation after an
unlock or a wait; `Post` is the second half of `fin_doc`; `DropPop`, `DropSlot`
and `DropDone` are the loops of `drop_unfinished_recv_doc` and
`drop_closed_channel`. The application takes documents, closes, clones and drops
channels and polls a reply. All documents have one length, so `bytes` counts
documents. The bit set of `recv_doc` is abstracted to the set of segments
received, which is what it computes for segments over one or two words; see
`recv_doc_marks` of `Desegmenter` for longer ones.

The peer and the network are external: with `Behaved` the peer numbers documents
upwards, stays within the byte limit and reuses a slot after its fin; the
network loses, repeats and reorders segments. Abandoning a session ends the
behaviour, as `abandon` is a stub. The constructor of the tables is not written
either; slots start finished and empty.

### SendTable

`try_send_any` in one step per atomic access or lock, and `SendFuture` around
it. What frees a slot (the peer's fin, a close, the wake-up that follows) is not
in the source and is modelled from how the counters are used: a slot leaves
`send_total` when document and channel are gone. The result `Abandoned` is left
out.

### Context

`table` is `hanshake_table` (the source's spelling), `sockets` the keys of `socket_table`. A
DashMap entry locks a shard; `guard` has the shards that stay locked across
steps, which happens in one place, when an occupied entry is alive during
`recv_init_message` (`context.rs:259-260`). `ShardOf` is the hash. Entries stay
on cooldown for ever, as in the source. Random handshake numbers are taken as
distinct. Fragments of both sides' messages come at any time, those that this side sent
itself included. `RejectInit` is an answer that fails, before the payload or after it,
when `process_initialize` cannot allocate the reply (`AfterPayload`).

### Varint, AckCodec and AckRuns

`Varint` is the codec with a byte of `ByteBits` bits: at three bits the widths
change after 1 and 15, so that small numbers and short runs cross the boundaries. `AckCodec`
translates `encode` and `decode` of `ack_runs.rs`, with its states of a run that
is being counted, written or given up. `AckRuns` is their use: packet numbers
arrive in any increasing order, wait in `SocketData.acks`, are encoded into a
packet with some space left, and are decoded by the peer. `RECURSIVE` operators
follow the loops of the codec, which is why nothing is proved about it.

### PacketBuilder and Transmit

`PacketBuilder` has the functions of `packet_builder.rs` on lengths: a segment is
a record with its flags, its offset, its number of bytes and the header length
that the code stores next to the flags; a packet is its length and its frames.
The bytes are left out, the arithmetic is not. `has_been_acked` is never set in
the source. `MtuAssumption` asks for `MIN_MTU`, which no code compares with. It
leaves the packet's header out, so that a long segment header need not fit a fresh
packet; `FreshPacketSuffices` says when.

In `Transmit` a step of a call is what `transmit` does under one mutex, or one
frame. `AppendAcks`, `PopExpired`, `ResendFrame`, `ResendDone` and then `PopDoc`,
`SendEntry`, `Relock`, `PushBack` and `RecvEntry` are its three loops; `Filled`
and `Spent` are the lines that follow every append. `SendInsert`, `SendPush` and
`SendRoute` are `send_now`, which other threads run on the packets given to
`queue`, and `Acknowledge` is `acknowledged`. Lost packets stay in `net`. The
history variables remember frames that were acknowledged in time and frames of
packets that `PopExpired` overwrote. External, since stubs stand for them: the
budget and the timeout (chosen freely by `Begin`), `schedule_send_control`
(`Schedule`), what schedules the data of a document and the fins. The last line of
`transmit` sends its packet with a time that is `todo!()`; the model sends it like
the others. `Take` sets `needs_send_control`, which `schedule_send_control` has to
do, because its callers do not.

### Waiters

One channel, tasks that receive from it again and again and tasks that flush its
document. A poll and a post are done under the slot's mutex; wakers that were
taken out are called afterwards (`waking`). The executor is external: it polls
tasks that are new or were woken, those of `Spurious` at any time, and futures of
`Cancels` may be dropped while they wait.

## Runs

Passing:

| Run | Instance | Shows |
|---|---|---|
| `antireplay` | 3 threads, 7 counters, 2 slots | the filter implements `OnceFilter`; a fresh counter in its slot passes |
| `desegmenter_shared` | 2 threads, 7 bytes in words of 2: all segments within a word, copies at once; or a partition into 2 to 4 segments over up to 4 words, repeated but not twice at once | ranges exclusive; taken once and whole; nothing lost; marked bytes copied |
| `handshake_resume` | 3 parties, 2 handshakes, rotation, expiry, loss | agreement, order, identity, fallback rule, failures only for a reason |
| `recv_tree` | two chains of 2 documents in 2 slots, which are used again, and 2 places for bytes; 2 threads, closes by both sides | one owner per document, exact counts, no deadlock, reserved slots kept, orphans wait; a peer that follows the rules is rejected only for a slot that a drop or orphans left unusable, or for a document created without its parent |
| `recv_replies` | a reply buffer asked for twice; two documents of another channel in one slot; fair threads | the `unreachable!` of `recv.rs:120` is; calls return |
| `send_limits` | 3 senders, 2 places, 3 bytes, a document that is too large | the slot loop ends; byte limit; the counters never wrap and settle |
| `context` | 2 threads, a handshake from each side, 2 fragments per message, confirm numbers in the shards of initial ones, fair threads | messages processed once, socket ids neither shared nor leaked; threads deadlock only in answers that hold their initial entry; calls return otherwise |
| `ack_runs` | any increasing selection of 11 numbers up to the largest of its width, 6 amounts of space, bytes of 3 bits | what the peer decodes, what is under way and what waits is what was received; each packet takes at least one number and stays within its space |
| `transmit_loss` | 3 calls with a budget of 1 or 3, documents of one and of several packets, every packet acknowledged in time, late or never | every byte that was cut is in exactly one place; packets within the mtu; calls within their budget |
| `transmit_signals` | 2 threads in `transmit`, closes, takes, drops and fins of a sending and a receiving document | a signal is scheduled until it is in a frame; until it is acknowledged the frame is somewhere, be it in an overwritten packet or among the orphans, from where nothing sends it |
| `waiters` | 3 receivers, 2 flushes, 3 documents, one future may be dropped, fair executor | no ready document with all receivers asleep; receivers and flushes return |

`recv_stale` finds a violation of a statement of the repository: a waiter writes
into the document that came after its own. `findings` in `PROJECT.json` quotes the
line.

More configurations, kept for whoever changes this code; TLC reports a violation
for each row (with `-continue` where a configuration has several rows):

| Configuration | What the code does | Says otherwise |
|---|---|---|
| `MC_DesegmenterWords`, `ExclusiveRanges` | two threads on one two-word segment: a carried range runs over the other's bytes (`desegmenter.rs:62`), and the message is taken before it is whole | `desegmenter.rs:37-38` |
| `MC_DesegmenterWords`, `RecvDocCounts` | `recv_doc` leaves out the last inner word of a segment over three words or more and never counts its bytes (`recv.rs:53`) | the comparison of `recv.rs:61` |
| `MC_HandshakeAsWritten` | resumption panics (`initiator.rs:71`) | `initiator.rs:37` |
| `MC_RecvTableOrphanSlot`, `KeptForOrphansOnly` | a slot that had orphans rejects all later documents (`recv.rs:328`) | `recv.rs:329-330` |
| `MC_RecvTableDroppedSlot` | the slot of a dropped document is not reusable after its fin (`recv.rs:322`) | `recv.rs:323-324` |
| `MC_RecvTableOwnSlot` | a document in its closed parent's slot locks that slot twice (`recv.rs:172`) | `recv.rs:397-398` |
| `MC_RecvTableOrphanSlot`, `CompleteHasParent` | a document created by a later segment has no parent (`recv.rs:296`) | `recv.rs:75-76` |
| `MC_RecvTableReply`, `DeliveredIsReleased` | a reply in a buffer gives back neither bytes nor slot (`channel.rs:535`) | `recv.rs:350-352` |
| `MC_RecvTableReply`, `OwnedOnce` | a complete reply in a dropped future has no owner (`session.rs:331`) | `recv.rs:87-88` |
| `MC_SendTableWake`, `NobodyLeftAsleep` | a place is freed between a sender's check and the push of its waker, and it sleeps beside an empty table (`channel.rs:367`) | `channel.rs:357-358` |
| `MC_SendTableWake`, `ParentIsOlder` | a document is its own parent (`channel.rs:176`) | `recv.rs:224` |
| `MC_SendTableRetry` | retrying senders block one another for ever (`channel.rs:135`) | `channel.rs:139-140` |
| `MC_TransmitForgotten`, `NeverUnreachable` | a cut segment uses the packet reserved for `temp_packet`, and the call ends on the line marked unreachable (`send.rs:158`) | the same line |
| `MC_TransmitHeader` | the second part of a cut later segment keeps the header length of the whole, although its offset needs a longer varint (`packet_builder.rs:205-216`) | the assertion of `packet_builder.rs:145` |
| `MC_TransmitForgotten`, `NothingForgotten` | of several expired packets only the last is sent again, and orphans never are (`send.rs:65`) | the purpose of the queue |
| `MC_TransmitRelock` | after the second lock the data of a newer document goes out under the old number (`send.rs:221`) | the comparison of `send.rs:175` |
| `MC_TransmitSockets`, `AcksOnTheirSocket` | acknowledgements of two sockets share one packet, and a packet bound to `local_id` is compared with `uid` and sent unencrypted (`send.rs:51`) | `packet_builder.rs:266-268` |
| `MC_TransmitSockets`, `DroppedAnnounced` | a dropped document is taken from the queue before it is marked, and its control frame is never made (`session.rs:299`) | `session.rs:86-88` |
| `MC_WaitersStray`, `FlushMeansFinished` | a second poll makes `flush_parent` return, whatever woke it (`channel.rs:390`) | `channel.rs:211-216` |
| `MC_WaitersStray`, `NobodyForgotten` | the waker of a dropped future takes the wake-up of another task (`recv.rs:103`); so does the second waker of a future polled twice (`channel.rs:460`), with a receiver in `Spurious` | |

These pass and complete the picture. `MC_DesegmenterAny`: with overlapping segments
over several words, received twice at once, marked bytes are still copied and the memory
is taken once. `MC_RecvTableUnruly`: with a peer that breaks the rules the types hold,
ownership and counts are exact up to the rejection, and locks are taken along the
ancestry of documents.

A send that is refused as too large stays counted in `send_total`
(`channel.rs:148`); `CountersSettle` counts these sends and says that they are
the only drift.

In `recv_tree` slots are used again and all four kinds of rejection happen;
`RejectedForKnownReasons` ties each to its cause. No document of it has the slot of its
parent. In `recv_replies`, whose liveness needs a session that goes on, own channels
stay open.

The passing runs of `Transmit` leave some of the cases above out. The documents of the passing runs are shorter than 64
bytes, where the offset of a segment is always one byte, so that `WithinMtu` holds
there; `TryAppendKeepsBytes` below gives the exact condition. Every document has a
slot of its own, and `uid` and `local_id` of the socket agree. `SentOnce` counts
overwritten packets and orphans as places, so it says that no byte disappears or
is doubled, not that every byte is sent again.

In `context` threads do deadlock: a thread that holds the entry of an initial message
asks for the entry of the confirm number (`context.rs:162`, `259-260`), in a shard that
another such thread holds. `OnlyAnswersDeadlock` says that there is no other way, and
`CallsReturn` that calls return if it does not happen. No line of the repository speaks
of it, so it is listed as a hazard.

### Bounds

Two threads suffice for every race above: each involves one thread inside a call
and one that overtakes it. Antireplay has a third one so that two updates can
fall between a check and its update. Four documents in two receive slots give every
slot a second document, with a byte limit that the peer has to reach; in
`recv_replies` documents 4 and 10 fall into the same of three slots. Words of two and three bits keep
boundaries inside a word, at its edge and across words, and seven bytes make one
segment cover four words. Two bundle versions and three points of time give an
expired, a current and a not yet valid bundle. Three socket ids for two handshakes
make equal draws likely and leave one for an answer that fails. `MaxHandles` bounds clones,
`Count` documents per sender, `MaxHandshake` handshakes. An mtu of 64 is
little more than the least possible, so that a document of 60 bytes needs a
second packet and cutting, padding and overflow all happen; three calls of
`transmit` let a packet expire, be sent again and expire once more, and a budget
of one ends a call in the middle of a frame. `MaxCalls`, `MaxSends` and
`MaxEnding` name these bounds. Three receivers are enough for one to be woken for
a document, another to take it and a third to sleep beside it.

Deadlock is not checked where the system may stop: all counters used up
(`antireplay`), all handshakes over, all documents sent, all calls of `transmit`
made, the session abandoned.

### Fairness

Weak fairness of the steps inside a call, per thread: the operating system runs
threads, and a mutex or shard is asked for again until it is free. Starting a
call, the peer, the network and the application are not fair, with one
exception: `MC_SendTableRetry` also assumes that fins arrive and channels are
closed, which makes its counterexample stronger. In `Waiters` a woken task is
polled again and a thread that took wakers out calls them; a task need not start
to wait, no document has to come, and nothing has to end.

## Proofs

`PacketProofs` proves for any set of threads and any sizes that satisfy
`SizeAssumption` and `SlotAssumption` that the filter implements `OnceFilter`, and
the safety invariants of `Antireplay`. `SlotAssumption` says what the reversal of
bits has to give, an index in range and equal slots only for counters equal modulo
`L`, and TLC evaluates it on the instance. The inductive step is that a slot never
decreases and is at least every counter passed to `update` that maps to it; the
refinement adds that a slot holds only counters that were decided on.

`DesegmenterProofs` proves `MarkedIsCopied`: a byte whose bit is set has been
copied or is in a range that some running call will copy, for any message, word
width, segmentation and number of threads. This holds in spite of the two
mistakes in the desegmenter: they copy bytes twice or too early but leave none
out. The invariant is not inductive by itself. `CopyInv` adds the types and
`Scanning`, which says that a thread scans words of its own segment with no
ranges left to copy and a carry that began in an earlier word. The lemmas below
it are about `Runs`: they cover the set, are disjoint, and together with the
carry contain every new byte.

`NeverTakenTwice` has no hypothesis either: whatever the segments, one call at most
takes the memory, and it is there. The count only grows, and a call takes the memory
when its own addition makes the count equal to the length (`OnceInv`).

`ExclusiveRanges`, `CompletesOnceAndWhole` and `NothingIsLost` are proved for any
threads, message and word width from `Disjoint`, that segments do not overlap, and for
`SpecApart`, in which no two threads are at work on copies of one segment. Segments may
cross any number of words, share words with others, and come again later. With one
thread (`Serial`), as in `recv_mut`, `SpecApart` is `Spec` (the theorems in `...Alone`).
`MC_DesegmenterShared` has such segments, and shows the properties for segments inside a
word without either condition, which is not proved; `MC_DesegmenterWords` shows
`ExclusiveRanges` false for two threads on copies of a longer segment. The invariant
`ApartInv` contains `CountInv`, by which a copied byte is counted once, by the call that
copied it or in `total_set`, and `DoneInv`, by which the memory is taken by the call that
counts the last byte. What remains is why a range to be copied is new (`ShareInv`): a
segment is untouched, received, or in the hands of one thread, which carries its first
byte from word to word and copies it in one piece; that piece also covers the last word
but one, which the loop leaves out.

`ContextProofs` proves the four safety invariants of `Context` and its types for
any threads, handshakes, numbers of fragments, socket ids and shards. The
inductive invariant `CtxInv` says which numbers may have which kind of entry
(`Entries`), what a call in progress has in hand (`Calls`), that a processed number
stays on cooldown (`Settled`), that no confirm number is in the table while its
initial message is still being worked on (`Apart`), who holds a shard (`Guards`),
and for every socket id that the entries, calls and completed handshakes which hold
it are at most one together, and one exactly when it is reserved (`Reservations`).
`OneHolder` alone is not inductive: an entry is turned into a call and a call into
an entry or a completion, which keeps the count only if there is no other holder of
another kind. `DeadlockNeedsAnswers` has no hypothesis on the shards: by `Guards` only
an answer keeps a shard between steps, so that every thread of a circle waits for one
held by an answer, and the answers among them wait for confirm numbers.

`SendTableProofs` proves all invariants of `SendTable` for any finite set of senders
and any size of the table. The inductive invariant `SendInv` has, next to the types,
two counts. `TotalExact`: `send_total` is the taken slots, the refused sends and the
calls whose increment is still pending, in every state. `Room`: the taken slots and
the calls past the check are fewer than the slots; `SlotForEach` follows. `Room` alone
is not inductive, because the check reads `send_total` and not the table. `BytesInv`
does the same for the bytes, which are sums: a sum of lengths is the number of pairs
of a document and a place in it (`BytesIn`), so that the counting lemmas of finite
sets apply. `BytesTotalExact` says that `send_bytes_total` is the bytes in the table
and of the calls that have added theirs; `BytesBelowMax` needs it because the check
reads the counter. `CountersSettle` and the types of the counters, which say that no
`fetch_sub` wraps, follow from both. Freeing a slot is modelled from how the rest uses
it, so that part is an assumption: whoever frees one decrements both counters with it.

`WaitersProofs` proves `NobodyForgotten` for any finite set of receivers and any
flushes and documents: while a receiver sleeps uncalled, there are as many called
receivers as ready documents. `WaitInv` adds that a receiver is registered once while
it waits (`Registered`) and that a closed channel has no wakers (`ClosedEmpty`); a post
takes out one waker, and only the two together show that it is the waker of a sleeping
task. The hypothesis `Orderly` leaves out spurious polls and dropped futures, for which
`MC_WaitersStray` shows the invariant false. `FlushesCalledInTime` needs no hypothesis:
no waker of a flush is called before the document is finished, and afterwards all that
still wait are among those to be called. That `flush_parent` returns too early in
`MC_WaitersStray` is therefore the poll's mistake and not the wakers'.

`HandshakeFacts` and `HandshakeProofs` prove the three invariants and the two action
properties of `Handshake`, and its types, for any parties, any number of handshakes and
any periods of validity. The inductive invariant `HandshakeInv` says for each handshake
in which of seven phases it is, with the exact messages and states of both sides as
functions of the bundles they used (`Phases`); that keys belong to one handshake
(`KeysOf`); that what a party has stored comes from a finished side of its own with
that peer (`Stores`); and that the token of a message comes from such a side too
(`Tokens`). `Agreement` alone is not inductive: it speaks of two finished sides, and
what makes them equal is the transcript which the first to finish has put in a message.
The cryptography is the symbolic one of the model, and the peers follow the protocol.

`RecvTableProofs` has `ShapeAlways`, the types of tables and calls, and
`OrphansStillWait`, for any tables, documents, threads and any peer. `LocksFollowAncestry`
says for the same that a call which waits for a slot and holds another holds the slot of
an ancestor of the document it waits for. A call asks for a second lock only in
`drop_unfinished_recv_doc`, under the lock of a parent. `KinOK` says that ready documents
and orphans are kept in the slots of their parents, and that complete documents are
posted there; `LockOK` says that the holder of a slot has only slots of its descendants
still to lock. A circle of waiting calls therefore needs documents whose slots lead back
to themselves; nothing in the code rules that out, and `MC_RecvTableOwnSlot` has a
document in the slot of its parent.

`PacketProofs` also proves, for any mtu that satisfies `MtuAssumption` and any
documents: a segment made by `try_new` fits with its header, whose length is exact
(`NewSegmentFits`); `try_append_seg` keeps a packet within the mtu, and leaves,
appends or cuts the segment without losing or doubling a byte
(`TryAppendKeepsBytes`); a control frame fits a packet that is not full
(`ControlFits`). A comment in `transmit` says that a document cannot overflow a fresh
packet. `FreshPacketSuffices` has the exception: the mtu is below 57 and a later segment
has a special parent and a number, parent, offset and length of eight bytes each.
`TryAppendKeepsBytes`
has the condition under which the header length of the second part is exact: the
segment was the first of its document, or its offset keeps its width.

Model-checked only: liveness (`EveryCallReturns`, `CallsReturn`,
`ReceiversServed`, `FlushReturns`), which is out of the prover's reach under
fairness; the codec of acknowledgements, which is recursive, and `Transmit`, which
uses it; and the other invariants of `RecvTable` (`OwnedOnce`, `BytesExact`,
`RefCountExact`, `SlotsKept`, `NoDeadlock`, `RejectedForKnownReasons`, `ReplyStillAwaited`), which
need one invariant over all places a document can be in.

## Not modelled

The wire format of frames and handshake messages (apart from the slice above, the
varints and the runs of acknowledgements), packets on established sockets
(`handshake_complete` is a stub, so there are none), control and acknowledgement
frames on the receiving side (`recv` ignores them), congestion control, statistics,
and everything else that is a stub. `session.rs` imports the
struct of `doc_no.rs` but none of its methods is called; the session computes with
document numbers as with `u64`, and so do the models (`counter` and `index` return each
other's part of what `new` puts together, which will matter once they are used).
`unbound_recv.rs` is an unfinished copy of
`channel.rs`, and `session copy.rs` an older `session.rs` that no module includes.
Cryptographic
strength is assumed.
