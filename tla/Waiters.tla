------------------------------ MODULE Waiters -------------------------------
(***************************************************************************)
(* The futures that wait at a channel, session/src/channel.rs: tasks in    *)
(* recv().await (RecvFuture) and in flush_parent().await (FlushFuture).    *)
(* The channel belongs to a document; a flush waits for the fin of a       *)
(* document that was sent, or for the fin-ack of one that was received.    *)
(* A poll and a post are atomic, being done under the slot's mutex; wakers *)
(* that were taken out are called later, when it is unlocked.              *)
(*                                                                         *)
(* The executor is external.  It polls a task that is new or was woken and *)
(* may poll one of Spurious while it waits; the future of one of Cancels   *)
(* may be dropped while it waits (a select! or a timeout around it).       *)
(***************************************************************************)
EXTENDS Naturals, SequencesExt, FiniteSets

CONSTANTS
    Receivers,  \* tasks that receive, again and again
    Flushers,   \* tasks that flush once
    Docs,       \* documents that come for the channel
    Spurious,   \* tasks that are also polled without a wake-up
    Cancels     \* tasks whose futures may be dropped

ASSUME TaskAssumption == IsFiniteSet(Receivers) /\ Receivers \cap Flushers = {}

VARIABLES
    open,          \* entry.channel.is_some()
    unfinished,    \* SendDocMutable.doc is Some, or RecvDocState::Finishing
    flush_wakers,  \* wakers in the document, in Flushers.0 or SendDoc.flush_wakers
    ready_docs,    \* OpenChannel.ready_docs
    ready_wakers,  \* OpenChannel.ready_wakers
    waking,        \* wakers taken out and still to be called
    coming,        \* documents that are not complete yet
    task           \* task -> what it does

vars == <<open, unfinished, flush_wakers, ready_docs, ready_wakers, waking, coming, task>>

Tasks == Receivers \union Flushers

Init ==
    /\ open = TRUE /\ unfinished = TRUE
    /\ flush_wakers = <<>> /\ ready_docs = <<>> /\ ready_wakers = <<>> /\ waking = <<>>
    /\ coming = Docs
    /\ task = [t \in Tasks |-> "ready"]

\* The executor polls the task's future.
Polled(t) == task[t] \in {"ready", "woken"} \/ (t \in Spurious /\ task[t] = "waiting")

-----------------------------------------------------------------------------
(* RecvFuture.                                                             *)

\* ready_docs.pop(): the last one.
PollTakes(t) ==
    /\ Polled(t) /\ open /\ ready_docs # <<>>
    /\ ready_docs' = Front(ready_docs)
    /\ task' = [task EXCEPT ![t] = "ready"]
    /\ UNCHANGED <<open, unfinished, flush_wakers, ready_wakers, waking, coming>>

\* Mutant: a future registers its waker with its first poll only.
PollWaitsOnce(t) ==
    /\ Polled(t) /\ open /\ ready_docs = <<>>
    /\ ready_wakers' = IF task[t] = "woken" THEN ready_wakers ELSE Append(ready_wakers, t)
    /\ task' = [task EXCEPT ![t] = "waiting"]
    /\ UNCHANGED <<open, unfinished, flush_wakers, ready_docs, waking, coming>>

PollWaits(t) ==
    /\ Polled(t) /\ open /\ ready_docs = <<>>
    /\ ready_wakers' = Append(ready_wakers, t)
    /\ task' = [task EXCEPT ![t] = "waiting"]
    /\ UNCHANGED <<open, unfinished, flush_wakers, ready_docs, waking, coming>>

\* Err(Closed).
PollClosed(t) ==
    /\ Polled(t) /\ ~open
    /\ task' = [task EXCEPT ![t] = "done"]
    /\ UNCHANGED <<open, unfinished, flush_wakers, ready_docs, ready_wakers, waking, coming>>

-----------------------------------------------------------------------------
(* FlushFuture.                                                            *)

\* The first poll; a closed channel does not wait.
FlushWaits(t) ==
    /\ task[t] = "ready" /\ open /\ unfinished
    /\ flush_wakers' = Append(flush_wakers, t)
    /\ task' = [task EXCEPT ![t] = "waiting"]
    /\ UNCHANGED <<open, unfinished, ready_docs, ready_wakers, waking, coming>>

\* The first poll with nothing to wait for, and any second poll (has_waited).
FlushReady(t) ==
    /\ \/ task[t] = "ready" /\ ~(open /\ unfinished)
       \/ task[t] # "ready" /\ Polled(t)
    /\ task' = [task EXCEPT ![t] = "done"]
    /\ UNCHANGED <<open, unfinished, flush_wakers, ready_docs, ready_wakers, waking, coming>>

-----------------------------------------------------------------------------
(* What wakes them.                                                        *)

\* Mutant: the document of a closed channel forgets its wakers.
FlushWakersOpen == IF open THEN flush_wakers ELSE <<>>

\* Drop of Flushers and of SendDoc: all wakers are called.
FlushWakers == flush_wakers

\* The fin or the fin-ack comes, or the slot is reserved for another document: the document
\* is dropped, and its wakers are called.
Finish ==
    /\ unfinished
    /\ unfinished' = FALSE
    /\ flush_wakers' = <<>>
    /\ waking' = waking \o FlushWakers
    /\ UNCHANGED <<open, ready_docs, ready_wakers, coming, task>>

\* fin_doc posts a complete document; the last waker is taken out.
Post(d) ==
    /\ d \in coming
    /\ coming' = coming \ {d}
    /\ IF open
       THEN /\ ready_docs' = Append(ready_docs, d)
            /\ ready_wakers' = IF ready_wakers = <<>> THEN <<>> ELSE Front(ready_wakers)
            /\ waking' = IF ready_wakers = <<>> THEN waking ELSE Append(waking, Last(ready_wakers))
       ELSE UNCHANGED <<ready_docs, ready_wakers, waking>>
    /\ UNCHANGED <<open, unfinished, flush_wakers, task>>

\* Mutant: a closed channel tells only one of its waiting tasks.
ReadyWakersOne == IF ready_wakers = <<>> THEN <<>> ELSE <<Head(ready_wakers)>>

ReadyWakers == ready_wakers

\* close_if_inner takes the channel; drop_closed_channel drops its documents, then calls
\* its wakers.
Close ==
    /\ open
    /\ open' = FALSE
    /\ ready_docs' = <<>> /\ ready_wakers' = <<>>
    /\ waking' = waking \o ReadyWakers
    /\ UNCHANGED <<unfinished, flush_wakers, coming, task>>

\* waker.wake(): of no effect on a task that does not wait.
Wake(i) ==
    /\ waking' = RemoveAt(waking, i)
    /\ task' = [task EXCEPT ![waking[i]] = IF @ = "waiting" THEN "woken" ELSE @]
    /\ UNCHANGED <<open, unfinished, flush_wakers, ready_docs, ready_wakers, coming>>

\* A future is dropped; its waker stays where it is.
Cancel(t) ==
    /\ task[t] \in {"waiting", "woken"}
    /\ task' = [task EXCEPT ![t] = "done"]
    /\ UNCHANGED <<open, unfinished, flush_wakers, ready_docs, ready_wakers, waking, coming>>

RecvPoll(t) == PollTakes(t) \/ PollWaits(t) \/ PollClosed(t)
FlushPoll(t) == FlushWaits(t) \/ FlushReady(t)

Next ==
    \/ \E t \in Receivers : RecvPoll(t)
    \/ \E t \in Flushers : FlushPoll(t)
    \/ \E t \in Cancels : Cancel(t)
    \/ \E i \in DOMAIN waking : Wake(i)
    \/ \E d \in Docs : Post(d)
    \/ Finish
    \/ Close

Spec == Init /\ [][Next]_vars

\* A task that was woken is polled, and a thread that took wakers out calls them.  A task
\* need not start to wait, no document has to come, and nothing has to end.
Fairness ==
    /\ \A t \in Receivers : WF_vars(task[t] = "woken" /\ RecvPoll(t))
    /\ \A t \in Flushers : WF_vars(task[t] = "woken" /\ FlushPoll(t))
    /\ WF_vars(waking # <<>> /\ Wake(1))

FairSpec == Spec /\ Fairness

-----------------------------------------------------------------------------
(* Properties.                                                             *)

Waiting == {t \in Receivers : task[t] = "waiting"}

\* Receivers that have been, or are about to be, called.
Called == {t \in Receivers : task[t] = "woken" \/ (task[t] = "waiting" /\ Contains(waking, t))}

\* As long as a receiver sleeps uncalled, there is a called one for every ready document: a
\* document never lies in the channel with all who wait for it asleep, however polls,
\* posts and closes interleave.
NobodyForgotten == Waiting \ Called # {} => Len(ready_docs) <= Cardinality(Called)

\* No receiver sleeps for ever at a closed channel, or beside a ready document that nobody
\* takes.
ReceiversServed ==
    (Waiting # {} /\ (~open \/ ready_docs # <<>>)) ~> (Waiting = {} \/ (open /\ ready_docs = <<>>))

\* A flush returns once its document is finished, even if the channel was closed before.
FlushReturns == \A t \in Flushers : (~unfinished /\ task[t] = "waiting") ~> task[t] = "done"

\* "We only wake when we are sure": no waker of a flush is called while the document is
\* unfinished, and once it is finished every flush that still waits is on the list of those
\* to be called, closed channel or not and however tasks are polled and dropped.
FlushersCalled ==
    \A t \in Flushers :
        IF unfinished THEN task[t] # "woken" /\ ~Contains(waking, t)
        ELSE task[t] = "waiting" => Contains(waking, t)

\* flush_parent returns at an open channel only when the document is finished.
FlushMeansFinished ==
    [][\A t \in Flushers : task[t] # "done" /\ task'[t] = "done" /\ open => ~unfinished]_vars
=============================================================================
