---------------------------- MODULE WaitersProofs ---------------------------
(***************************************************************************)
(* Nobody is forgotten at a channel, for any number of tasks and of        *)
(* documents: receivers, as long as they are polled when they are woken    *)
(* and their futures are not dropped while they wait; flushes always.      *)
(***************************************************************************)
EXTENDS Waiters, SequenceTheorems, FiniteSetTheorems, TLAPS

\* A leaf that names no prover is tried with these, in this order.
USE SMTT(10), Zenon, Z3T(30)

\* No element of S is twice in s.
OnceIn(s, S) == \A i, j \in 1..Len(s) : s[i] = s[j] /\ s[i] \in S => i = j

-----------------------------------------------------------------------------
(* Queues of wakers.                                                       *)

\* The empty queue.
LEMMA NoneIn ==
    ASSUME NEW S, NEW R
    PROVE  <<>> \in Seq(S) /\ OnceIn(<<>>, R) /\ \A x : ~Contains(<<>>, x)
<1>1. <<>> \in Seq(S) /\ Len(<<>>) = 0
  BY EmptySeq
<1> QED
  BY <1>1 DEF OnceIn, Contains

\* A waker is appended.
LEMMA AppendIn ==
    ASSUME NEW S, NEW s \in Seq(S), NEW e \in S, NEW R
    PROVE  /\ Append(s, e) \in Seq(S)
           /\ \A x : Contains(Append(s, e), x) <=> Contains(s, x) \/ x = e
           /\ OnceIn(s, R) /\ (e \in R => ~Contains(s, e)) => OnceIn(Append(s, e), R)
<1>1. /\ Append(s, e) \in Seq(S) /\ Len(s) \in Nat /\ Len(Append(s, e)) = Len(s) + 1
      /\ \A i \in 1..Len(s) : Append(s, e)[i] = s[i]
      /\ Append(s, e)[Len(s) + 1] = e
  BY AppendProperties, LenProperties
<1>2. \A i \in 1..(Len(s) + 1) : i \in 1..Len(s) \/ i = Len(s) + 1
  BY <1>1
<1>3. ASSUME NEW x PROVE Contains(Append(s, e), x) <=> Contains(s, x) \/ x = e
  <2>1. 1..Len(s) \subseteq 1..(Len(s) + 1) /\ Len(s) + 1 \in 1..(Len(s) + 1)
    BY <1>1
  <2> QED
    BY <1>1, <1>2, <2>1, Zenon DEF Contains
<1>4. ASSUME OnceIn(s, R), e \in R => ~Contains(s, e) PROVE OnceIn(Append(s, e), R)
  BY <1>1, <1>2, <1>4, Zenon DEF OnceIn, Contains
<1> QED
  BY <1>1, <1>3, <1>4, Zenon

\* One queue is appended to another.
LEMMA ConcatIn ==
    ASSUME NEW S, NEW s \in Seq(S), NEW t \in Seq(S), NEW R
    PROVE  /\ s \o t \in Seq(S)
           /\ \A x : Contains(s \o t, x) <=> Contains(s, x) \/ Contains(t, x)
           /\ OnceIn(s, R) /\ OnceIn(t, R) /\ (\A x \in R : ~(Contains(s, x) /\ Contains(t, x)))
                => OnceIn(s \o t, R)
<1>1. /\ s \o t \in Seq(S) /\ Len(s) \in Nat /\ Len(t) \in Nat /\ Len(s \o t) = Len(s) + Len(t)
      /\ \A i \in 1..(Len(s) + Len(t)) : (s \o t)[i] = IF i <= Len(s) THEN s[i] ELSE t[i - Len(s)]
  BY ConcatProperties, LenProperties, Zenon
<1>2. \A i \in 1..Len(s) : i \in 1..(Len(s) + Len(t)) /\ (s \o t)[i] = s[i]
  BY <1>1
<1>3. \A i \in 1..Len(t) : i + Len(s) \in 1..(Len(s) + Len(t)) /\ (s \o t)[i + Len(s)] = t[i]
  <2>1. \A i \in 1..Len(t) : /\ i + Len(s) \in 1..(Len(s) + Len(t))
                             /\ ~(i + Len(s) <= Len(s)) /\ (i + Len(s)) - Len(s) = i
    BY <1>1
  <2> QED
    BY <1>1, <2>1, Zenon
<1>4. \A i \in 1..(Len(s) + Len(t)) :
        \/ i \in 1..Len(s) /\ (s \o t)[i] = s[i]
        \/ i - Len(s) \in 1..Len(t) /\ (s \o t)[i] = t[i - Len(s)]
  BY <1>1
<1>5. ASSUME NEW x PROVE Contains(s \o t, x) <=> Contains(s, x) \/ Contains(t, x)
  BY <1>1, <1>2, <1>3, <1>4, ZenonT(30) DEF Contains
<1>6. ASSUME OnceIn(s, R), OnceIn(t, R), \A x \in R : ~(Contains(s, x) /\ Contains(t, x))
      PROVE  OnceIn(s \o t, R)
  <2> SUFFICES ASSUME NEW i \in 1..(Len(s) + Len(t)), NEW j \in 1..(Len(s) + Len(t)),
                      (s \o t)[i] = (s \o t)[j], (s \o t)[i] \in R
               PROVE  i = j
    BY <1>1 DEF OnceIn
  <2>1. CASE i \in 1..Len(s) /\ j \in 1..Len(s)
    BY <1>2, <1>6, <2>1 DEF OnceIn
  <2>2. CASE i - Len(s) \in 1..Len(t) /\ j - Len(s) \in 1..Len(t)
    <3>1. t[i - Len(s)] = t[j - Len(s)] /\ t[i - Len(s)] \in R
      BY <1>1, <2>2
    <3>2. i - Len(s) = j - Len(s)
      BY <1>6, <2>2, <3>1, Zenon DEF OnceIn
    <3> QED
      BY <1>1, <3>2
  <2>3. CASE i \in 1..Len(s) /\ j - Len(s) \in 1..Len(t)
    <3>1. s[i] = t[j - Len(s)] /\ s[i] \in R
      BY <1>1, <2>3
    <3> QED
      BY <1>6, <2>3, <3>1, Zenon DEF Contains
  <2>4. CASE i - Len(s) \in 1..Len(t) /\ j \in 1..Len(s)
    <3>1. s[j] = t[i - Len(s)] /\ s[j] \in R
      BY <1>1, <2>4
    <3> QED
      BY <1>6, <2>4, <3>1, Zenon DEF Contains
  <2> QED
    BY <1>4, <2>1, <2>2, <2>3, <2>4
<1> QED
  BY <1>1, <1>5, <1>6, Zenon

\* The first n elements.
LEMMA PrefixIs ==
    ASSUME NEW S, NEW s, NEW n \in Nat, \A i \in 1..n : s[i] \in S
    PROVE  /\ SubSeq(s, 1, n) \in Seq(S) /\ Len(SubSeq(s, 1, n)) = n
           /\ \A i \in 1..n : SubSeq(s, 1, n)[i] = s[i]
<1>1. 1 \in Int /\ n \in Int
  OBVIOUS
<1>2. /\ SubSeq(s, 1, n) \in Seq(S)
      /\ Len(SubSeq(s, 1, n)) = IF 1 <= n THEN n - 1 + 1 ELSE 0
      /\ \A i \in 1..(n - 1 + 1) : SubSeq(s, 1, n)[i] = s[1 + i - 1]
  BY <1>1, SubSeqProperties
<1>3. \A i \in 1..n : i \in 1..(n - 1 + 1) /\ 1 + i - 1 = i
  OBVIOUS
<1> QED
  BY <1>2, <1>3

\* The last waker is taken out.
LEMMA FrontIn ==
    ASSUME NEW S, NEW s \in Seq(S), s # <<>>, NEW R
    PROVE  /\ Front(s) \in Seq(S) /\ Len(Front(s)) = Len(s) - 1 /\ Last(s) \in S
           /\ Contains(s, Last(s))
           /\ \A x : Contains(Front(s), x) => Contains(s, x)
           /\ \A x : Contains(s, x) /\ x # Last(s) => Contains(Front(s), x)
           /\ OnceIn(s, R) => OnceIn(Front(s), R)
           /\ OnceIn(s, R) /\ Last(s) \in R => ~Contains(Front(s), Last(s))
<1>1. Len(s) \in Nat \ {0} /\ \A i \in 1..Len(s) : s[i] \in S
  BY EmptySeq, LenProperties, ElementOfSeq, Zenon
<1>2. /\ Front(s) \in Seq(S) /\ Len(Front(s)) = Len(s) - 1
      /\ \A i \in 1..(Len(s) - 1) : Front(s)[i] = s[i]
  <2>1. Len(s) - 1 \in Nat /\ \A i \in 1..(Len(s) - 1) : s[i] \in S
    BY <1>1
  <2>2. PICK n \in Nat : n = Len(s) - 1
    BY <2>1, Zenon
  <2>3. Front(s) = SubSeq(s, 1, n)
    BY <2>2, Zenon DEF Front
  <2>4. /\ SubSeq(s, 1, n) \in Seq(S) /\ Len(SubSeq(s, 1, n)) = n
        /\ \A i \in 1..n : SubSeq(s, 1, n)[i] = s[i]
    BY <2>1, <2>2, PrefixIs
  <2> QED
    BY <2>2, <2>3, <2>4, Zenon
<1>3. Last(s) = s[Len(s)] /\ Len(s) \in 1..Len(s)
  BY <1>1 DEF Last
<1>4. \A i \in 1..Len(s) : i \in 1..(Len(s) - 1) \/ i = Len(s)
  BY <1>1
<1>5. 1..(Len(s) - 1) \subseteq 1..Len(s) /\ Len(s) \notin 1..(Len(s) - 1)
  BY <1>1
<1>6. ASSUME NEW x PROVE /\ Contains(Front(s), x) => Contains(s, x)
                         /\ Contains(s, x) /\ x # Last(s) => Contains(Front(s), x)
  BY <1>2, <1>3, <1>4, <1>5, Zenon DEF Contains
<1>7. ASSUME OnceIn(s, R)
      PROVE  OnceIn(Front(s), R) /\ (Last(s) \in R => ~Contains(Front(s), Last(s)))
  BY <1>2, <1>3, <1>5, <1>7, ZenonT(30) DEF OnceIn, Contains
<1> QED
  BY <1>1, <1>2, <1>3, <1>6, <1>7, Zenon DEF Contains

\* A waker is taken out anywhere.
LEMMA RemoveIn ==
    ASSUME NEW S, NEW s \in Seq(S), NEW k \in 1..Len(s), NEW R
    PROVE  /\ RemoveAt(s, k) \in Seq(S) /\ s[k] \in S
           /\ \A x : Contains(RemoveAt(s, k), x) => Contains(s, x)
           /\ \A x : Contains(s, x) /\ x # s[k] => Contains(RemoveAt(s, k), x)
           /\ OnceIn(s, R) => OnceIn(RemoveAt(s, k), R)
           /\ OnceIn(s, R) /\ s[k] \in R => ~Contains(RemoveAt(s, k), s[k])
<1>1. Len(s) \in Nat \ {0} /\ \A i \in 1..Len(s) : s[i] \in S
  BY LenProperties, ElementOfSeq
<1> DEFINE a == SubSeq(s, 1, k - 1)
           b == SubSeq(s, k + 1, Len(s))
<1>2. /\ a \in Seq(S) /\ Len(a) = k - 1
      /\ \A i \in 1..(k - 1) : a[i] = s[i]
  <2>1. k - 1 \in Nat /\ \A i \in 1..(k - 1) : s[i] \in S
    BY <1>1
  <2> QED
    BY <2>1, PrefixIs
<1>3. /\ b \in Seq(S) /\ Len(b) = Len(s) - k
      /\ \A i \in 1..(Len(s) - k) : b[i] = s[k + i]
  <2>1. k + 1 \in Int /\ Len(s) \in Int /\ \A i \in (k + 1)..Len(s) : s[i] \in S
    BY <1>1
  <2>2. /\ SubSeq(s, k + 1, Len(s)) \in Seq(S)
        /\ Len(SubSeq(s, k + 1, Len(s))) = IF k + 1 <= Len(s) THEN Len(s) - (k + 1) + 1 ELSE 0
        /\ \A i \in 1..(Len(s) - (k + 1) + 1) : SubSeq(s, k + 1, Len(s))[i] = s[k + 1 + i - 1]
    BY <2>1, SubSeqProperties
  <2> QED
    BY <1>1, <2>2
<1>4. RemoveAt(s, k) = a \o b
  BY Zenon DEF RemoveAt
<1> HIDE DEF a, b
<1>5. /\ RemoveAt(s, k) \in Seq(S)
      /\ \A x : Contains(RemoveAt(s, k), x) <=> Contains(a, x) \/ Contains(b, x)
      /\ OnceIn(a, R) /\ OnceIn(b, R) /\ (\A x \in R : ~(Contains(a, x) /\ Contains(b, x)))
           => OnceIn(RemoveAt(s, k), R)
  <2>1. /\ a \o b \in Seq(S)
        /\ \A x : Contains(a \o b, x) <=> Contains(a, x) \/ Contains(b, x)
        /\ OnceIn(a, R) /\ OnceIn(b, R) /\ (\A x \in R : ~(Contains(a, x) /\ Contains(b, x)))
             => OnceIn(a \o b, R)
    BY <1>2, <1>3, ConcatIn, ZenonT(30)
  <2> QED
    BY <1>4, <2>1, Zenon
<1>6. \A x : Contains(a, x) <=> \E i \in 1..(k - 1) : s[i] = x
  BY <1>2 DEF Contains
<1>7. \A x : Contains(b, x) <=> \E i \in (k + 1)..Len(s) : s[i] = x
  <2>1. ASSUME NEW i \in (k + 1)..Len(s) PROVE i - k \in 1..(Len(s) - k) /\ b[i - k] = s[i]
    <3>1. i - k \in 1..(Len(s) - k) /\ k + (i - k) = i
      BY <1>1
    <3> QED
      BY <1>3, <3>1, Zenon
  <2>2. \A i \in 1..(Len(s) - k) : k + i \in (k + 1)..Len(s)
    BY <1>1
  <2> QED
    BY <1>3, <2>1, <2>2, Zenon DEF Contains
<1>8. \A i \in 1..Len(s) : i \in 1..(k - 1) \/ i = k \/ i \in (k + 1)..Len(s)
  BY <1>1
<1>9. \A i \in 1..(k - 1) : i \in 1..Len(s) /\ i # k /\ i \notin (k + 1)..Len(s)
  BY <1>1
<1>10. \A i \in (k + 1)..Len(s) : i \in 1..Len(s) /\ i # k
  BY <1>1
<1>11. ASSUME NEW x PROVE /\ Contains(RemoveAt(s, k), x) => Contains(s, x)
                          /\ Contains(s, x) /\ x # s[k] => Contains(RemoveAt(s, k), x)
  BY <1>5, <1>6, <1>7, <1>8, <1>9, <1>10, ZenonT(30) DEF Contains
<1>12. ASSUME OnceIn(s, R)
       PROVE  /\ OnceIn(RemoveAt(s, k), R)
              /\ s[k] \in R => ~Contains(RemoveAt(s, k), s[k])
  <2>1. OnceIn(a, R)
    <3>1. \A i \in 1..(k - 1) : i \in 1..Len(s)
      BY <1>9, Zenon
    <3> QED
      BY <1>2, <1>12, <3>1, Zenon DEF OnceIn
  <2>2. OnceIn(b, R)
    <3> SUFFICES ASSUME NEW i \in 1..(Len(s) - k), NEW j \in 1..(Len(s) - k), b[i] = b[j], b[i] \in R
                 PROVE  i = j
      BY <1>3, Zenon DEF OnceIn
    <3>1. k + i \in 1..Len(s) /\ k + j \in 1..Len(s) /\ s[k + i] = s[k + j] /\ s[k + i] \in R
      BY <1>1, <1>3
    <3>2. k + i = k + j
      BY <1>12, <3>1, Zenon DEF OnceIn
    <3> QED
      BY <3>2
  <2>3. \A x \in R : ~(Contains(a, x) /\ Contains(b, x))
    BY <1>6, <1>7, <1>9, <1>10, <1>12 DEF OnceIn
  <2>4. s[k] \in R => ~Contains(RemoveAt(s, k), s[k])
    BY <1>5, <1>6, <1>7, <1>9, <1>10, <1>12, ZenonT(30) DEF OnceIn
  <2> QED
    BY <1>5, <2>1, <2>2, <2>3, <2>4, ZenonT(30)
<1> QED
  BY <1>1, <1>5, <1>11, <1>12, ZenonT(30)

-----------------------------------------------------------------------------
(* The receivers.                                                          *)

\* The tasks of S are polled only when they are new or were woken, and their futures are not
\* dropped while they wait.
Orderly(S) == Spurious \cap S = {} /\ Cancels \cap S = {}

Typed ==
    /\ open \in BOOLEAN
    /\ ready_docs \in Seq(Docs) /\ ready_wakers \in Seq(Receivers)
    /\ flush_wakers \in Seq(Flushers) /\ waking \in Seq(Tasks)
    /\ task \in [Tasks -> {"ready", "waiting", "woken", "done"}]

\* A receiver that waits has one waker, either in the channel or taken out of it, and one that
\* does not wait has none.
Registered ==
    /\ OnceIn(ready_wakers, Receivers) /\ OnceIn(waking, Receivers)
    /\ \A t \in Receivers : (Contains(ready_wakers, t) \/ Contains(waking, t)) <=> task[t] = "waiting"
    /\ \A t \in Receivers : ~(Contains(ready_wakers, t) /\ Contains(waking, t))

\* A closed channel has neither documents nor wakers.
ClosedEmpty == ~open => ready_wakers = <<>> /\ ready_docs = <<>>

WaitInv == Typed /\ Registered /\ ClosedEmpty /\ NobodyForgotten

\* WaitInv holds at first: nobody waits.
LEMMA InitWait == Init => WaitInv
<1> SUFFICES ASSUME Init PROVE WaitInv
  OBVIOUS
<1>1. \A S, R : <<>> \in Seq(S) /\ OnceIn(<<>>, R) /\ \A x : ~Contains(<<>>, x)
  BY NoneIn, ZenonT(30)
<1>2. Typed
  BY <1>1 DEF Init, Typed, Tasks
<1>3. Registered /\ ClosedEmpty
  BY <1>1 DEF Init, Registered, ClosedEmpty, Tasks
<1>4. Waiting = {}
  BY DEF Init, Waiting, Tasks
<1>5. NobodyForgotten
  BY <1>4, Zenon DEF NobodyForgotten
<1> QED
  BY <1>2, <1>3, <1>5, Zenon DEF WaitInv

\* The called receivers are finitely many.
LEMMA CalledFinite == IsFiniteSet(Called) /\ Cardinality(Called) \in Nat
<1>1. Called \subseteq Receivers
  BY DEF Called
<1> QED
  BY <1>1, TaskAssumption, FS_Subset, FS_CardinalityType, ZenonT(30)

\* A step that changes no receiver, neither queue of the channel, and nothing of the wakers that
\* were taken out but those of flushers, keeps the invariant.
LEMMA OthersKeep ==
    ASSUME WaitInv, Typed', UNCHANGED <<open, ready_docs, ready_wakers>>,
           \A t \in Receivers : task'[t] = task[t] /\ (Contains(waking', t) <=> Contains(waking, t)),
           OnceIn(waking', Receivers)
    PROVE  WaitInv'
<1>1. Registered' /\ ClosedEmpty'
  BY DEF WaitInv, Registered, ClosedEmpty
<1>2. Waiting' = Waiting /\ Called' = Called
  BY DEF Waiting, Called
<1>3. NobodyForgotten'
  BY <1>2 DEF WaitInv, NobodyForgotten
<1> QED
  BY <1>1, <1>3, ZenonT(30) DEF WaitInv

\* Every step preserves WaitInv if the receivers are orderly.
LEMMA StepWait == Orderly(Receivers) /\ WaitInv /\ [Next]_vars => WaitInv'
<1> SUFFICES ASSUME Orderly(Receivers), WaitInv, [Next]_vars PROVE WaitInv'
  OBVIOUS
<1>t. Typed /\ Registered /\ ClosedEmpty /\ NobodyForgotten
  BY DEF WaitInv
<1>d. Receivers \subseteq Tasks /\ Flushers \subseteq Tasks
      /\ \A t \in Flushers : t \notin Receivers
  BY TaskAssumption, Zenon DEF Tasks
<1>f. IsFiniteSet(Called) /\ Cardinality(Called) \in Nat /\ Len(ready_docs) \in Nat
  BY <1>t, CalledFinite, LenProperties, ZenonT(30) DEF Typed
<1>1. ASSUME NEW t \in Receivers, PollTakes(t) PROVE WaitInv'
  <2>1. /\ task[t] \in {"ready", "woken"} /\ ready_docs # <<>>
        /\ ready_docs' = Front(ready_docs)
        /\ task' = [task EXCEPT ![t] = "ready"]
        /\ UNCHANGED <<open, flush_wakers, ready_wakers, waking>> /\ open
    BY <1>1 DEF PollTakes, Polled, Orderly
  <2>2. /\ task'[t] = "ready" /\ \A u \in Receivers : u # t => task'[u] = task[u]
        /\ task' \in [Tasks -> {"ready", "waiting", "woken", "done"}]
    BY <1>t, <1>d, <2>1, ZenonT(30) DEF Typed
  <2>3. Front(ready_docs) \in Seq(Docs) /\ Len(Front(ready_docs)) = Len(ready_docs) - 1
    BY <1>t, <2>1, FrontIn, ZenonT(30) DEF Typed
  <2>4. Typed'
    BY <1>t, <2>1, <2>2, <2>3, ZenonT(30) DEF Typed
  <2>5. Registered' /\ ClosedEmpty'
    BY <1>t, <2>1, <2>2, ZenonT(30) DEF Registered, ClosedEmpty
  <2>6. Waiting' = Waiting /\ Called' = Called \ {t} /\ t \notin Waiting
    BY <2>1, <2>2, Zenon DEF Waiting, Called
  <2>7. Cardinality(Called \ {t}) >= Cardinality(Called) - 1
    <3>1. Cardinality(Called \ {t}) = IF t \in Called THEN Cardinality(Called) - 1
                                                     ELSE Cardinality(Called)
      BY <1>f, FS_RemoveElement, Zenon
    <3>2. Cardinality(Called) \in Nat
      BY <1>f
    <3> QED
      BY <3>1, <3>2
  <2>8. IsFiniteSet(Called \ {t}) /\ Cardinality(Called \ {t}) \in Nat
    BY <1>f, FS_Subset, FS_CardinalityType, ZenonT(30)
  <2>9. Waiting \ Called = Waiting' \ Called'
    BY <2>6
  <2>10. Waiting \ Called # {} => Len(ready_docs) - 1 <= Cardinality(Called \ {t})
    BY <1>t, <1>f, <2>7, <2>8 DEF NobodyForgotten
  <2>11. NobodyForgotten'
    BY <2>1, <2>3, <2>6, <2>9, <2>10, ZenonT(30) DEF NobodyForgotten
  <2> QED
    BY <2>4, <2>5, <2>11, ZenonT(30) DEF WaitInv
<1>2. ASSUME NEW t \in Receivers, PollWaits(t) PROVE WaitInv'
  <2>1. /\ task[t] \in {"ready", "woken"} /\ ready_docs = <<>> /\ open
        /\ ready_wakers' = Append(ready_wakers, t)
        /\ task' = [task EXCEPT ![t] = "waiting"]
        /\ UNCHANGED <<open, flush_wakers, ready_docs, waking>>
    BY <1>2, Zenon DEF PollWaits, Polled, Orderly
  <2>2. /\ task'[t] = "waiting" /\ \A u \in Receivers : u # t => task'[u] = task[u]
        /\ task' \in [Tasks -> {"ready", "waiting", "woken", "done"}]
    BY <1>t, <1>d, <2>1, ZenonT(30) DEF Typed
  <2>3. ~Contains(ready_wakers, t) /\ ~Contains(waking, t)
    BY <1>t, <2>1, Zenon DEF Registered
  <2>4. /\ ready_wakers' \in Seq(Receivers) /\ OnceIn(ready_wakers', Receivers)
        /\ \A x : Contains(ready_wakers', x) <=> Contains(ready_wakers, x) \/ x = t
    BY <1>t, <2>1, <2>3, AppendIn, ZenonT(30) DEF Typed, Registered
  <2>5. Typed'
    BY <1>t, <2>1, <2>2, <2>4, ZenonT(30) DEF Typed
  <2>6. Registered' /\ ClosedEmpty'
    BY <1>t, <2>1, <2>2, <2>3, <2>4, ZenonT(30) DEF Registered, ClosedEmpty
  <2>7. Cardinality(Called') \in Nat
    <3>1. Called' \subseteq Receivers
      BY DEF Called
    <3> QED
      BY <3>1, TaskAssumption, FS_Subset, FS_CardinalityType, ZenonT(30)
  <2>8. Len(ready_docs') = 0
    BY <2>1, EmptySeq, Zenon
  <2>9. NobodyForgotten'
    BY <2>7, <2>8 DEF NobodyForgotten
  <2> QED
    BY <2>5, <2>6, <2>9 DEF WaitInv
<1>3. ASSUME NEW t \in Receivers, PollClosed(t) PROVE WaitInv'
  <2>1. /\ task[t] \in {"ready", "woken"} /\ ~open
        /\ task' = [task EXCEPT ![t] = "done"]
        /\ UNCHANGED <<open, flush_wakers, ready_docs, ready_wakers, waking>>
    BY <1>3 DEF PollClosed, Polled, Orderly
  <2>2. /\ task'[t] = "done" /\ \A u \in Receivers : u # t => task'[u] = task[u]
        /\ task' \in [Tasks -> {"ready", "waiting", "woken", "done"}]
    BY <1>t, <1>d, <2>1, ZenonT(30) DEF Typed
  <2>3. Typed' /\ ClosedEmpty'
    BY <1>t, <2>1, <2>2, ZenonT(30) DEF Typed, ClosedEmpty
  <2>4. Registered'
    BY <1>t, <2>1, <2>2, ZenonT(30) DEF Registered
  <2>5. Cardinality(Called') \in Nat
    <3>1. Called' \subseteq Receivers
      BY DEF Called
    <3> QED
      BY <3>1, TaskAssumption, FS_Subset, FS_CardinalityType
  <2>6. Len(ready_docs') = 0
    BY <1>t, <2>1, EmptySeq, ZenonT(30) DEF ClosedEmpty
  <2>7. NobodyForgotten'
    BY <2>5, <2>6 DEF NobodyForgotten
  <2> QED
    BY <2>3, <2>4, <2>7, ZenonT(30) DEF WaitInv
<1>4. ASSUME NEW t \in Flushers, FlushPoll(t) PROVE WaitInv'
  <2>1. /\ UNCHANGED <<open, ready_docs, ready_wakers, waking>>
        /\ flush_wakers' = flush_wakers \/ flush_wakers' = Append(flush_wakers, t)
        /\ \E label \in {"waiting", "done"} : task' = [task EXCEPT ![t] = label]
    BY <1>4, Zenon DEF FlushPoll, FlushWaits, FlushReady
  <2>2. flush_wakers' \in Seq(Flushers)
    <3>1. flush_wakers \in Seq(Flushers)
      BY <1>t DEF Typed
    <3>2. Append(flush_wakers, t) \in Seq(Flushers)
      BY <3>1, AppendProperties, ZenonT(30)
    <3> QED
      BY <2>1, <3>1, <3>2, ZenonT(30)
  <2>3. /\ task' \in [Tasks -> {"ready", "waiting", "woken", "done"}]
        /\ \A u \in Receivers : task'[u] = task[u]
    BY <1>t, <1>d, <2>1, ZenonT(30) DEF Typed
  <2>4. Typed'
    BY <1>t, <2>1, <2>2, <2>3, ZenonT(30) DEF Typed
  <2> QED
    BY <1>t, <2>1, <2>3, <2>4, OthersKeep, ZenonT(30) DEF Registered
<1>5. ASSUME NEW t \in Cancels, Cancel(t) PROVE WaitInv'
  <2>1. /\ UNCHANGED <<open, ready_docs, ready_wakers, waking, flush_wakers>>
        /\ task' = [task EXCEPT ![t] = "done"] /\ t \notin Receivers
    BY <1>5, ZenonT(30) DEF Cancel, Orderly
  <2>2. /\ task' \in [Tasks -> {"ready", "waiting", "woken", "done"}]
        /\ \A u \in Receivers : task'[u] = task[u]
    BY <1>t, <1>d, <2>1, ZenonT(30) DEF Typed
  <2>3. Typed'
    BY <1>t, <2>1, <2>2, ZenonT(30) DEF Typed
  <2> QED
    BY <1>t, <2>1, <2>2, <2>3, OthersKeep, ZenonT(30) DEF Registered
<1>6. ASSUME NEW k \in DOMAIN waking, Wake(k) PROVE WaitInv'
  <2>0. k \in 1..Len(waking)
    BY <1>t, LenProperties, ZenonT(30) DEF Typed
  <2> DEFINE w == waking[k]
  <2>1. /\ waking' = RemoveAt(waking, k)
        /\ task' = [task EXCEPT ![w] = IF @ = "waiting" THEN "woken" ELSE @]
        /\ UNCHANGED <<open, flush_wakers, ready_docs, ready_wakers>>
    BY <1>6, Zenon DEF Wake
  <2>2. /\ waking' \in Seq(Tasks) /\ w \in Tasks /\ OnceIn(waking', Receivers)
        /\ \A x : Contains(waking', x) => Contains(waking, x)
        /\ \A x : Contains(waking, x) /\ x # w => Contains(waking', x)
        /\ w \in Receivers => ~Contains(waking', w)
    <3>1. waking \in Seq(Tasks) /\ OnceIn(waking, Receivers)
      BY <1>t, Zenon DEF Typed, Registered
    <3> QED
      BY <2>0, <2>1, <3>1, RemoveIn, ZenonT(30)
  <2>3. Contains(waking, w)
    BY <2>0, Zenon DEF Contains
  <2>4. w \in Receivers => task[w] = "waiting"
    BY <1>t, <2>3, Zenon DEF Registered
  <2> HIDE DEF w
  <2>5. /\ task' \in [Tasks -> {"ready", "waiting", "woken", "done"}]
        /\ \A u \in Receivers : u # w => task'[u] = task[u]
        /\ w \in Receivers => task'[w] = "woken"
    BY <1>t, <1>d, <2>1, <2>2, <2>4, ZenonT(30) DEF Typed
  <2>6. Typed' /\ ClosedEmpty'
    BY <1>t, <2>1, <2>2, <2>5, ZenonT(30) DEF Typed, ClosedEmpty
  <2>7. Registered'
    BY <1>t, <2>1, <2>2, <2>3, <2>5, ZenonT(30) DEF Registered
  <2>8. Called' = Called /\ Waiting' \ Called' = Waiting \ Called
    BY <2>2, <2>3, <2>4, <2>5, Zenon DEF Called, Waiting
  <2>9. NobodyForgotten'
    BY <1>t, <2>1, <2>8, ZenonT(30) DEF NobodyForgotten
  <2> QED
    BY <2>6, <2>7, <2>9, ZenonT(30) DEF WaitInv
<1>7. ASSUME NEW d \in Docs, Post(d) PROVE WaitInv'
  <2>1. CASE ~open
    <3>1. UNCHANGED <<open, ready_docs, ready_wakers, waking, flush_wakers, task>>
      BY <1>7, <2>1, ZenonT(30) DEF Post
    <3>2. Typed'
      BY <1>t, <3>1, ZenonT(30) DEF Typed
    <3> QED
      BY <1>t, <3>1, <3>2, OthersKeep, ZenonT(30) DEF Registered
  <2>2. CASE open /\ ready_wakers = <<>>
    <3>1. /\ ready_docs' = Append(ready_docs, d)
          /\ UNCHANGED <<open, flush_wakers, task, waking, ready_wakers>>
      BY <1>7, <2>2, ZenonT(30) DEF Post
    <3>2. ready_docs' \in Seq(Docs)
      BY <1>t, <3>1, AppendIn, ZenonT(30) DEF Typed
    <3>3. Typed' /\ ClosedEmpty'
      BY <1>t, <2>2, <3>1, <3>2, ZenonT(30) DEF Typed, ClosedEmpty
    <3>4. Registered'
      BY <1>t, <3>1, Zenon DEF Registered
    <3>5. \A t \in Receivers : ~Contains(ready_wakers, t)
      BY <2>2, NoneIn, ZenonT(30)
    <3>6. Waiting' \ Called' = {}
      BY <1>t, <3>1, <3>5, ZenonT(30) DEF Waiting, Called, Registered
    <3>7. NobodyForgotten'
      BY <3>6, Zenon DEF NobodyForgotten
    <3> QED
      BY <3>3, <3>4, <3>7, ZenonT(30) DEF WaitInv
  <2>3. CASE open /\ ready_wakers # <<>>
    <3> DEFINE w == Last(ready_wakers)
    <3>1. /\ ready_docs' = Append(ready_docs, d)
          /\ ready_wakers' = Front(ready_wakers)
          /\ waking' = Append(waking, w)
          /\ UNCHANGED <<open, flush_wakers, task>>
      BY <1>7, <2>3, ZenonT(30) DEF Post
    <3>2. ready_docs' \in Seq(Docs) /\ Len(ready_docs') = Len(ready_docs) + 1
      BY <1>t, <3>1, AppendProperties, ZenonT(30) DEF Typed
    <3>3. /\ ready_wakers' \in Seq(Receivers) /\ w \in Receivers
          /\ OnceIn(ready_wakers', Receivers) /\ Contains(ready_wakers, w)
          /\ \A x : Contains(ready_wakers', x) => Contains(ready_wakers, x)
          /\ \A x : Contains(ready_wakers, x) /\ x # w => Contains(ready_wakers', x)
          /\ ~Contains(ready_wakers', w)
      <4>1. ready_wakers \in Seq(Receivers) /\ OnceIn(ready_wakers, Receivers) /\ ready_wakers # <<>>
        BY <1>t, <2>3, ZenonT(30) DEF Typed, Registered
      <4> QED
        BY <3>1, <4>1, FrontIn, ZenonT(30)
    <3> HIDE DEF w
    <3>4. task[w] = "waiting" /\ ~Contains(waking, w)
      BY <1>t, <3>3, ZenonT(30) DEF Registered
    <3>5. /\ waking' \in Seq(Tasks) /\ OnceIn(waking', Receivers)
          /\ \A x : Contains(waking', x) <=> Contains(waking, x) \/ x = w
      <4>1. waking \in Seq(Tasks) /\ w \in Tasks /\ OnceIn(waking, Receivers)
        BY <1>t, <1>d, <3>3, ZenonT(30) DEF Typed, Registered
      <4> QED
        BY <3>1, <3>4, <4>1, AppendIn, ZenonT(30)
    <3>6. Typed' /\ ClosedEmpty'
      BY <1>t, <2>3, <3>1, <3>2, <3>3, <3>5, ZenonT(30) DEF Typed, ClosedEmpty
    <3>7. Registered'
      BY <1>t, <3>1, <3>3, <3>4, <3>5, ZenonT(30) DEF Registered
    <3>8. Waiting' = Waiting /\ Called' = Called \cup {w} /\ w \notin Called
      BY <3>1, <3>3, <3>4, <3>5, ZenonT(30) DEF Waiting, Called
    <3>9. Cardinality(Called') = Cardinality(Called) + 1
      BY <1>f, <3>8, FS_AddElement, ZenonT(30)
    <3>10. Waiting' \ Called' # {} => Waiting \ Called # {}
      BY <3>8, Zenon
    <3>11. Waiting \ Called # {} => Len(ready_docs) + 1 <= Cardinality(Called) + 1
      BY <1>t, <1>f DEF NobodyForgotten
    <3>12. NobodyForgotten'
      BY <3>2, <3>9, <3>10, <3>11, ZenonT(30) DEF NobodyForgotten
    <3> QED
      BY <3>6, <3>7, <3>12 DEF WaitInv
  <2> QED
    BY <1>t, <2>1, <2>2, <2>3, ZenonT(30) DEF Typed
<1>8. ASSUME Finish PROVE WaitInv'
  <2>1. /\ flush_wakers' = <<>> /\ waking' = waking \o flush_wakers
        /\ UNCHANGED <<open, ready_docs, ready_wakers, task>>
    BY <1>8, Zenon DEF Finish, FlushWakers
  <2>2. flush_wakers \in Seq(Tasks) /\ flush_wakers' \in Seq(Flushers)
    BY <1>t, <1>d, <2>1, SeqMonotonic, EmptySeq, ZenonT(30) DEF Typed
  <2>3. \A i \in 1..Len(flush_wakers) : flush_wakers[i] \in Flushers
    BY <1>t, ElementOfSeq, Zenon DEF Typed
  <2>4. OnceIn(flush_wakers, Receivers) /\ \A x \in Receivers : ~Contains(flush_wakers, x)
    BY <1>d, <2>3, Zenon DEF OnceIn, Contains
  <2>5. /\ waking' \in Seq(Tasks) /\ OnceIn(waking', Receivers)
        /\ \A x : Contains(waking', x) <=> Contains(waking, x) \/ Contains(flush_wakers, x)
    <3>1. waking \in Seq(Tasks) /\ OnceIn(waking, Receivers)
      BY <1>t, Zenon DEF Typed, Registered
    <3> QED
      BY <2>1, <2>2, <2>4, <3>1, ConcatIn, ZenonT(30)
  <2>6. Typed'
    BY <1>t, <2>1, <2>2, <2>5, ZenonT(30) DEF Typed
  <2> QED
    BY <2>1, <2>4, <2>5, <2>6, OthersKeep, ZenonT(30)
<1>9. ASSUME Close PROVE WaitInv'
  <2>1. /\ ~open' /\ ready_docs' = <<>> /\ ready_wakers' = <<>>
        /\ open' \in BOOLEAN
        /\ waking' = waking \o ready_wakers
        /\ UNCHANGED <<flush_wakers, task>>
    BY <1>9, Zenon DEF Close, ReadyWakers
  <2>2. /\ <<>> \in Seq(Docs) /\ <<>> \in Seq(Receivers) /\ Len(<<>>) = 0
        /\ OnceIn(<<>>, Receivers) /\ \A x : ~Contains(<<>>, x)
    BY NoneIn, EmptySeq, ZenonT(30)
  <2>3. /\ waking' \in Seq(Tasks) /\ OnceIn(waking', Receivers)
        /\ \A x : Contains(waking', x) <=> Contains(waking, x) \/ Contains(ready_wakers, x)
    <3>1. waking \in Seq(Tasks) /\ OnceIn(waking, Receivers) /\ OnceIn(ready_wakers, Receivers)
      BY <1>t, Zenon DEF Typed, Registered
    <3>2. ready_wakers \in Seq(Tasks)
      BY <1>t, <1>d, SeqMonotonic, ZenonT(30) DEF Typed
    <3>3. \A x \in Receivers : ~(Contains(waking, x) /\ Contains(ready_wakers, x))
      BY <1>t, Zenon DEF Registered
    <3> QED
      BY <2>1, <3>1, <3>2, <3>3, ConcatIn, ZenonT(30)
  <2>4. Typed' /\ ClosedEmpty'
    BY <1>t, <2>1, <2>2, <2>3, ZenonT(30) DEF Typed, ClosedEmpty
  <2>5. Registered'
    BY <1>t, <2>1, <2>2, <2>3, ZenonT(30) DEF Registered
  <2>6. Cardinality(Called') \in Nat
    <3>1. Called' \subseteq Receivers
      BY DEF Called
    <3> QED
      BY <3>1, TaskAssumption, FS_Subset, FS_CardinalityType, ZenonT(30)
  <2>7. NobodyForgotten'
    BY <2>1, <2>2, <2>6 DEF NobodyForgotten
  <2> QED
    BY <2>4, <2>5, <2>7, ZenonT(30) DEF WaitInv
<1>10. ASSUME UNCHANGED vars PROVE WaitInv'
  <2>1. UNCHANGED <<open, ready_docs, ready_wakers, flush_wakers, waking, task>>
    BY <1>10, Zenon DEF vars
  <2>2. Typed'
    BY <1>t, <2>1, ZenonT(30) DEF Typed
  <2> QED
    BY <1>t, <2>1, <2>2, OthersKeep, ZenonT(30) DEF Registered
<1> QED
  BY <1>1, <1>2, <1>3, <1>4, <1>5, <1>6, <1>7, <1>8, <1>9, <1>10, ZenonT(30) DEF Next, RecvPoll

\* As long as a receiver sleeps uncalled there is a called one for every ready document, for any
\* number of receivers and of documents and in every interleaving of polls, posts and closes,
\* if receivers are polled when woken and not dropped while they wait.
THEOREM NobodyIsForgotten ==
    ASSUME Orderly(Receivers)
    PROVE  Spec => []NobodyForgotten
<1>1. WaitInv => NobodyForgotten
  BY DEF WaitInv
<1>2. WaitInv /\ [Next]_vars => WaitInv'
  BY StepWait, Zenon
<1> QED
  BY <1>1, <1>2, InitWait, PTL DEF Spec

-----------------------------------------------------------------------------
(* The flushers.                                                           *)

\* The wakers are those of tasks, whatever the executor does.
LEMMA TypedStep == Typed /\ [Next]_vars => Typed'
<1> SUFFICES ASSUME Typed, [Next]_vars PROVE Typed'
  OBVIOUS
<1>d. Receivers \subseteq Tasks /\ Flushers \subseteq Tasks
  BY Zenon DEF Tasks
<1>s. /\ ready_docs \in Seq(Docs) /\ ready_wakers \in Seq(Receivers) /\ flush_wakers \in Seq(Flushers)
      /\ waking \in Seq(Tasks) /\ ready_wakers \in Seq(Tasks) /\ flush_wakers \in Seq(Tasks)
  BY <1>d, SeqMonotonic, ZenonT(30) DEF Typed
<1>e. \A S : <<>> \in Seq(S)
  BY NoneIn, Zenon
<1>0. ASSUME NEW u \in Tasks, NEW label \in {"ready", "waiting", "woken", "done"},
             task' = [task EXCEPT ![u] = label]
      PROVE  task' \in [Tasks -> {"ready", "waiting", "woken", "done"}]
  BY <1>0, ZenonT(30) DEF Typed
<1>1. ASSUME NEW t \in Receivers, PollTakes(t) PROVE Typed'
  <2>1. ready_docs # <<>> /\ ready_docs' = Front(ready_docs)
    BY <1>1, Zenon DEF PollTakes
  <2>2. ready_docs' \in Seq(Docs)
    BY <1>s, <2>1, FrontIn, ZenonT(30)
  <2> QED
    BY <1>0, <1>1, <1>d, <2>2, ZenonT(30) DEF PollTakes, Typed
<1>2. ASSUME NEW t \in Receivers, PollWaits(t) PROVE Typed'
  <2>1. ready_wakers' \in Seq(Receivers)
    BY <1>2, <1>s, AppendIn, ZenonT(30) DEF PollWaits
  <2> QED
    BY <1>0, <1>2, <1>d, <2>1, ZenonT(30) DEF PollWaits, Typed
<1>3. ASSUME NEW t \in Receivers, PollClosed(t) PROVE Typed'
  BY <1>0, <1>3, <1>d, ZenonT(30) DEF PollClosed, Typed
<1>4. ASSUME NEW t \in Flushers, FlushWaits(t) PROVE Typed'
  <2>1. flush_wakers' \in Seq(Flushers)
    BY <1>4, <1>s, AppendIn, ZenonT(30) DEF FlushWaits
  <2> QED
    BY <1>0, <1>4, <1>d, <2>1, ZenonT(30) DEF FlushWaits, Typed
<1>5. ASSUME NEW t \in Flushers, FlushReady(t) PROVE Typed'
  BY <1>0, <1>5, <1>d, ZenonT(30) DEF FlushReady, Typed
<1>6. ASSUME NEW t \in Cancels, Cancel(t) PROVE Typed'
  <2>1. task' \in [Tasks -> {"ready", "waiting", "woken", "done"}]
    BY <1>6, ZenonT(30) DEF Cancel, Typed
  <2> QED
    BY <1>6, <2>1, ZenonT(30) DEF Cancel, Typed
<1>7. ASSUME NEW k \in DOMAIN waking, Wake(k) PROVE Typed'
  <2>1. k \in 1..Len(waking)
    BY <1>s, LenProperties, ZenonT(30)
  <2>2. waking' \in Seq(Tasks)
    BY <1>7, <1>s, <2>1, RemoveIn, ZenonT(30) DEF Wake
  <2>3. task' \in [Tasks -> {"ready", "waiting", "woken", "done"}]
    BY <1>7, ZenonT(30) DEF Wake, Typed
  <2> QED
    BY <1>7, <2>2, <2>3, ZenonT(30) DEF Wake, Typed
<1>8. ASSUME NEW d \in Docs, Post(d) PROVE Typed'
  <2>1. CASE ~open
    BY <1>8, <2>1, ZenonT(30) DEF Post, Typed
  <2>2. CASE open /\ ready_wakers = <<>>
    <3>1. ready_docs' \in Seq(Docs)
      <4>1. ready_docs' = Append(ready_docs, d)
        BY <1>8, <2>2, Zenon DEF Post
      <4>2. Append(ready_docs, d) \in Seq(Docs)
        BY <1>s, AppendIn, Zenon
      <4> QED
        BY <4>1, <4>2, Zenon
    <3> QED
      BY <1>8, <1>e, <2>2, <3>1, ZenonT(30) DEF Post, Typed
  <2>3. CASE open /\ ready_wakers # <<>>
    <3>1. ready_docs' \in Seq(Docs)
      <4>1. ready_docs' = Append(ready_docs, d)
        BY <1>8, <2>3, Zenon DEF Post
      <4>2. Append(ready_docs, d) \in Seq(Docs)
        BY <1>s, AppendIn, Zenon
      <4> QED
        BY <4>1, <4>2, Zenon
    <3>2. Front(ready_wakers) \in Seq(Receivers) /\ Last(ready_wakers) \in Tasks
      BY <1>s, <1>d, <2>3, FrontIn, ZenonT(30)
    <3>3. Append(waking, Last(ready_wakers)) \in Seq(Tasks)
      BY <1>s, <3>2, AppendIn, ZenonT(30)
    <3> QED
      BY <1>8, <2>3, <3>1, <3>2, <3>3, ZenonT(30) DEF Post, Typed
  <2> QED
    BY <2>1, <2>2, <2>3, Zenon
<1>9. ASSUME Finish PROVE Typed'
  <2>1. waking' \in Seq(Tasks)
    BY <1>9, <1>s, ConcatIn, ZenonT(30) DEF Finish, FlushWakers
  <2> QED
    BY <1>9, <1>e, <2>1, ZenonT(30) DEF Finish, Typed
<1>10. ASSUME Close PROVE Typed'
  <2>1. waking' \in Seq(Tasks)
    BY <1>10, <1>s, ConcatIn, ZenonT(30) DEF Close, ReadyWakers
  <2> QED
    BY <1>10, <1>e, <2>1, ZenonT(30) DEF Close, Typed
<1>11. ASSUME UNCHANGED vars PROVE Typed'
  BY <1>11, ZenonT(30) DEF vars, Typed
<1> QED
  BY <1>1, <1>2, <1>3, <1>4, <1>5, <1>6, <1>7, <1>8, <1>9, <1>10, <1>11, ZenonT(30)
     DEF Next, RecvPoll, FlushPoll

\* A flush that waits for an unfinished document has its waker in the document.
FlushRegistered ==
    unfinished => \A t \in Flushers : task[t] = "waiting" => Contains(flush_wakers, t)

FlushInv == Typed /\ FlushRegistered /\ FlushersCalled

\* FlushInv holds at first.
LEMMA InitFlush == Init => FlushInv
<1> SUFFICES ASSUME Init PROVE FlushInv
  OBVIOUS
<1>1. \A x : ~Contains(<<>>, x)
  BY NoneIn, Zenon
<1>2. \A t \in Flushers : task[t] = "ready"
  BY DEF Init, Tasks
<1>3. Typed
  BY InitWait, Zenon DEF WaitInv
<1> QED
  BY <1>1, <1>2, <1>3, Zenon DEF Init, FlushInv, FlushRegistered, FlushersCalled

\* What FlushInv says of one task that flushes.
FlushOne(t) ==
    IF unfinished
    THEN /\ task[t] = "waiting" => Contains(flush_wakers, t)
         /\ task[t] # "woken" /\ ~Contains(waking, t)
    ELSE task[t] = "waiting" => Contains(waking, t)

\* Every step preserves FlushInv; the wakers of receivers go through the same list.
LEMMA StepFlush == FlushInv /\ [Next]_vars => FlushInv'
<1> SUFFICES ASSUME FlushInv, [Next]_vars, NEW t \in Flushers PROVE FlushOne(t)'
  BY TypedStep, ZenonT(30) DEF FlushInv, FlushRegistered, FlushersCalled, FlushOne
<1>t. Typed /\ FlushOne(t)
  BY ZenonT(30) DEF FlushInv, FlushRegistered, FlushersCalled, FlushOne
<1>d. Flushers \subseteq Tasks /\ Receivers \subseteq Tasks /\ t \notin Receivers /\ t \in Tasks
  BY TaskAssumption, Zenon DEF Tasks
<1>s. waking \in Seq(Tasks) /\ ready_wakers \in Seq(Tasks) /\ flush_wakers \in Seq(Tasks)
  BY <1>t, <1>d, SeqMonotonic, ZenonT(30) DEF Typed
<1>0. ASSUME UNCHANGED <<unfinished, flush_wakers, waking>>, task'[t] \in {task[t], "ready", "done"}
      PROVE  FlushOne(t)'
  BY <1>t, <1>0, ZenonT(30) DEF FlushOne
<1>1. ASSUME NEW u \in Receivers, RecvPoll(u) PROVE FlushOne(t)'
  <2>1. task'[t] = task[t]
    BY <1>1, <1>t, <1>d, ZenonT(30) DEF RecvPoll, PollTakes, PollWaits, PollClosed, Typed
  <2> QED
    BY <1>0, <1>1, <2>1, ZenonT(30) DEF RecvPoll, PollTakes, PollWaits, PollClosed
<1>2. ASSUME NEW u \in Flushers, FlushReady(u) PROVE FlushOne(t)'
  <2>1. task'[t] \in {task[t], "done"}
    BY <1>2, <1>t, <1>d, ZenonT(30) DEF FlushReady, Typed
  <2> QED
    BY <1>0, <1>2, <2>1, ZenonT(30) DEF FlushReady
<1>3. ASSUME NEW u \in Flushers, FlushWaits(u) PROVE FlushOne(t)'
  <2>1. /\ unfinished /\ unfinished' = unfinished /\ waking' = waking
        /\ flush_wakers' = Append(flush_wakers, u) /\ task' = [task EXCEPT ![u] = "waiting"]
    BY <1>3, Zenon DEF FlushWaits
  <2>2. \A x : Contains(flush_wakers', x) <=> Contains(flush_wakers, x) \/ x = u
    BY <1>d, <1>s, <2>1, AppendIn, ZenonT(30)
  <2>3. (u = t => task'[t] = "waiting") /\ (u # t => task'[t] = task[t])
    BY <1>t, <1>d, <2>1, ZenonT(30) DEF Typed
  <2>4. unfinished' /\ task[t] # "woken" /\ ~Contains(waking', t)
    BY <1>t, <2>1, Zenon DEF FlushOne
  <2>5. task'[t] # "woken"
    BY <2>3, <2>4
  <2>6. task'[t] = "waiting" => Contains(flush_wakers', t)
    BY <1>t, <2>1, <2>2, <2>3, Zenon DEF FlushOne
  <2> QED
    BY <2>4, <2>5, <2>6, Zenon DEF FlushOne
<1>4. ASSUME NEW u \in Cancels, Cancel(u) PROVE FlushOne(t)'
  <2>1. task'[t] \in {task[t], "done"}
    BY <1>4, <1>t, <1>d, ZenonT(30) DEF Cancel, Typed
  <2> QED
    BY <1>0, <1>4, <2>1, ZenonT(30) DEF Cancel
<1>5. ASSUME NEW k \in DOMAIN waking, Wake(k) PROVE FlushOne(t)'
  <2>1. k \in 1..Len(waking)
    BY <1>s, LenProperties, ZenonT(30)
  <2>2. /\ waking' = RemoveAt(waking, k) /\ UNCHANGED <<unfinished, flush_wakers>>
        /\ task' = [task EXCEPT ![waking[k]] = IF @ = "waiting" THEN "woken" ELSE @]
    BY <1>5, ZenonT(30) DEF Wake
  <2>3. /\ \A x : Contains(waking', x) => Contains(waking, x)
        /\ \A x : Contains(waking, x) /\ x # waking[k] => Contains(waking', x)
    BY <1>s, <2>1, <2>2, RemoveIn, ZenonT(30)
  <2>4. Contains(waking, waking[k])
    BY <2>1, Zenon DEF Contains
  <2>5. /\ waking[k] # t => task'[t] = task[t]
        /\ waking[k] = t => task'[t] # "waiting"
    BY <1>t, <1>d, <2>2, ZenonT(30) DEF Typed
  <2> QED
    BY <1>t, <2>2, <2>3, <2>4, <2>5, ZenonT(30) DEF FlushOne
<1>6. ASSUME NEW d \in Docs, Post(d) PROVE FlushOne(t)'
  <2>1. UNCHANGED <<unfinished, flush_wakers, task>>
    BY <1>6, Zenon DEF Post
  <2>2. CASE waking' = waking
    BY <1>0, <2>1, <2>2, ZenonT(30)
  <2>3. CASE waking' # waking
    <3>1. ready_wakers # <<>> /\ waking' = Append(waking, Last(ready_wakers))
      BY <1>6, <2>3, ZenonT(30) DEF Post
    <3>2. Last(ready_wakers) \in Receivers
      BY <1>t, <3>1, FrontIn, ZenonT(30) DEF Typed
    <3>3. Last(ready_wakers) \in Tasks /\ Last(ready_wakers) # t
      BY <1>d, <3>2, ZenonT(30)
    <3>4. Contains(waking', t) <=> Contains(waking, t)
      BY <1>s, <3>1, <3>3, AppendIn, ZenonT(30)
    <3> QED
      BY <1>t, <2>1, <3>4, ZenonT(30) DEF FlushOne
  <2> QED
    BY <2>2, <2>3, Zenon
<1>7. ASSUME Finish PROVE FlushOne(t)'
  <2>1. /\ unfinished /\ ~unfinished' /\ task' = task /\ waking' = waking \o flush_wakers
    BY <1>7, Zenon DEF Finish, FlushWakers
  <2>2. Contains(flush_wakers, t) => Contains(waking', t)
    BY <1>s, <2>1, ConcatIn, ZenonT(30)
  <2> QED
    BY <1>t, <2>1, <2>2, ZenonT(30) DEF FlushOne
<1>8. ASSUME Close PROVE FlushOne(t)'
  <2>1. waking' = waking \o ready_wakers /\ UNCHANGED <<unfinished, flush_wakers, task>>
    BY <1>8, Zenon DEF Close, ReadyWakers
  <2>2. \A i \in 1..Len(ready_wakers) : ready_wakers[i] \in Receivers
    BY <1>t, ElementOfSeq, Zenon DEF Typed
  <2>3. ~Contains(ready_wakers, t)
    BY <1>d, <2>2, Zenon DEF Contains
  <2>4. Contains(waking', t) <=> Contains(waking, t)
    BY <1>s, <2>1, <2>3, ConcatIn, ZenonT(30)
  <2> QED
    BY <1>t, <2>1, <2>4, ZenonT(30) DEF FlushOne
<1>9. ASSUME UNCHANGED vars PROVE FlushOne(t)'
  BY <1>t, <1>9, ZenonT(30) DEF vars, FlushOne
<1> QED
  BY <1>1, <1>2, <1>3, <1>4, <1>5, <1>6, <1>7, <1>8, <1>9, ZenonT(30) DEF Next, FlushPoll

\* No waker of a flush is called while the document is unfinished, and none is forgotten once
\* it is finished, for any number of tasks, polled without a wake-up and dropped as they
\* may be (channel.rs:386-424, Drop of Flushers and of SendDoc).
THEOREM FlushesCalledInTime == Spec => []FlushersCalled
<1>1. FlushInv => FlushersCalled
  BY DEF FlushInv
<1> QED
  BY <1>1, InitFlush, StepFlush, PTL DEF Spec
=============================================================================
