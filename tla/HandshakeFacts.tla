--------------------------- MODULE HandshakeFacts ---------------------------
(***************************************************************************)
(* The handshake for any parties, any number of handshakes and any periods *)
(* of validity.  The inductive invariant says for every handshake which    *)
(* messages of it there are and how the transcripts of the two sides       *)
(* belong together; nothing is assumed of the network but that it carries  *)
(* what was sent.  Here are the invariant, the facts about the values it   *)
(* is made of, and its preservation by opening a handshake and by the      *)
(* responder's receipt of the first message.                               *)
(***************************************************************************)
EXTENDS Handshake, TLAPS

\* A leaf that names no prover is tried with these, in this order.
USE SMTT(10), Zenon, Z3T(30)

-----------------------------------------------------------------------------
(* What the two sides send and keep, by the bundles they used.             *)

\* initialize without resumption data, with the bundle b.
FullInit(h) == [to |-> "rsp", h |-> h, enc_key |-> <<"ek", h>>, token |-> None]

FullSent(h, b) ==
    [st |-> "sent", symmetric |-> Mix(New(h), 1, <<"ek", h>>), fallback |-> <<>>,
     local |-> b, expected |-> None]

\* initialize with the resumption key and the bundle kept of the peer.
ResumeBase(h, key) == Mix(New(h), 9, <<<<"ek", h>>, key>>)
ResumeKeyed(h, key) == Mix(ResumeBase(h, key), 10, key)
ResumeHead(h, b, key, remote) == <<Checksum(ResumeKeyed(h, key), b, remote), Payload(h, "ini")>>
ResumeSigning(h, b, key, remote) == Mix(ResumeKeyed(h, key), 11, ResumeHead(h, b, key, remote))

\* The sealed head and the signature of an init message with resumption data.
SealedAs(m, h, b, key, remote) ==
    /\ m.sealed.plain = ResumeHead(h, b, key, remote) /\ m.sealed.key = ResumeKeyed(h, key)
    /\ m.sealed.step = 11
    /\ m.sign.key = ResumeSigning(h, b, key, remote) /\ m.sign.step = 12
    /\ m.sign.plain = Signature(ResumeSigning(h, b, key, remote), 12, b)

ResumeInit(h, b, key, remote) ==
    [to |-> "rsp", h |-> h, enc_key |-> <<"ek", h>>, token |-> key,
     sealed |-> Encrypt(ResumeKeyed(h, key), 11, ResumeHead(h, b, key, remote)),
     sign |-> Sign(ResumeSigning(h, b, key, remote), 12, b)]

ResumeSym(h, b, key, remote) ==
    Mix(ResumeSigning(h, b, key, remote), 12, Signature(ResumeSigning(h, b, key, remote), 12, b))

ResumeSent(h, b, key, remote) ==
    [st |-> "sent", symmetric |-> ResumeSym(h, b, key, remote),
     fallback |-> Mix(ResumeBase(h, key), 14, InitTail(ResumeInit(h, b, key, remote))),
     local |-> b, expected |-> remote]

\* The reply of the bundle c, when the transcript of the init message is sym.
ReplyKeyed(h, type, sym) == Mix(Mix(sym, 2, <<type, <<"ct", h>>>>), 3, <<"ss", h>>)
ReplyPlain(h, c, type) == <<IF type = RESUME THEN None ELSE c, Payload(h, "rsp")>>
ReplySigning(h, c, type, sym) == Mix(ReplyKeyed(h, type, sym), 4, ReplyPlain(h, c, type))

ReplyMsg(h, c, type, sym) ==
    [to |-> "ini", h |-> h, type |-> type, ciphertext |-> <<"ct", h>>,
     sealed |-> Encrypt(ReplyKeyed(h, type, sym), 4, ReplyPlain(h, c, type)),
     sign |-> Sign(ReplySigning(h, c, type, sym), 5, c)]

ReplySym(h, c, type, sym) ==
    Mix(ReplySigning(h, c, type, sym), 5, Signature(ReplySigning(h, c, type, sym), 5, c))

RspSent(h, c, type, sym, expected) ==
    [st |-> "sent", symmetric |-> ReplySym(h, c, type, sym), type |-> type, local |-> c,
     expected |-> expected,
     reject_if_remote_has_reliable_storage |-> type = FALLBACK /\ c.party \in Reliable]

\* The confirmation with the bundle b, when the transcript of the reply is sym.
ConfirmPlain(h, b) == <<b, Payload(h, "ini")>>
ConfirmSigning(h, b, sym) == Mix(sym, 6, ConfirmPlain(h, b))

ConfirmMsg(h, b, sym) ==
    [to |-> "rsp2", h |-> h, sealed |-> Encrypt(sym, 6, ConfirmPlain(h, b)),
     sign |-> Sign(ConfirmSigning(h, b, sym), 7, b)]

ConfirmSym(h, b, sym) ==
    Mix(ConfirmSigning(h, b, sym), 7, Signature(ConfirmSigning(h, b, sym), 7, b))

-----------------------------------------------------------------------------
(* The inductive invariant.                                                *)

\* The messages of a handshake.
Msgs(h) == {m \in net : m.h = h}

\* The initiator s waits for an answer to its message i.
SentBy(h, s, i) ==
    /\ s.st = "sent" /\ i.to = "rsp" /\ s.local \in Bundles
    /\ \/ s = FullSent(h, s.local) /\ i = FullInit(h)
       \/ /\ i.token # None /\ s.expected \in Bundles
          /\ s = ResumeSent(h, s.local, i.token, s.expected)
          /\ i = ResumeInit(h, s.local, i.token, s.expected)

\* The transcript that a reply of this type goes on from.
Base(s, type) == IF type = FALLBACK THEN s.fallback ELSE s.symmetric

\* The responder t has answered the initiator s with m and waits for the confirmation.
AskedBy(h, s, t, m) ==
    t.st = "sent" /\ \E type \in {FULL, FALLBACK} :
        /\ type = FALLBACK => s.fallback # <<>>
        /\ t = RspSent(h, t.local, type, Base(s, type), t.expected)
        /\ t.expected \in {None, s.local.party}
        /\ m = ReplyMsg(h, t.local, type, Base(s, type))

\* The responder t has resumed with the initiator s and told it so with m.
ResumedBy(h, s, t, m) ==
    /\ t.st = "done" /\ s.expected = t.local
    /\ t = Done(RESUME, ReplySym(h, t.local, RESUME, s.symmetric), t.local, s.local, Payload(h, "ini"))
    /\ m = ReplyMsg(h, t.local, RESUME, s.symmetric)

AnsweredBy(h, s, t, m) ==
    /\ t.st \in {"sent", "done"} /\ m.to = "ini"
    /\ t.local \in Bundles /\ t.local.party # s.local.party
    /\ AskedBy(h, s, t, m) \/ ResumedBy(h, s, t, m)

\* The initiator s has finished with the responder t that waits for the confirmation.
ConfirmedBy(h, s, t) ==
    /\ s = Done(t.type, ConfirmSym(h, s.local, t.symmetric), s.local, t.local, Payload(h, "rsp"))
    /\ t.expected \in {None, s.local.party}
    /\ t.reject_if_remote_has_reliable_storage = (t.type = FALLBACK /\ t.local.party \in Reliable)

\* What the two sides of a finished handshake have in common.
Agree(h, s, t) ==
    /\ s.keys = t.keys /\ s.type = t.type
    /\ s.remote = t.local /\ t.remote = s.local
    /\ s.payload = Payload(h, "rsp") /\ t.payload = Payload(h, "ini")

\* A finished side that took the fallback is not between parties with reliable storage.
FallbackAllowed(s) == s.type = FALLBACK => ~({s.local.party, s.remote.party} \subseteq Reliable)

Peers(s, t) == s.local \in Bundles /\ t.local \in Bundles /\ s.local.party # t.local.party

\* How far a handshake has come, and what its messages M are as long as they matter.
Before(s, t, M) == s.st \in {"none", "panicked"} /\ t.st = "none" /\ M = {}

Opened(h, s, t, M) == t.st \in {"none", "failed"} /\ \E i \in M : M = {i} /\ SentBy(h, s, i)

Answered(h, s, t, M) == \E i, m \in M : M = {i, m} /\ SentBy(h, s, i) /\ AnsweredBy(h, s, t, m)

Refused(s, t, M) ==
    /\ s.st = "failed" /\ t.st \in {"sent", "done"} /\ t.local \in Bundles
    /\ \/ t.st = "sent" /\ t.type \in {FULL, FALLBACK}
       \/ t.st = "done" /\ t.type = RESUME
    /\ \A m \in M : m.to # "rsp2"

Confirmed(h, s, t, M) ==
    /\ s.st = "done" /\ t.st = "sent" /\ t.type \in {FULL, FALLBACK}
    /\ Peers(s, t) /\ ConfirmedBy(h, s, t) /\ FallbackAllowed(s)
    /\ \A m \in M : m.to = "rsp2" => m = ConfirmMsg(h, s.local, t.symmetric)

Unconfirmed(s, t) ==
    s.st = "done" /\ s.type \in {FULL, FALLBACK} /\ t.st = "failed" /\ s.local \in Bundles
    /\ FallbackAllowed(s)

Finished(h, s, t) ==
    /\ s.st = "done" /\ t.st = "done" /\ s.type \in Types
    /\ Peers(s, t) /\ Agree(h, s, t) /\ FallbackAllowed(s)

Phase(h, s, t, M) ==
    \/ Before(s, t, M) \/ Opened(h, s, t, M) \/ Answered(h, s, t, M) \/ Refused(s, t, M)
    \/ Confirmed(h, s, t, M) \/ Unconfirmed(s, t) \/ Finished(h, s, t)

Phases == \A h \in Handshakes : Phase(h, ini[h], rsp[h], Msgs(h))

\* The transcript of handshake h.
Elements(sym) == {sym[i] : i \in DOMAIN sym}

Starts(sym, h) == sym \in Seq(Elements(sym)) /\ sym # <<>> /\ Head(sym) = <<0, h>>

\* Keys tell which handshake they are from.
KeysOf ==
    \A h \in Handshakes :
        /\ ini[h].st = "done" => Starts(ini[h].keys.chain, h)
        /\ rsp[h].st = "done" => Starts(rsp[h].keys.chain, h)

\* The side d of a finished handshake left the resumption data r with p.
LeftBy(d, p, r) == d.st = "done" /\ d.keys = r.key /\ d.local.party = p /\ d.remote = r.remote

Origin(I, R, p, r) == \E h \in Handshakes : LeftBy(I[h], p, r) \/ LeftBy(R[h], p, r)

Stores ==
    \A p \in Party : \A r \in store[p] :
        r.key # None /\ r.remote \in Bundles /\ r.remote.party # p /\ Origin(ini, rsp, p, r)

\* The token of an init message is of a finished handshake of its sender.
Tokens ==
    \A m \in net :
        m.to = "rsp" /\ m.token # None /\ ini[m.h].st = "sent" =>
            Origin(ini, rsp, ini[m.h].local.party, [key |-> m.token, remote |-> ini[m.h].expected])

Typed ==
    /\ now \in 0..MaxTime
    /\ version \in [Party -> DOMAIN Validity]
    /\ DOMAIN store = Party /\ DOMAIN ini = Handshakes /\ DOMAIN rsp = Handshakes
    /\ \A m \in net : m.h \in Handshakes

HandshakeInv == Typed /\ Phases /\ KeysOf /\ Stores /\ Tokens

-----------------------------------------------------------------------------
(* Values.                                                                 *)

\* Neither a bundle nor a key is None.
LEMMA NotNone == (\A b \in Bundles : b # None) /\ \A sym, n : Split(sym, n) # None
<1>1. DOMAIN None = {"none"}
  BY DEF None
<1>2. ASSUME NEW b \in Bundles PROVE b # None
  <2>1. DOMAIN b = {"party", "ver"}
    BY DEF Bundles
  <2> QED
    BY <1>1, <2>1
<1>3. ASSUME NEW sym, NEW n PROVE Split(sym, n) # None
  <2>1. DOMAIN Split(sym, n) = {"chain", "step"}
    BY DEF Split
  <2> QED
    BY <1>1, <2>1
<1> QED
  BY <1>2, <1>3

\* The init message without resumption data.
LEMMA FullInitFields ==
    ASSUME NEW h
    PROVE  /\ FullInit(h).to = "rsp" /\ FullInit(h).h = h /\ FullInit(h).token = None
           /\ FullInit(h).enc_key = <<"ek", h>>
  BY DEF FullInit

\* The same for its state.
LEMMA FullSentFields ==
    ASSUME NEW h, NEW b
    PROVE  /\ FullSent(h, b).st = "sent" /\ FullSent(h, b).local = b
           /\ FullSent(h, b).expected = None /\ FullSent(h, b).fallback = <<>>
           /\ FullSent(h, b).symmetric = Mix(New(h), 1, <<"ek", h>>)
  BY DEF FullSent

\* The init message with resumption data.
LEMMA ResumeInitFields ==
    ASSUME NEW h, NEW b, NEW key, NEW remote
    PROVE  /\ ResumeInit(h, b, key, remote).to = "rsp" /\ ResumeInit(h, b, key, remote).h = h
           /\ ResumeInit(h, b, key, remote).token = key
           /\ ResumeInit(h, b, key, remote).enc_key = <<"ek", h>>
  BY DEF ResumeInit

\* The initiator that sent it.
LEMMA ResumeSentFields ==
    ASSUME NEW h, NEW b, NEW key, NEW remote
    PROVE  /\ ResumeSent(h, b, key, remote).st = "sent"
           /\ ResumeSent(h, b, key, remote).local = b
           /\ ResumeSent(h, b, key, remote).expected = remote
           /\ ResumeSent(h, b, key, remote).symmetric = ResumeSym(h, b, key, remote)
           /\ ResumeSent(h, b, key, remote).fallback =
                Mix(ResumeBase(h, key), 14, InitTail(ResumeInit(h, b, key, remote)))
  BY DEF ResumeSent

\* The sealed parts of an init message with resumption data.
LEMMA SealedFields ==
    ASSUME NEW h, NEW b, NEW key, NEW remote
    PROVE  SealedAs(ResumeInit(h, b, key, remote), h, b, key, remote)
  BY Zenon DEF SealedAs, ResumeInit, Sign, Encrypt

\* The fields of a reply.
LEMMA ReplyFields ==
    ASSUME NEW h, NEW c, NEW type, NEW sym
    PROVE  /\ ReplyMsg(h, c, type, sym).to = "ini" /\ ReplyMsg(h, c, type, sym).h = h
           /\ ReplyMsg(h, c, type, sym).type = type
           /\ ReplyMsg(h, c, type, sym).ciphertext = <<"ct", h>>
           /\ ReplyMsg(h, c, type, sym).sealed.plain = ReplyPlain(h, c, type)
           /\ ReplyMsg(h, c, type, sym).sealed.key = ReplyKeyed(h, type, sym)
           /\ ReplyMsg(h, c, type, sym).sealed.step = 4
           /\ ReplyMsg(h, c, type, sym).sign.plain = Signature(ReplySigning(h, c, type, sym), 5, c)
           /\ ReplyMsg(h, c, type, sym).sign.key = ReplySigning(h, c, type, sym)
           /\ ReplyMsg(h, c, type, sym).sign.step = 5
  BY DEF ReplyMsg, Sign, Encrypt

\* The responder that waits for the confirmation.
LEMMA RspSentFields ==
    ASSUME NEW h, NEW c, NEW type, NEW sym, NEW expected
    PROVE  /\ RspSent(h, c, type, sym, expected).st = "sent"
           /\ RspSent(h, c, type, sym, expected).type = type
           /\ RspSent(h, c, type, sym, expected).local = c
           /\ RspSent(h, c, type, sym, expected).expected = expected
           /\ RspSent(h, c, type, sym, expected).symmetric = ReplySym(h, c, type, sym)
           /\ RspSent(h, c, type, sym, expected).reject_if_remote_has_reliable_storage =
                (type = FALLBACK /\ c.party \in Reliable)
  BY DEF RspSent

\* The fields of a confirmation.
LEMMA ConfirmFields ==
    ASSUME NEW h, NEW b, NEW sym
    PROVE  /\ ConfirmMsg(h, b, sym).to = "rsp2" /\ ConfirmMsg(h, b, sym).h = h
           /\ ConfirmMsg(h, b, sym).sealed.plain = ConfirmPlain(h, b)
           /\ ConfirmMsg(h, b, sym).sealed.key = sym
           /\ ConfirmMsg(h, b, sym).sealed.step = 6
           /\ ConfirmMsg(h, b, sym).sign.plain = Signature(ConfirmSigning(h, b, sym), 7, b)
           /\ ConfirmMsg(h, b, sym).sign.key = ConfirmSigning(h, b, sym)
           /\ ConfirmMsg(h, b, sym).sign.step = 7
  BY DEF ConfirmMsg, Sign, Encrypt

\* The fields of a finished side.
LEMMA DoneFields ==
    ASSUME NEW type, NEW sym, NEW local, NEW remote, NEW payload
    PROVE  /\ Done(type, sym, local, remote, payload).st = "done"
           /\ Done(type, sym, local, remote, payload).type = type
           /\ Done(type, sym, local, remote, payload).local = local
           /\ Done(type, sym, local, remote, payload).remote = remote
           /\ Done(type, sym, local, remote, payload).payload = payload
           /\ Done(type, sym, local, remote, payload).keys =
                Split(sym, IF type = RESUME THEN 13 ELSE 8)
           /\ Done(type, sym, local, remote, payload).keys.chain = sym
           /\ Done(type, sym, local, remote, payload).keys # None
  BY NotNone DEF Done, Split

\* A finished side.
LEMMA DoneIs ==
    ASSUME NEW s, NEW type, NEW sym, NEW local, NEW remote, NEW payload,
           s = Done(type, sym, local, remote, payload)
    PROVE  s.st = "done" /\ s.type = type /\ s.local = local /\ s.remote = remote
  BY DEF Done

\* A sequence is a sequence of its elements.
LEMMA ElementsOf == ASSUME NEW S, NEW s \in Seq(S) PROVE s \in Seq(Elements(s))
  BY DEF Elements

\* Mixing goes on with a transcript.
LEMMA MixStarts ==
    ASSUME NEW sym, NEW h, Starts(sym, h), NEW n, NEW data
    PROVE  Starts(Mix(sym, n, data), h)
<1> DEFINE e == <<n, data>>
           S == Elements(sym) \cup {e}
<1>1. sym \in Seq(S) /\ e \in S
  BY DEF Starts
<1>2. Append(sym, e) \in Seq(S) /\ Append(sym, e) # <<>> /\ Head(Append(sym, e)) = Head(sym)
  <2>1. PICK x : x = e
    BY Zenon
  <2>2. Append(sym, x) \in Seq(S) /\ Append(sym, x) # <<>> /\ Head(Append(sym, x)) = Head(sym)
    <3> HIDE DEF S
    <3> QED
      BY <1>1, <2>1 DEF Starts
  <2> QED
    BY <2>1, <2>2
<1>3. Append(sym, e) \in Seq(Elements(Append(sym, e)))
  BY <1>2, ElementsOf, Zenon
<1> QED
  BY <1>2, <1>3, Zenon DEF Starts, Mix

\* A transcript starts with the handshake's number.
LEMMA NewStarts == \A h : Starts(New(h), h)
<1> TAKE h
<1> DEFINE e == <<0, h>>
<1>2. <<e>> \in Seq({e}) /\ <<e>> # <<>> /\ Head(<<e>>) = e /\ Append(<<>>, e) = <<e>>
  <2>1. PICK x : x = e
    BY Zenon
  <2>2. <<x>> \in Seq({x}) /\ <<x>> # <<>> /\ Head(<<x>>) = x /\ Append(<<>>, x) = <<x>>
    OBVIOUS
  <2> QED
    BY <2>1, <2>2
<1>3. <<e>> \in Seq(Elements(<<e>>))
  BY <1>2, ElementsOf, Zenon
<1> QED
  BY <1>2, <1>3, Zenon DEF Starts, New, Mix

\* The transcripts of the two sides are of their handshake.
LEMMA TranscriptStarts ==
    ASSUME NEW h
    PROVE  /\ \A b : Starts(FullSent(h, b).symmetric, h)
           /\ \A b, key, remote : /\ Starts(ResumeSent(h, b, key, remote).symmetric, h)
                                  /\ Starts(ResumeSent(h, b, key, remote).fallback, h)
           /\ \A c, type, sym : Starts(sym, h) => Starts(ReplySym(h, c, type, sym), h)
           /\ \A b, sym : Starts(sym, h) => Starts(ConfirmSym(h, b, sym), h)
<1>1. \A b : Starts(FullSent(h, b).symmetric, h)
  <2>1. \A b : FullSent(h, b).symmetric = Mix(New(h), 1, <<"ek", h>>)
    BY FullSentFields
  <2> QED
    BY <2>1, NewStarts, MixStarts
<1>2. \A key : Starts(ResumeBase(h, key), h)
  BY NewStarts, MixStarts DEF ResumeBase
<1>3. ASSUME NEW b, NEW key, NEW remote
      PROVE  /\ Starts(ResumeSent(h, b, key, remote).symmetric, h)
             /\ Starts(ResumeSent(h, b, key, remote).fallback, h)
  <2>1. Starts(ResumeSent(h, b, key, remote).fallback, h)
    <3>1. ResumeSent(h, b, key, remote).fallback =
            Mix(ResumeBase(h, key), 14, InitTail(ResumeInit(h, b, key, remote)))
      BY ResumeSentFields
    <3> QED
      BY <1>2, <3>1, MixStarts
  <2>2. Starts(ResumeSym(h, b, key, remote), h)
    BY <1>2, MixStarts DEF ResumeSym, ResumeSigning, ResumeKeyed
  <2> QED
    BY <2>1, <2>2, ResumeSentFields
<1>4. ASSUME NEW c, NEW type, NEW sym, Starts(sym, h) PROVE Starts(ReplySym(h, c, type, sym), h)
  BY <1>4, MixStarts DEF ReplySym, ReplySigning, ReplyKeyed
<1>5. ASSUME NEW b, NEW sym, Starts(sym, h) PROVE Starts(ConfirmSym(h, b, sym), h)
  BY <1>5, MixStarts DEF ConfirmSym, ConfirmSigning
<1> QED
  BY <1>1, <1>3, <1>4, <1>5

-----------------------------------------------------------------------------
(* Which phase a step finds.                                               *)

\* The fields of the init message of an initiator that waits.
LEMMA SentByFields ==
    ASSUME NEW h, NEW s, NEW i, SentBy(h, s, i)
    PROVE  s.st = "sent" /\ i.to = "rsp" /\ i.h = h /\ s.local \in Bundles
  BY FullInitFields, ResumeInitFields DEF SentBy

\* A handshake that is not open has no messages.
LEMMA BeforeCase ==
    ASSUME HandshakeInv, NEW h \in Handshakes, ini[h].st = "none"
    PROVE  Msgs(h) = {} /\ rsp[h].st = "none"
<1>1. Phase(h, ini[h], rsp[h], Msgs(h))
  BY DEF HandshakeInv, Phases
<1>2. ~Opened(h, ini[h], rsp[h], Msgs(h)) /\ ~Answered(h, ini[h], rsp[h], Msgs(h))
  BY DEF Opened, Answered, SentBy
<1> QED
  BY <1>1, <1>2 DEF Phase, Before, Refused, Confirmed, Unconfirmed, Finished

\* The init message that a responder finds is what the waiting initiator sent.
LEMMA InitCase ==
    ASSUME HandshakeInv, NEW h \in Handshakes, NEW m \in net, m.to = "rsp", m.h = h,
           rsp[h].st = "none"
    PROVE  Msgs(h) = {m} /\ SentBy(h, ini[h], m)
<1>1. Phase(h, ini[h], rsp[h], Msgs(h)) /\ m \in Msgs(h)
  BY DEF HandshakeInv, Phases, Msgs
<1>2. ~Answered(h, ini[h], rsp[h], Msgs(h))
  BY DEF Answered, AnsweredBy
<1>3. Opened(h, ini[h], rsp[h], Msgs(h))
  BY <1>1, <1>2 DEF Phase, Before, Refused, Confirmed, Unconfirmed, Finished
<1> QED
  BY <1>1, <1>3 DEF Opened

\* The reply that a waiting initiator finds is the answer to its message.
LEMMA ReplyCase ==
    ASSUME HandshakeInv, NEW h \in Handshakes, NEW m \in net, m.to = "ini", m.h = h,
           ini[h].st = "sent"
    PROVE  /\ \E i \in Msgs(h) : Msgs(h) = {i, m} /\ SentBy(h, ini[h], i)
           /\ AnsweredBy(h, ini[h], rsp[h], m)
<1>1. Phase(h, ini[h], rsp[h], Msgs(h)) /\ m \in Msgs(h)
  BY DEF HandshakeInv, Phases, Msgs
<1>2. ~Opened(h, ini[h], rsp[h], Msgs(h))
  BY <1>1 DEF Opened, SentBy
<1>3. Answered(h, ini[h], rsp[h], Msgs(h))
  BY <1>1, <1>2 DEF Phase, Before, Refused, Confirmed, Unconfirmed, Finished
<1>4. PICK i \in Msgs(h), x \in Msgs(h) : Msgs(h) = {i, x} /\ SentBy(h, ini[h], i)
                                        /\ AnsweredBy(h, ini[h], rsp[h], x)
  BY <1>3 DEF Answered
<1>5. i.to = "rsp"
  BY <1>4, SentByFields
<1>6. x = m
  BY <1>1, <1>4, <1>5, Zenon
<1> QED
  BY <1>4, <1>6

\* The confirmation that a waiting responder finds is that of the initiator it answered.
LEMMA ConfirmCase ==
    ASSUME HandshakeInv, NEW h \in Handshakes, NEW m \in net, m.to = "rsp2", m.h = h,
           rsp[h].st = "sent"
    PROVE  /\ Confirmed(h, ini[h], rsp[h], Msgs(h))
           /\ m = ConfirmMsg(h, ini[h].local, rsp[h].symmetric)
<1>1. Phase(h, ini[h], rsp[h], Msgs(h)) /\ m \in Msgs(h)
  BY Zenon DEF HandshakeInv, Phases, Msgs
<1>2. ~Opened(h, ini[h], rsp[h], Msgs(h)) /\ ~Before(ini[h], rsp[h], Msgs(h))
  BY DEF Opened, Before
<1>3. ~Answered(h, ini[h], rsp[h], Msgs(h))
  BY <1>1, SentByFields DEF Answered, AnsweredBy
<1>4. ~Refused(ini[h], rsp[h], Msgs(h))
  BY <1>1, Zenon DEF Refused
<1>5. Confirmed(h, ini[h], rsp[h], Msgs(h))
  BY <1>1, <1>2, <1>3, <1>4 DEF Phase, Unconfirmed, Finished
<1> QED
  BY <1>1, <1>5 DEF Confirmed

-----------------------------------------------------------------------------
(* Steps of one handshake.                                                 *)

\* A message is added to those of its handshake.
LEMMA NetAdds ==
    ASSUME NEW h, NEW x, x.h = h, net' = net \cup {x}
    PROVE  Msgs(h)' = Msgs(h) \cup {x} /\ \A g : g # h => Msgs(g)' = Msgs(g)
  BY Zenon DEF Msgs

\* A step of handshake h that finds and leaves it in a phase preserves the invariant, if
\* finished sides stay, and what is stored or sent with a token comes from a finished side.
LEMMA Frame ==
    ASSUME HandshakeInv, NEW h \in Handshakes,
           UNCHANGED <<now, version>>,
           DOMAIN store' = Party, DOMAIN ini' = Handshakes, DOMAIN rsp' = Handshakes,
           \A g \in Handshakes : g # h => ini'[g] = ini[g] /\ rsp'[g] = rsp[g],
           net' = net \/ \E x : x.h = h /\ net' = net \cup {x},
           Phase(h, ini'[h], rsp'[h], Msgs(h)'),
           ini[h].st = "done" => ini'[h] = ini[h],
           rsp[h].st = "done" => rsp'[h] = rsp[h],
           ini'[h].st = "done" => Starts(ini'[h].keys.chain, h),
           rsp'[h].st = "done" => Starts(rsp'[h].keys.chain, h),
           ini'[h].st = "sent" => ini'[h] = ini[h] \/ Msgs(h) = {},
           \A p \in Party : \A r \in store'[p] :
               \/ r \in store[p]
               \/ /\ r.key # None /\ r.remote \in Bundles /\ r.remote.party # p
                  /\ LeftBy(ini'[h], p, r) \/ LeftBy(rsp'[h], p, r),
           \A m \in net' : m.to = "rsp" /\ m.token # None =>
               m \in net \/ Origin(ini, rsp, ini'[h].local.party,
                                    [key |-> m.token, remote |-> ini'[h].expected])
    PROVE  HandshakeInv'
<1>i. Typed /\ Phases /\ KeysOf /\ Stores /\ Tokens
  BY Zenon DEF HandshakeInv
<1>1. \A g \in Handshakes : g # h => Msgs(g)' = Msgs(g)
  BY NetAdds, Zenon DEF Msgs
<1>2. \A m \in net' : m \in net \/ m.h = h
  BY Zenon
<1>3. Typed'
  BY <1>i, <1>2, Zenon DEF Typed
<1>4. Phases'
  BY <1>i, <1>1, Zenon DEF Phases
<1>5. KeysOf'
  BY <1>i, Zenon DEF KeysOf
<1>6. \A p, r : Origin(ini, rsp, p, r) => Origin(ini', rsp', p, r)
  BY DEF Origin, LeftBy
<1>7. Stores'
  <2> SUFFICES ASSUME NEW p \in Party, NEW r \in store'[p]
               PROVE  r.key # None /\ r.remote \in Bundles /\ r.remote.party # p
                      /\ Origin(ini', rsp', p, r)
    BY Zenon DEF Stores
  <2>1. CASE r \in store[p]
    BY <1>i, <1>6, <2>1, Zenon DEF Stores
  <2>2. CASE /\ r.key # None /\ r.remote \in Bundles /\ r.remote.party # p
             /\ LeftBy(ini'[h], p, r) \/ LeftBy(rsp'[h], p, r)
    BY <2>2, Zenon DEF Origin
  <2> QED
    BY <2>1, <2>2, Zenon
<1>8. Tokens'
  <2> SUFFICES ASSUME NEW m \in net', m.to = "rsp", m.token # None, ini'[m.h].st = "sent"
               PROVE  Origin(ini', rsp', ini'[m.h].local.party,
                             [key |-> m.token, remote |-> ini'[m.h].expected])
    BY Zenon DEF Tokens
  <2>1. CASE m \in net /\ m.h # h
    <3>1. m.h \in Handshakes /\ ini'[m.h] = ini[m.h]
      BY <1>i, <2>1, Zenon DEF Typed
    <3>2. Origin(ini, rsp, ini[m.h].local.party, [key |-> m.token, remote |-> ini[m.h].expected])
      BY <1>i, <2>1, <3>1, Zenon DEF Tokens
    <3> QED
      BY <1>6, <3>1, <3>2, Zenon
  <2>2. CASE m \in net /\ m.h = h
    <3>1. m \in Msgs(h)
      BY <2>2, Zenon DEF Msgs
    <3>2. ini'[h] = ini[h]
      BY <2>2, <3>1, Zenon
    <3>3. Origin(ini, rsp, ini[h].local.party, [key |-> m.token, remote |-> ini[h].expected])
      BY <1>i, <2>2, <3>2, Zenon DEF Tokens
    <3> QED
      BY <1>6, <2>2, <3>2, <3>3, Zenon
  <2>3. CASE m \notin net
    <3>1. m.h = h
      BY <1>2, <2>3, Zenon
    <3> QED
      BY <1>6, <2>3, <3>1, Zenon
  <2> QED
    BY <2>1, <2>2, <2>3, Zenon
<1> QED
  BY <1>3, <1>4, <1>5, <1>7, <1>8, Zenon DEF HandshakeInv

\* The current bundle of a party.
LEMMA BundleIs ==
    ASSUME HandshakeInv, NEW p \in Party
    PROVE  Bundle(p) \in Bundles /\ Bundle(p).party = p
  BY Zenon DEF HandshakeInv, Typed, Bundle, Bundles

\* The first step of an initiator preserves the invariant.
LEMMA OpenStep ==
    ASSUME HandshakeInv, NEW h \in Handshakes, NEW p \in Party, Open(h, p)
    PROVE  HandshakeInv'
<1>t. /\ DOMAIN store = Party /\ DOMAIN ini = Handshakes /\ DOMAIN rsp = Handshakes
  BY DEF HandshakeInv, Typed
<1>b. Bundle(p) \in Bundles /\ Bundle(p).party = p
  BY BundleIs
<1>o. ini[h].st = "none" /\ UNCHANGED <<now, version, store, rsp>>
  BY Zenon DEF Open, OpenFull, OpenResume
<1>n. Msgs(h) = {} /\ rsp[h].st = "none"
  BY <1>o, BeforeCase, Zenon
<1>1. CASE OpenFull(h, p)
  <2>1. /\ net' = net \cup {FullInit(h)}
        /\ ini' = [ini EXCEPT ![h] = FullSent(h, Bundle(p))]
    BY <1>1 DEF OpenFull, FullInit, FullSent
  <2>2. /\ ini'[h] = FullSent(h, Bundle(p)) /\ DOMAIN ini' = Handshakes
        /\ \A g \in Handshakes : g # h => ini'[g] = ini[g]
    BY <1>t, <2>1
  <2>3. FullInit(h).h = h /\ FullInit(h).to = "rsp" /\ FullInit(h).token = None
    BY FullInitFields
  <2>4. ini'[h].st = "sent" /\ ini'[h].local = Bundle(p)
    <3>1. FullSent(h, Bundle(p)).st = "sent" /\ FullSent(h, Bundle(p)).local = Bundle(p)
      BY FullSentFields, ZenonT(30)
    <3> QED
      BY <2>2, <3>1
  <2>5. Msgs(h)' = {FullInit(h)}
    BY <1>n, <2>1, <2>3, NetAdds
  <2>6. SentBy(h, ini'[h], FullInit(h))
    BY <1>b, <2>2, <2>3, <2>4 DEF SentBy
  <2>7. Opened(h, ini'[h], rsp'[h], Msgs(h)')
    BY <1>o, <1>n, <2>5, <2>6 DEF Opened
  <2>8. Phase(h, ini'[h], rsp'[h], Msgs(h)')
    BY <2>7 DEF Phase
  <2> QED
    BY <1>t, <1>o, <1>n, <2>1, <2>2, <2>3, <2>4, <2>8, Frame, Zenon
<1>2. ASSUME NEW r \in store[p], OpenResume(h, p, r) PROVE HandshakeInv'
  <2>s. r.key # None /\ r.remote \in Bundles /\ Origin(ini, rsp, p, r)
    BY DEF HandshakeInv, Stores
  <2>1. CASE InitSignFits
    <3> DEFINE m == ResumeInit(h, Bundle(p), r.key, r.remote)
    <3>1. /\ net' = net \cup {m}
          /\ ini' = [ini EXCEPT ![h] = ResumeSent(h, Bundle(p), r.key, r.remote)]
      BY <1>2, <2>1, Zenon DEF OpenResume, ResumeInit, ResumeSent, ResumeSym, ResumeSigning, ResumeHead,
                        ResumeKeyed, ResumeBase, Sign, Encrypt
    <3>2. /\ ini'[h] = ResumeSent(h, Bundle(p), r.key, r.remote) /\ DOMAIN ini' = Handshakes
          /\ \A g \in Handshakes : g # h => ini'[g] = ini[g]
      BY <1>t, <3>1, Zenon
    <3>3. m.h = h /\ m.to = "rsp" /\ m.token = r.key
      BY ResumeInitFields
    <3>4. ini'[h].st = "sent" /\ ini'[h].local = Bundle(p) /\ ini'[h].expected = r.remote
      BY <3>2, ResumeSentFields
    <3>5. m = ResumeInit(h, ini'[h].local, m.token, ini'[h].expected)
          /\ ini'[h] = ResumeSent(h, ini'[h].local, m.token, ini'[h].expected)
      BY <3>2, <3>3, <3>4, Zenon
    <3> HIDE DEF m
    <3>6. Msgs(h)' = {m}
      BY <1>n, <3>1, <3>3, NetAdds, Zenon
    <3>7. SentBy(h, ini'[h], m)
      BY <1>b, <2>s, <3>3, <3>4, <3>5, Zenon DEF SentBy
    <3>8. Opened(h, ini'[h], rsp'[h], Msgs(h)')
      BY <1>o, <1>n, <3>6, <3>7, Zenon DEF Opened
    <3>9. Phase(h, ini'[h], rsp'[h], Msgs(h)')
      BY <3>8, Zenon DEF Phase
    <3>10. Origin(ini, rsp, ini'[h].local.party, [key |-> m.token, remote |-> ini'[h].expected])
      <4>1. ini'[h].local.party = p /\ m.token = r.key /\ ini'[h].expected = r.remote
        BY <1>b, <3>3, <3>4, Zenon
      <4>2. \A d : LeftBy(d, p, r) <=> LeftBy(d, p, [key |-> r.key, remote |-> r.remote])
        BY DEF LeftBy
      <4>3. Origin(ini, rsp, p, [key |-> r.key, remote |-> r.remote])
        BY <2>s, <4>2 DEF Origin
      <4> QED
        BY <4>1, <4>3, Zenon
    <3> QED
      BY <1>t, <1>o, <1>n, <3>1, <3>2, <3>3, <3>4, <3>9, <3>10, Frame, Zenon
  <2>2. CASE ~InitSignFits
    <3>1. net' = net /\ ini' = [ini EXCEPT ![h] = [st |-> "panicked"]]
      BY <1>2, <2>2, Zenon DEF OpenResume
    <3>2. /\ ini'[h] = [st |-> "panicked"] /\ DOMAIN ini' = Handshakes
          /\ \A g \in Handshakes : g # h => ini'[g] = ini[g]
      BY <1>t, <3>1
    <3>3. ini'[h].st = "panicked"
      BY <3>2
    <3>4. Msgs(h)' = {}
      BY <1>n, <3>1, Zenon DEF Msgs
    <3>5. Phase(h, ini'[h], rsp'[h], Msgs(h)')
      BY <1>o, <1>n, <3>3, <3>4 DEF Phase, Before
    <3> QED
      BY <1>t, <1>o, <1>n, <3>1, <3>2, <3>3, <3>5, Frame, Zenon
  <2> QED
    BY <2>1, <2>2
<1> QED
  BY <1>1, <1>2, Zenon DEF Open

\* A responder that fails at the init message leaves no reply.
LEMMA RspFailsStep ==
    ASSUME HandshakeInv, NEW h \in Handshakes, NEW m \in net, Msgs(h) = {m}, SentBy(h, ini[h], m),
           rsp[h].st = "none", NEW why, RspFails(h, why)
    PROVE  HandshakeInv'
<1>t. /\ DOMAIN store = Party /\ DOMAIN ini = Handshakes /\ DOMAIN rsp = Handshakes
  BY DEF HandshakeInv, Typed
<1>1. /\ rsp' = [rsp EXCEPT ![h] = [st |-> "failed", why |-> why]]
      /\ UNCHANGED <<now, version, store, net, ini>>
  BY DEF RspFails
<1>2. /\ rsp'[h].st = "failed" /\ DOMAIN rsp' = Handshakes
      /\ \A g \in Handshakes : g # h => rsp'[g] = rsp[g]
  BY <1>t, <1>1
<1>3. Msgs(h)' = Msgs(h)
  BY <1>1, Zenon DEF Msgs
<1>4. Opened(h, ini'[h], rsp'[h], Msgs(h)')
  BY <1>1, <1>2, <1>3, Zenon DEF Opened
<1>5. Phase(h, ini'[h], rsp'[h], Msgs(h)')
  BY <1>4 DEF Phase
<1>6. ini[h].st = "sent"
  BY SentByFields, ZenonT(30)
<1> QED
  BY <1>t, <1>1, <1>2, <1>5, <1>6, Frame, Zenon

\* The values of Reply are those of the invariant.
LEMMA ReplyIs ==
    ASSUME NEW h, NEW q, NEW type, NEW sym
    PROVE  /\ Reply(h, q, type, sym).msg = ReplyMsg(h, Bundle(q), type, sym)
           /\ Reply(h, q, type, sym).sym = ReplySym(h, Bundle(q), type, sym)
  BY DEF Reply, ReplyMsg, ReplySym, ReplySigning, ReplyPlain, ReplyKeyed, Sign, Encrypt

\* The responder with bundle c has become t and asks s for a confirmation with x.
AsksBack(h, s, c, x, t) ==
    /\ x.h = h /\ x.to = "ini" /\ t.st = "sent" /\ t.local = c
    /\ AskedBy(h, s, t, x)

\* A reply of type FULL or FALLBACK asks for a confirmation.
LEMMA ReplyAsksBack ==
    ASSUME NEW h, NEW s, NEW c, NEW type \in {FULL, FALLBACK},
           NEW expected \in {None, s.local.party}, type = FALLBACK => s.fallback # <<>>
    PROVE  AsksBack(h, s, c, ReplyMsg(h, c, type, Base(s, type)),
                    RspSent(h, c, type, Base(s, type), expected))
<1> DEFINE x == ReplyMsg(h, c, type, Base(s, type))
           t == RspSent(h, c, type, Base(s, type), expected)
<1>1. x.h = h /\ x.to = "ini"
  BY ReplyFields
<1>2. t.st = "sent" /\ t.local = c /\ t.expected = expected
  BY RspSentFields
<1>3. /\ x = ReplyMsg(h, t.local, type, Base(s, type))
      /\ t = RspSent(h, t.local, type, Base(s, type), t.expected)
  BY <1>2, Zenon
<1> HIDE DEF x, t
<1>4. AskedBy(h, s, t, x)
  BY <1>2, <1>3, Zenon DEF AskedBy
<1>5. AsksBack(h, s, c, x, t)
  BY <1>1, <1>2, <1>4, Zenon DEF AsksBack
<1> QED
  BY <1>5, Zenon DEF x, t

\* A responder that starts to wait for a confirmation preserves the invariant.
LEMMA AskStep ==
    ASSUME HandshakeInv, NEW h \in Handshakes, NEW q \in Party,
           NEW m \in net, Msgs(h) = {m}, SentBy(h, ini[h], m), rsp[h].st = "none",
           ini[h].local.party # q, NEW x, NEW t, AsksBack(h, ini[h], Bundle(q), x, t),
           net' = net \cup {x}, rsp' = [rsp EXCEPT ![h] = t], UNCHANGED <<now, version, store, ini>>
    PROVE  HandshakeInv'
<1>t. /\ DOMAIN store = Party /\ DOMAIN ini = Handshakes /\ DOMAIN rsp = Handshakes
  BY Zenon DEF HandshakeInv, Typed
<1>b. Bundle(q) \in Bundles /\ Bundle(q).party = q
  BY BundleIs, Zenon
<1>s. ini[h].st = "sent" /\ m.to = "rsp"
  BY SentByFields
<1>2. /\ rsp'[h] = t /\ DOMAIN rsp' = Handshakes
      /\ \A g \in Handshakes : g # h => rsp'[g] = rsp[g]
  BY <1>t, Zenon
<1>3. x.h = h /\ x.to = "ini" /\ t.st = "sent" /\ t.local = Bundle(q) /\ AskedBy(h, ini[h], t, x)
  BY Zenon DEF AsksBack
<1>6. Msgs(h)' = {m, x}
  <2>1. Msgs(h)' = Msgs(h) \cup {x}
    BY <1>3, NetAdds, Zenon
  <2>2. Msgs(h)' = {m} \cup {x}
    BY <2>1, Zenon
  <2> QED
    BY <2>2, Zenon
<1>8. AnsweredBy(h, ini[h], t, x)
  BY <1>b, <1>3, Zenon DEF AnsweredBy
<1>9. Answered(h, ini'[h], rsp'[h], Msgs(h)')
  BY <1>2, <1>6, <1>8, Zenon DEF Answered
<1>10. Phase(h, ini'[h], rsp'[h], Msgs(h)')
  BY <1>9, Zenon DEF Phase
<1>11. rsp'[h].st = "sent" /\ x.to # "rsp"
  BY <1>2, <1>3, Zenon
<1> QED
  BY <1>t, <1>s, <1>2, <1>3, <1>10, <1>11, Frame, Zenon

\* The answer that waits for a confirmation preserves the invariant.
LEMMA IncompleteStep ==
    ASSUME HandshakeInv, NEW h \in Handshakes, NEW q \in Party,
           NEW m \in net, Msgs(h) = {m}, SentBy(h, ini[h], m), rsp[h].st = "none",
           ini[h].local.party # q,
           NEW type \in {FULL, FALLBACK}, NEW expected \in {None, ini[h].local.party},
           type = FALLBACK => ini[h].fallback # <<>>,
           Incomplete(h, q, type, Base(ini[h], type), expected)
    PROVE  HandshakeInv'
<1> DEFINE x == ReplyMsg(h, Bundle(q), type, Base(ini[h], type))
           t == RspSent(h, Bundle(q), type, Base(ini[h], type), expected)
<1>1. net' = net \cup {x} /\ rsp' = [rsp EXCEPT ![h] = t] /\ UNCHANGED <<now, version, store, ini>>
  <2> DEFINE y == Reply(h, q, type, Base(ini[h], type))
             u == [st |-> "sent", symmetric |-> y.sym, type |-> type, local |-> Bundle(q),
                   expected |-> expected,
                   reject_if_remote_has_reliable_storage |-> type = FALLBACK /\ q \in Reliable]
  <2>1. /\ net' = net \cup {y.msg} /\ rsp' = [rsp EXCEPT ![h] = u]
        /\ UNCHANGED <<now, version, store, ini>>
    BY Zenon DEF Incomplete
  <2>2. y.msg = x /\ y.sym = ReplySym(h, Bundle(q), type, Base(ini[h], type))
    BY ReplyIs, Zenon
  <2>b. Bundle(q).party = q
    BY BundleIs
  <2>3. u = t
    BY <2>b, <2>2, Zenon DEF RspSent
  <2> HIDE DEF x, t, y, u
  <2> QED
    BY <2>1, <2>2, <2>3, Zenon
<1>2. AsksBack(h, ini[h], Bundle(q), x, t)
  BY ReplyAsksBack, ZenonT(30)
<1> HIDE DEF x, t
<1> QED
  BY <1>1, <1>2, AskStep, Zenon

\* Whoever holds a key that somebody else has too holds it for that party.
LEMMA PeerOf ==
    ASSUME HandshakeInv, NEW p \in Party, NEW q \in Party, p # q, NEW r1, NEW r2,
           Origin(ini, rsp, p, r1), Origin(ini, rsp, q, r2), r1.key = r2.key
    PROVE  r2.remote.party = p
<1>1. PICK h1 \in Handshakes : LeftBy(ini[h1], p, r1) \/ LeftBy(rsp[h1], p, r1)
  BY DEF Origin
<1>2. PICK h2 \in Handshakes : LeftBy(ini[h2], q, r2) \/ LeftBy(rsp[h2], q, r2)
  BY Zenon DEF Origin
<1>3. Starts(r1.key.chain, h1) /\ Starts(r2.key.chain, h2)
  BY <1>1, <1>2 DEF HandshakeInv, KeysOf, LeftBy
<1>4. h1 = h2
  BY <1>3 DEF Starts
<1>5. \/ LeftBy(ini[h1], p, r1) /\ LeftBy(rsp[h1], q, r2)
      \/ LeftBy(rsp[h1], p, r1) /\ LeftBy(ini[h1], q, r2)
  BY <1>1, <1>2, <1>4, Zenon DEF LeftBy
<1>6. ini[h1].st = "done" /\ rsp[h1].st = "done"
  BY <1>5, Zenon DEF LeftBy
<1>7. Phase(h1, ini[h1], rsp[h1], Msgs(h1))
  BY DEF HandshakeInv, Phases
<1>8. Finished(h1, ini[h1], rsp[h1])
  BY <1>6, <1>7, Zenon DEF Phase, Before, Opened, Answered, SentBy, Refused, Confirmed, Unconfirmed
<1> QED
  BY <1>5, <1>8 DEF LeftBy, Finished, Agree

\* An init message with a token is that of an initiator with resumption data.
LEMMA TokenCase ==
    ASSUME HandshakeInv, NEW h \in Handshakes, NEW m \in net, m.h = h, SentBy(h, ini[h], m),
           m.token # None
    PROVE  /\ ini[h].expected \in Bundles
           /\ ini[h] = ResumeSent(h, ini[h].local, m.token, ini[h].expected)
           /\ m = ResumeInit(h, ini[h].local, m.token, ini[h].expected)
           /\ ini[h].symmetric = ResumeSym(h, ini[h].local, m.token, ini[h].expected)
           /\ ini[h].fallback = Mix(ResumeBase(h, m.token), 14, InitTail(m))
           /\ ini[h].fallback # <<>>
           /\ m.enc_key = <<"ek", h>>
           /\ Origin(ini, rsp, ini[h].local.party, [key |-> m.token, remote |-> ini[h].expected])
<1>1. /\ ini[h].expected \in Bundles
      /\ ini[h] = ResumeSent(h, ini[h].local, m.token, ini[h].expected)
      /\ m = ResumeInit(h, ini[h].local, m.token, ini[h].expected)
  BY FullInitFields DEF SentBy
<1>2. /\ ini[h].symmetric = ResumeSym(h, ini[h].local, m.token, ini[h].expected)
      /\ ini[h].fallback = Mix(ResumeBase(h, m.token), 14, InitTail(m))
  BY <1>1, ResumeSentFields
<1>3. m.enc_key = <<"ek", h>>
  BY <1>1, ResumeInitFields
<1>4. Starts(ini[h].fallback, h)
  BY <1>1, TranscriptStarts
<1>5. ini[h].fallback # <<>>
  BY <1>4 DEF Starts
<1>6. Origin(ini, rsp, ini[h].local.party, [key |-> m.token, remote |-> ini[h].expected])
  <2>1. m.to = "rsp" /\ ini[m.h].st = "sent"
    BY SentByFields
  <2> QED
    BY <2>1 DEF HandshakeInv, Tokens
<1> QED
  BY <1>1, <1>2, <1>3, <1>5, <1>6, Zenon

\* With the resumption data of the token the responder computes the initiator's transcript.
LEMMA ResumeValues ==
    ASSUME HandshakeInv, NEW h \in Handshakes, NEW m \in net, m.h = h, SentBy(h, ini[h], m),
           m.token # None, NEW key, m.token = key
    PROVE  LET b == ini[h].local
               e == ini[h].expected
               keyed == Mix(Mix(New(h), 9, <<m.enc_key, m.token>>), 10, key)
               signing == Mix(keyed, 11, m.sealed.plain)
           IN  /\ keyed = ResumeKeyed(h, key) /\ signing = ResumeSigning(h, b, key, e)
               /\ Mix(signing, 12, m.sign.plain) = ini[h].symmetric
               /\ m.sealed.plain[1] = Checksum(keyed, b, e)
               /\ m.sealed.plain[2] = Payload(h, "ini")
               /\ Decrypts(keyed, 11, m.sealed) /\ Decrypts(signing, 12, m.sign)
               /\ Signed(signing, 12, b, m.sign)
<1> DEFINE b == ini[h].local
           e == ini[h].expected
           keyed == Mix(Mix(New(h), 9, <<m.enc_key, m.token>>), 10, key)
           signing == Mix(keyed, 11, m.sealed.plain)
<1>1. /\ m = ResumeInit(h, b, key, e) /\ m.enc_key = <<"ek", h>>
      /\ ini[h].symmetric = ResumeSym(h, b, key, e)
  BY TokenCase, Zenon
<1>2. /\ m.sealed.plain = ResumeHead(h, b, key, e) /\ m.sealed.key = ResumeKeyed(h, key)
      /\ m.sealed.step = 11
      /\ m.sign.key = ResumeSigning(h, b, key, e) /\ m.sign.step = 12
      /\ m.sign.plain = Signature(ResumeSigning(h, b, key, e), 12, b)
  <2>1. SealedAs(m, h, b, key, e)
    BY <1>1, SealedFields, Zenon
  <2> QED
    BY <2>1, Zenon DEF SealedAs
<1>3. keyed = ResumeKeyed(h, key)
  BY <1>1, Zenon DEF ResumeKeyed, ResumeBase
<1>4. signing = ResumeSigning(h, b, key, e)
  BY <1>2, <1>3 DEF ResumeSigning
<1>5. Mix(signing, 12, m.sign.plain) = ini[h].symmetric
  BY <1>1, <1>2, <1>4, Zenon DEF ResumeSym
<1>6. m.sealed.plain[1] = Checksum(keyed, b, e) /\ m.sealed.plain[2] = Payload(h, "ini")
  BY <1>2, <1>3 DEF ResumeHead
<1>7. Decrypts(keyed, 11, m.sealed) /\ Decrypts(signing, 12, m.sign)
      /\ Signed(signing, 12, b, m.sign)
  BY <1>2, <1>3, <1>4, Zenon DEF Decrypts, Signed
<1> QED
  BY <1>3, <1>4, <1>5, <1>6, <1>7, Zenon

\* The transcript a reply of type FULL goes on from.
LEMMA BaseFull ==
    ASSUME NEW s
    PROVE  Base(s, FULL) = s.symmetric /\ FULL # FALLBACK
  BY DEF Base, FULL, FALLBACK

\* What a responder with transcript keyed, then sym, reads in the init message of s.
Reads(h, s, m, keyed, sym) ==
    /\ sym = s.symmetric
    /\ m.sealed.plain[1] = Checksum(keyed, s.local, s.expected)
    /\ m.sealed.plain[2] = Payload(h, "ini")

\* The responder with the initiator's resumption data reads what the initiator wrote.
LEMMA ResumeReads ==
    ASSUME HandshakeInv, NEW h \in Handshakes, NEW m \in net, m.h = h, SentBy(h, ini[h], m),
           m.token # None, NEW key, m.token = key,
           NEW keyed, keyed = Mix(Mix(New(h), 9, <<m.enc_key, m.token>>), 10, key),
           NEW sym, sym = Mix(Mix(keyed, 11, m.sealed.plain), 12, m.sign.plain)
    PROVE  Reads(h, ini[h], m, keyed, sym)
  BY ResumeValues, ZenonT(60) DEF Reads

\* The responder with bundle c has become t, resumed with s, and says so with x.
Resumes(h, s, c, x, t) ==
    /\ x.h = h /\ x.to = "ini" /\ t.st = "done" /\ t.local = c /\ t.remote = s.local
    /\ t.keys # None /\ Starts(t.keys.chain, h) /\ ResumedBy(h, s, t, x)

\* A reply of type RESUME finishes the handshake of the responder.
LEMMA ReplyResumes ==
    ASSUME NEW h, NEW s, NEW c, s.expected = c, Starts(s.symmetric, h)
    PROVE  Resumes(h, s, c, ReplyMsg(h, c, RESUME, s.symmetric),
                   Done(RESUME, ReplySym(h, c, RESUME, s.symmetric), c, s.local, Payload(h, "ini")))
<1> DEFINE x == ReplyMsg(h, c, RESUME, s.symmetric)
           y == ReplySym(h, c, RESUME, s.symmetric)
           t == Done(RESUME, y, c, s.local, Payload(h, "ini"))
<1>1. x.h = h /\ x.to = "ini"
  BY ReplyFields
<1>2. Starts(y, h)
  BY TranscriptStarts, Zenon
<1> HIDE DEF y
<1>3. /\ t.st = "done" /\ t.local = c /\ t.remote = s.local
      /\ t.keys # None /\ t.keys.chain = y
  BY NotNone DEF Done, Split
<1>4. t = Done(RESUME, y, t.local, s.local, Payload(h, "ini")) /\ x = ReplyMsg(h, t.local, RESUME, s.symmetric)
      /\ y = ReplySym(h, t.local, RESUME, s.symmetric)
  BY <1>3, Zenon DEF y
<1> HIDE DEF x, t
<1>5. ResumedBy(h, s, t, x)
  BY <1>3, <1>4, Zenon DEF ResumedBy
<1>6. Resumes(h, s, c, x, t)
  BY <1>1, <1>2, <1>3, <1>5, Zenon DEF Resumes
<1> QED
  BY <1>6, Zenon DEF x, y, t

\* A responder that resumes preserves the invariant.
LEMMA ResumeStep ==
    ASSUME HandshakeInv, NEW h \in Handshakes, NEW q \in Party,
           NEW m \in net, Msgs(h) = {m}, SentBy(h, ini[h], m), rsp[h].st = "none",
           ini[h].local.party # q, NEW x, NEW t, Resumes(h, ini[h], Bundle(q), x, t),
           net' = net \cup {x}, rsp' = [rsp EXCEPT ![h] = t], Remember(q, t),
           UNCHANGED <<now, version, ini>>
    PROVE  HandshakeInv'
<1>t. /\ DOMAIN store = Party /\ DOMAIN ini = Handshakes /\ DOMAIN rsp = Handshakes
  BY Zenon DEF HandshakeInv, Typed
<1>b. Bundle(q) \in Bundles /\ Bundle(q).party = q
  BY BundleIs, Zenon
<1>s. ini[h].st = "sent" /\ m.to = "rsp" /\ ini[h].local \in Bundles
  BY SentByFields
<1>1. /\ x.h = h /\ x.to = "ini" /\ t.st = "done" /\ t.local = Bundle(q) /\ t.remote = ini[h].local
      /\ t.keys # None /\ Starts(t.keys.chain, h) /\ ResumedBy(h, ini[h], t, x)
  BY Zenon DEF Resumes
<1>2. AnsweredBy(h, ini[h], t, x)
  BY <1>b, <1>1, Zenon DEF AnsweredBy
<1>3. /\ rsp'[h] = t /\ DOMAIN rsp' = Handshakes
      /\ \A g \in Handshakes : g # h => rsp'[g] = rsp[g]
  BY <1>t, Zenon
<1>4. Msgs(h)' = {m, x}
  <2>1. Msgs(h)' = Msgs(h) \cup {x}
    BY <1>1, NetAdds, Zenon
  <2>2. Msgs(h)' = {m} \cup {x}
    BY <2>1, Zenon
  <2> QED
    BY <2>2, Zenon
<1>5. Answered(h, ini'[h], rsp'[h], Msgs(h)')
  BY <1>2, <1>3, <1>4, Zenon DEF Answered
<1>6. Phase(h, ini'[h], rsp'[h], Msgs(h)')
  BY <1>5, Zenon DEF Phase
<1>7. store' = [store EXCEPT ![q] = @ \cup {[key |-> t.keys, remote |-> t.remote]}]
  BY Zenon DEF Remember
<1>8. DOMAIN store' = Party
  BY <1>t, <1>7, Zenon
<1>9. ASSUME NEW p \in Party, NEW d \in store'[p]
      PROVE  \/ d \in store[p]
             \/ /\ d.key # None /\ d.remote \in Bundles /\ d.remote.party # p
                /\ LeftBy(ini'[h], p, d) \/ LeftBy(rsp'[h], p, d)
  <2>1. d \in store[p] \/ (p = q /\ d = [key |-> t.keys, remote |-> t.remote])
    BY <1>t, <1>7
  <2>2. CASE p = q /\ d = [key |-> t.keys, remote |-> t.remote]
    <3>1. d.key = t.keys /\ d.remote = ini[h].local
      BY <1>1, <2>2, Zenon
    <3>2. LeftBy(rsp'[h], p, d)
      BY <1>b, <1>1, <1>3, <2>2, <3>1, Zenon DEF LeftBy
    <3> QED
      BY <1>s, <1>1, <2>2, <3>1, <3>2, Zenon
  <2> QED
    BY <2>1, <2>2, Zenon
<1>10. x.to # "rsp" /\ ini'[h] = ini[h] /\ rsp[h].st # "done" /\ ini[h].st # "done"
  BY <1>s, <1>1, Zenon
<1>11. /\ \A g \in Handshakes : g # h => ini'[g] = ini[g] /\ rsp'[g] = rsp[g]
       /\ DOMAIN ini' = Handshakes
  BY <1>t, <1>3, Zenon
<1>12. \A d \in net' : d.to = "rsp" => d \in net
  BY <1>10, Zenon
<1> QED
  BY <1>1, <1>3, <1>6, <1>8, <1>9, <1>10, <1>11, <1>12, Frame, ZenonT(30)

\* The answer to an init message with resumption data preserves the invariant.
LEMMA RecvResumeStep ==
    ASSUME HandshakeInv, NEW h \in Handshakes, NEW q \in Party, NEW m \in net, m.h = h,
           Msgs(h) = {m}, SentBy(h, ini[h], m), rsp[h].st = "none", ini[h].local.party # q,
           m.token # None, NEW r \in store[q], RecvResume(h, q, m, r)
    PROVE  HandshakeInv'
<1> DEFINE keyed == Mix(Mix(New(h), 9, <<m.enc_key, m.token>>), 10, r.key)
           signing == Mix(keyed, 11, m.sealed.plain)
           sym == Mix(signing, 12, m.sign.plain)
           reply == Reply(h, q, RESUME, sym)
           done == Done(RESUME, reply.sym, Bundle(q), r.remote, m.sealed.plain[2])
<1>a. \/ m.token # r.key /\ RspFails(h, "IncorrectResumption")
      \/ RspFails(h, "Inauthentic")
      \/ /\ m.token = r.key /\ ~HasCorrectBundle(keyed, m, r, q)
         /\ Incomplete(h, q, FULL, sym, r.remote.party)
      \/ RspFails(h, VerifyError(signing, 12, r.remote, m.sign))
      \/ /\ m.token = r.key /\ HasCorrectBundle(keyed, m, r, q)
         /\ net' = net \cup {reply.msg} /\ rsp' = [rsp EXCEPT ![h] = done]
         /\ Remember(q, done) /\ UNCHANGED <<now, version, ini>>
  BY Zenon DEF RecvResume
<1>r. m.token = r.key => Reads(h, ini[h], m, keyed, sym)
  BY ResumeReads, Zenon
<1> HIDE DEF keyed, signing, sym
<1>1. ASSUME NEW why, RspFails(h, why) PROVE HandshakeInv'
  BY <1>1, RspFailsStep, Zenon
<1>2. CASE /\ m.token = r.key /\ ~HasCorrectBundle(keyed, m, r, q)
           /\ Incomplete(h, q, FULL, sym, r.remote.party)
  <2>1. sym = ini[h].symmetric
    BY <1>r, <1>2, Zenon DEF Reads
  <2>2. Base(ini[h], FULL) = ini[h].symmetric /\ FULL # FALLBACK
    BY BaseFull, ZenonT(30)
  <2>3. r.remote.party = ini[h].local.party
    <3> DEFINE o == [key |-> m.token, remote |-> ini[h].expected]
    <3>1. Origin(ini, rsp, q, r)
      BY Zenon DEF HandshakeInv, Stores
    <3>2. Origin(ini, rsp, ini[h].local.party, o)
      BY TokenCase, Zenon
    <3>3. ini[h].local.party \in Party
      BY SentByFields, Zenon DEF Bundles
    <3>4. o.key = r.key
      BY <1>2, Zenon
    <3> HIDE DEF o
    <3> QED
      BY <3>1, <3>2, <3>3, <3>4, PeerOf
  <2>4. Incomplete(h, q, FULL, Base(ini[h], FULL), r.remote.party)
    BY <1>2, <2>1, <2>2, Zenon
  <2> QED
    BY <2>2, <2>3, <2>4, IncompleteStep, Zenon
<1>3. CASE /\ m.token = r.key /\ HasCorrectBundle(keyed, m, r, q)
           /\ net' = net \cup {reply.msg} /\ rsp' = [rsp EXCEPT ![h] = done]
           /\ Remember(q, done) /\ UNCHANGED <<now, version, ini>>
  <2> DEFINE x == ReplyMsg(h, Bundle(q), RESUME, ini[h].symmetric)
             y == ReplySym(h, Bundle(q), RESUME, ini[h].symmetric)
             t == Done(RESUME, y, Bundle(q), ini[h].local, Payload(h, "ini"))
  <2>1. /\ sym = ini[h].symmetric /\ m.sealed.plain[2] = Payload(h, "ini")
        /\ m.sealed.plain[1] = Checksum(keyed, ini[h].local, ini[h].expected)
    BY <1>r, <1>3, Zenon DEF Reads
  <2>2. Checksum(keyed, ini[h].local, ini[h].expected) = Checksum(keyed, r.remote, Bundle(q))
    BY <1>3, <2>1, Zenon DEF HasCorrectBundle
  <2>3. r.remote = ini[h].local /\ ini[h].expected = Bundle(q)
    BY <2>2 DEF Checksum
  <2>4. reply.msg = x /\ reply.sym = y
    <3>1. reply = Reply(h, q, RESUME, ini[h].symmetric)
      BY <2>1, ZenonT(30)
    <3> HIDE DEF reply
    <3>2. Reply(h, q, RESUME, ini[h].symmetric).msg = x /\ Reply(h, q, RESUME, ini[h].symmetric).sym = y
      BY ReplyIs
    <3> QED
      BY <3>1, <3>2, Zenon
  <2> HIDE DEF reply, x, y
  <2>5. done = t
    BY <2>1, <2>3, <2>4, Zenon
  <2>6. Starts(ini[h].symmetric, h)
    <3>1. ini[h] = ResumeSent(h, ini[h].local, m.token, ini[h].expected)
      BY TokenCase, Zenon
    <3> QED
      BY <3>1, TranscriptStarts, ZenonT(30)
  <2>7. Resumes(h, ini[h], Bundle(q), x, t)
    BY <2>3, <2>6, ReplyResumes, Zenon DEF x, y
  <2> HIDE DEF done, t
  <2>8. /\ net' = net \cup {x} /\ rsp' = [rsp EXCEPT ![h] = t] /\ Remember(q, t)
        /\ UNCHANGED <<now, version, ini>>
    BY <1>3, <2>4, <2>5, Zenon
  <2> QED
    BY <2>7, <2>8, ResumeStep, Zenon
<1> QED
  BY <1>a, <1>1, <1>2, <1>3, Zenon

\* Every answer to an init message preserves the invariant.
LEMMA RecvInitStep ==
    ASSUME HandshakeInv, NEW h \in Handshakes, NEW q \in Party, RecvInit(h, q)
    PROVE  HandshakeInv'
<1>1. PICK m \in net :
        /\ m.to = "rsp" /\ m.h = h /\ rsp[h].st = "none" /\ ini[h].local.party # q
        /\ \/ RecvPlain(h, q, m)
           \/ m.token # None /\ \E r \in store[q] : RecvResume(h, q, m, r)
  BY Zenon DEF RecvInit
<1>2. Msgs(h) = {m} /\ SentBy(h, ini[h], m)
  BY <1>1, InitCase
<1>3. CASE RecvPlain(h, q, m) /\ m.token = None
  <2>1. Incomplete(h, q, FULL, Mix(New(h), 1, m.enc_key), None)
    BY <1>3, Zenon DEF RecvPlain
  <2>2. ini[h] = FullSent(h, ini[h].local) /\ m = FullInit(h)
    BY <1>2, <1>3, Zenon DEF SentBy
  <2>3. ini[h].symmetric = Mix(New(h), 1, m.enc_key)
    <3>1. FullSent(h, ini[h].local).symmetric = Mix(New(h), 1, <<"ek", h>>)
      BY FullSentFields, Zenon
    <3>2. m.enc_key = <<"ek", h>>
      BY <2>2, FullInitFields, Zenon
    <3> QED
      BY <2>2, <3>1, <3>2, Zenon
  <2>4. Base(ini[h], FULL) = ini[h].symmetric /\ FULL # FALLBACK
    BY DEF Base, FULL, FALLBACK
  <2>5. Incomplete(h, q, FULL, Base(ini[h], FULL), None)
    BY <2>1, <2>3, <2>4
  <2> QED
    BY <1>1, <1>2, <2>4, <2>5, IncompleteStep, Zenon
<1>4. CASE RecvPlain(h, q, m) /\ m.token # None
  <2>1. Incomplete(h, q, FALLBACK, Mix(Mix(New(h), 9, <<m.enc_key, m.token>>), 14, InitTail(m)), None)
    BY <1>4, Zenon DEF RecvPlain
  <2>2. /\ ini[h].fallback = Mix(ResumeBase(h, m.token), 14, InitTail(m))
        /\ ini[h].fallback # <<>> /\ m.enc_key = <<"ek", h>>
    BY <1>1, <1>2, <1>4, TokenCase, Zenon
  <2>3. ini[h].fallback = Mix(Mix(New(h), 9, <<m.enc_key, m.token>>), 14, InitTail(m))
    BY <2>2 DEF ResumeBase
  <2>4. Base(ini[h], FALLBACK) = ini[h].fallback
    BY DEF Base
  <2>5. Incomplete(h, q, FALLBACK, Base(ini[h], FALLBACK), None)
    BY <2>1, <2>3, <2>4, ZenonT(30)
  <2> QED
    BY <1>1, <1>2, <2>2, <2>5, IncompleteStep, Zenon
<1>5. ASSUME m.token # None, NEW r \in store[q], RecvResume(h, q, m, r) PROVE HandshakeInv'
  BY <1>1, <1>2, <1>5, RecvResumeStep
<1> QED
  BY <1>1, <1>3, <1>4, <1>5, Zenon
=============================================================================
