--------------------------- MODULE HandshakeProofs --------------------------
(***************************************************************************)
(* The rest of the handshake's proof: the initiator's receipt of the reply *)
(* and the responder's of the confirmation preserve the invariant of       *)
(* HandshakeFacts, and what follows from it.                               *)
(***************************************************************************)
EXTENDS HandshakeFacts

\* A leaf that names no prover is tried with these, in this order.
USE SMTT(10), Zenon, Z3T(30)

\* The kinds of answer.
LEMMA AnswerKinds ==
    ASSUME NEW h, NEW s, NEW t, NEW m, AnsweredBy(h, s, t, m)
    PROVE  /\ m = ReplyMsg(h, t.local, m.type, Base(s, m.type))
           /\ m.type = RESUME => s.expected = t.local /\ ResumedBy(h, s, t, m)
           /\ m.type = FALLBACK => s.fallback # <<>>
           /\ m.type # RESUME =>
                /\ m.type \in {FULL, FALLBACK} /\ t.expected \in {None, s.local.party}
                /\ t = RspSent(h, t.local, m.type, Base(s, m.type), t.expected)
                /\ m.sealed.plain[1] = t.local
<1>r. RESUME # FULL /\ RESUME # FALLBACK
  BY DEF RESUME, FULL, FALLBACK
<1>1. CASE AskedBy(h, s, t, m)
  <2>1. PICK type \in {FULL, FALLBACK} :
            /\ type = FALLBACK => s.fallback # <<>>
            /\ t = RspSent(h, t.local, type, Base(s, type), t.expected)
            /\ t.expected \in {None, s.local.party}
            /\ m = ReplyMsg(h, t.local, type, Base(s, type))
    BY <1>1 DEF AskedBy
  <2>2. m.type = type /\ m.sealed.plain = ReplyPlain(h, t.local, type)
    BY <2>1, ReplyFields
  <2>3. m.sealed.plain[1] = t.local
    BY <1>r, <2>2 DEF ReplyPlain
  <2> QED
    BY <1>r, <2>1, <2>2, <2>3, Zenon
<1>2. CASE ResumedBy(h, s, t, m)
  <2>1. m.type = RESUME
    BY <1>2, ReplyFields DEF ResumedBy
  <2> QED
    BY <1>2, <1>r, <2>1, Zenon DEF ResumedBy, Base
<1> QED
  BY <1>1, <1>2, Zenon DEF AnsweredBy

\* The answer itself.
LEMMA AnswerIs ==
    ASSUME NEW h, NEW s, NEW t, NEW m, AnsweredBy(h, s, t, m)
    PROVE  m = ReplyMsg(h, t.local, m.type, Base(s, m.type))
  BY AnswerKinds

\* An answer that resumes.
LEMMA AnswerResumes ==
    ASSUME NEW h, NEW s, NEW t, NEW m, AnsweredBy(h, s, t, m), m.type = RESUME
    PROVE  s.expected = t.local /\ ResumedBy(h, s, t, m)
  BY AnswerKinds, Zenon

\* An answer that does not.
LEMMA AnswerAsks ==
    ASSUME NEW h, NEW s, NEW t, NEW m, AnsweredBy(h, s, t, m), m.type # RESUME
    PROVE  /\ m.type \in {FULL, FALLBACK} /\ t.expected \in {None, s.local.party}
           /\ t = RspSent(h, t.local, m.type, Base(s, m.type), t.expected)
           /\ m.sealed.plain[1] = t.local
  BY AnswerKinds

\* What the responder that does not resume keeps.
LEMMA AskedFields ==
    ASSUME NEW h, NEW s, NEW t, NEW m, AnsweredBy(h, s, t, m), m.type # RESUME
    PROVE  /\ t.st = "sent" /\ t.type = m.type
           /\ t.symmetric = ReplySym(h, t.local, m.type, Base(s, m.type))
           /\ t.reject_if_remote_has_reliable_storage = (m.type = FALLBACK /\ t.local.party \in Reliable)
<1>1. PICK u, c, e : t = u /\ u = RspSent(h, c, m.type, Base(s, m.type), e) /\ c = t.local
  BY AnswerAsks
<1> QED
  BY <1>1, RspSentFields

\* An answer that falls back.
LEMMA AnswerFallsBack ==
    ASSUME NEW h, NEW s, NEW t, NEW m, AnsweredBy(h, s, t, m), m.type = FALLBACK
    PROVE  s.fallback # <<>>
  BY AnswerKinds, Zenon

\* What the initiator computes from the reply to its message is what the responder holds.
LEMMA ReplyValues ==
    ASSUME NEW h, NEW s, NEW t, NEW m, AnsweredBy(h, s, t, m)
    PROVE  LET base == Base(s, m.type)
               keyed == Mix(Mix(base, 2, <<m.type, m.ciphertext>>), 3, <<"ss", m.ciphertext[2]>>)
               signing == Mix(keyed, 4, m.sealed.plain)
           IN  /\ Mix(signing, 5, m.sign.plain) = ReplySym(h, t.local, m.type, base)
               /\ Decrypts(keyed, 4, m.sealed) /\ Decrypts(signing, 5, m.sign)
               /\ Signed(signing, 5, t.local, m.sign)
               /\ m.type # RESUME => m.sealed.plain[1] = t.local
               /\ m.sealed.plain[2] = Payload(h, "rsp")
<1> DEFINE base == Base(s, m.type)
           keyed == Mix(Mix(base, 2, <<m.type, m.ciphertext>>), 3, <<"ss", m.ciphertext[2]>>)
           signing == Mix(keyed, 4, m.sealed.plain)
<1>1. m = ReplyMsg(h, t.local, m.type, base)
  BY AnswerKinds
<1>2. /\ m.ciphertext = <<"ct", h>> /\ m.sealed.plain = ReplyPlain(h, t.local, m.type)
      /\ m.sealed.key = ReplyKeyed(h, m.type, base) /\ m.sealed.step = 4
      /\ m.sign.plain = Signature(ReplySigning(h, t.local, m.type, base), 5, t.local)
      /\ m.sign.key = ReplySigning(h, t.local, m.type, base) /\ m.sign.step = 5
  BY <1>1, ReplyFields
<1>3. keyed = ReplyKeyed(h, m.type, base)
  BY <1>2 DEF ReplyKeyed
<1>4. signing = ReplySigning(h, t.local, m.type, base)
  BY <1>2, <1>3, Zenon DEF ReplySigning
<1>5. /\ m.sealed.plain[2] = Payload(h, "rsp")
      /\ m.type # RESUME => m.sealed.plain[1] = t.local
  BY <1>2 DEF ReplyPlain
<1>6. Mix(signing, 5, m.sign.plain) = ReplySym(h, t.local, m.type, base)
  BY <1>2, <1>4, Zenon DEF ReplySym
<1>7. Decrypts(keyed, 4, m.sealed) /\ Decrypts(signing, 5, m.sign)
      /\ Signed(signing, 5, t.local, m.sign)
  BY <1>2, <1>3, <1>4, Zenon DEF Decrypts, Signed
<1> QED
  BY <1>5, <1>6, <1>7, Zenon

\* The three ways in which process_reply ends.
ReplyRefused(h, m) ==
    /\ \E why : IniFails(h, why)
    /\ ~Valid(rsp[h].local) \/ (m.type # RESUME /\ ~ReplyBundleOk(ini[h], m.type, rsp[h].local))

ReplyConfirmed(h, m) ==
    /\ m.type # RESUME /\ ReplyBundleOk(ini[h], m.type, rsp[h].local)
    /\ Confirm(h, ini[h], m.type, ReplySym(h, rsp[h].local, m.type, Base(ini[h], m.type)),
               rsp[h].local, Payload(h, "rsp"))

ReplyResumed(h, m) ==
    LET done == Done(RESUME, ReplySym(h, rsp[h].local, RESUME, ini[h].symmetric), ini[h].local,
                     rsp[h].local, Payload(h, "rsp"))
    IN  /\ m.type = RESUME
        /\ ini' = [ini EXCEPT ![h] = done] /\ Remember(ini[h].local.party, done)
        /\ UNCHANGED <<now, version, net, rsp>>

\* A reply that the initiator finds is refused for its bundle, confirmed or resumed from.
LEMMA ReplyOutcome ==
    ASSUME HandshakeInv, NEW h \in Handshakes, RecvReply(h)
    PROVE  \E m \in net :
              /\ m.to = "ini" /\ m.h = h /\ ini[h].st = "sent"
              /\ AnsweredBy(h, ini[h], rsp[h], m)
              /\ \E i \in Msgs(h) : Msgs(h) = {i, m} /\ SentBy(h, ini[h], i)
              /\ ReplyRefused(h, m) \/ ReplyConfirmed(h, m) \/ ReplyResumed(h, m)
<1> DEFINE s == ini[h]
           base(m) == IF m.type = FALLBACK THEN s.fallback ELSE s.symmetric
           keyed(m) == Mix(Mix(base(m), 2, <<m.type, m.ciphertext>>), 3, <<"ss", m.ciphertext[2]>>)
           signing(m) == Mix(keyed(m), 4, m.sealed.plain)
           sym(m) == Mix(signing(m), 5, m.sign.plain)
           remote(m) == IF m.type = RESUME THEN s.expected ELSE m.sealed.plain[1]
           payload(m) == m.sealed.plain[2]
           done(m) == Done(RESUME, sym(m), s.local, remote(m), payload(m))
<1>1. PICK m \in net :
        /\ m.to = "ini" /\ m.h = h /\ s.st = "sent"
        /\ IF \/ m.type = FALLBACK /\ s.fallback = <<>>
              \/ ~Decrypts(keyed(m), 4, m.sealed)
              \/ m.type # RESUME /\ ~ReplyBundleOk(s, m.type, remote(m))
           THEN IniFails(h, "Inauthentic")
           ELSE IF m.type = RESUME /\ s.expected = None
           THEN IniFails(h, "Invalid")
           ELSE IF ~Verifies(signing(m), 5, remote(m), m.sign)
           THEN IniFails(h, VerifyError(signing(m), 5, remote(m), m.sign))
           ELSE IF m.type # RESUME
           THEN Confirm(h, s, m.type, sym(m), remote(m), payload(m))
           ELSE /\ ini' = [ini EXCEPT ![h] = done(m)]
                /\ Remember(s.local.party, done(m))
                /\ UNCHANGED <<now, version, net, rsp>>
  BY Zenon DEF RecvReply
<1>2. /\ AnsweredBy(h, ini[h], rsp[h], m)
      /\ \E i \in Msgs(h) : Msgs(h) = {i, m} /\ SentBy(h, ini[h], i)
  BY <1>1, ReplyCase, Zenon
<1>3. base(m) = Base(s, m.type)
  BY DEF Base
<1>4. /\ sym(m) = ReplySym(h, rsp[h].local, m.type, Base(s, m.type))
      /\ Decrypts(keyed(m), 4, m.sealed) /\ Decrypts(signing(m), 5, m.sign)
      /\ Signed(signing(m), 5, rsp[h].local, m.sign)
      /\ remote(m) = rsp[h].local /\ payload(m) = Payload(h, "rsp")
      /\ m.type = FALLBACK => s.fallback # <<>>
      /\ m.type = RESUME => s.expected = rsp[h].local
  <2>1. /\ sym(m) = ReplySym(h, rsp[h].local, m.type, Base(s, m.type))
        /\ Decrypts(keyed(m), 4, m.sealed) /\ Decrypts(signing(m), 5, m.sign)
        /\ Signed(signing(m), 5, rsp[h].local, m.sign)
        /\ payload(m) = Payload(h, "rsp")
    BY <1>2, <1>3, ReplyValues
  <2> HIDE DEF keyed, signing, sym, payload
  <2>2. remote(m) = rsp[h].local
    BY <1>2, AnswerResumes, AnswerAsks
  <2> QED
    BY <1>2, <2>1, <2>2, AnswerResumes, AnswerFallsBack, Zenon
<1>5. m.type = RESUME => s.expected # None
  BY <1>2, <1>4, NotNone, Zenon DEF AnsweredBy
<1>6. Verifies(signing(m), 5, remote(m), m.sign) <=> Valid(rsp[h].local)
  BY <1>4, Zenon DEF Verifies
<1>7. m.type = RESUME => Base(s, m.type) = s.symmetric
  BY DEF Base, RESUME, FALLBACK
<1> HIDE DEF base, keyed, signing, sym, remote, payload
<1>8. \/ m.type # RESUME /\ ~ReplyBundleOk(s, m.type, rsp[h].local) /\ IniFails(h, "Inauthentic")
      \/ /\ ~Valid(rsp[h].local)
         /\ IniFails(h, VerifyError(signing(m), 5, remote(m), m.sign))
      \/ /\ m.type # RESUME /\ ReplyBundleOk(s, m.type, rsp[h].local)
         /\ Confirm(h, s, m.type, sym(m), remote(m), payload(m))
      \/ /\ m.type = RESUME /\ ini' = [ini EXCEPT ![h] = done(m)]
         /\ Remember(s.local.party, done(m)) /\ UNCHANGED <<now, version, net, rsp>>
  BY <1>1, <1>4, <1>5, <1>6, Zenon
<1>9. ReplyRefused(h, m) \/ ReplyConfirmed(h, m) \/ ReplyResumed(h, m)
  BY <1>4, <1>7, <1>8, Zenon DEF ReplyRefused, ReplyConfirmed, ReplyResumed
<1> QED
  BY <1>1, <1>2, <1>9, Zenon

\* The transcripts of a waiting initiator are of its handshake.
LEMMA BaseStarts ==
    ASSUME NEW h, NEW s, NEW i, SentBy(h, s, i), NEW type, type = FALLBACK => s.fallback # <<>>
    PROVE  Starts(Base(s, type), h)
<1>1. CASE s = FullSent(h, s.local)
  <2>1. Starts(FullSent(h, s.local).symmetric, h) /\ FullSent(h, s.local).fallback = <<>>
    <3>1. FullSent(h, s.local).fallback = <<>>
      BY FullSentFields, Zenon
    <3> QED
      BY <3>1, TranscriptStarts
  <2> QED
    BY <1>1, <2>1 DEF Base
<1>2. CASE s = ResumeSent(h, s.local, i.token, s.expected)
  <2>1. /\ Starts(ResumeSent(h, s.local, i.token, s.expected).symmetric, h)
        /\ Starts(ResumeSent(h, s.local, i.token, s.expected).fallback, h)
    BY TranscriptStarts, Zenon
  <2> QED
    BY <1>2, <2>1 DEF Base
<1> QED
  BY <1>1, <1>2, Zenon DEF SentBy

\* The initiator's step at a reply preserves the invariant.
LEMMA RecvReplyStep ==
    ASSUME HandshakeInv, NEW h \in Handshakes, RecvReply(h)
    PROVE  HandshakeInv'
<1> DEFINE s == ini[h]
           t == rsp[h]
<1>t. /\ DOMAIN store = Party /\ DOMAIN ini = Handshakes /\ DOMAIN rsp = Handshakes
  BY DEF HandshakeInv, Typed
<1>1. PICK m \in net :
        /\ m.to = "ini" /\ m.h = h /\ s.st = "sent" /\ AnsweredBy(h, s, t, m)
        /\ \E i \in Msgs(h) : Msgs(h) = {i, m} /\ SentBy(h, s, i)
        /\ ReplyRefused(h, m) \/ ReplyConfirmed(h, m) \/ ReplyResumed(h, m)
  BY ReplyOutcome
<1>2. PICK i \in Msgs(h) : Msgs(h) = {i, m} /\ SentBy(h, s, i)
  BY <1>1
<1>3. i.to = "rsp" /\ s.local \in Bundles /\ s.local.party \in Party
  BY <1>2, SentByFields DEF Bundles
<1>4. /\ t.local \in Bundles /\ t.local.party # s.local.party /\ t.st \in {"sent", "done"}
  BY <1>1, Zenon DEF AnsweredBy
<1>5. /\ m.type # RESUME =>
            /\ m.type \in {FULL, FALLBACK} /\ t.expected \in {None, s.local.party}
            /\ t = RspSent(h, t.local, m.type, Base(s, m.type), t.expected)
      /\ m.type = RESUME => ResumedBy(h, s, t, m)
      /\ m.type = FALLBACK => s.fallback # <<>>
  BY <1>1, AnswerResumes, AnswerAsks, AnswerFallsBack
<1>6. m.type # RESUME =>
        /\ t.st = "sent" /\ t.type = m.type
        /\ t.symmetric = ReplySym(h, t.local, m.type, Base(s, m.type))
        /\ t.reject_if_remote_has_reliable_storage = (m.type = FALLBACK /\ t.local.party \in Reliable)
  BY <1>1, AskedFields
<1>7. Starts(Base(s, m.type), h)
  BY <1>2, <1>5, BaseStarts, Zenon
<1>8. CASE ReplyRefused(h, m)
  <2>1. PICK why : IniFails(h, why)
    BY <1>8, Zenon DEF ReplyRefused
  <2>2. /\ ini' = [ini EXCEPT ![h] = [st |-> "failed", why |-> why]]
        /\ UNCHANGED <<now, version, store, net, rsp>>
    BY <2>1 DEF IniFails
  <2>3. /\ ini'[h].st = "failed" /\ DOMAIN ini' = Handshakes
        /\ \A g \in Handshakes : g # h => ini'[g] = ini[g]
    BY <1>t, <2>2, Zenon
  <2>4. Msgs(h)' = Msgs(h)
    BY <2>2, Zenon DEF Msgs
  <2>5. \A x \in Msgs(h) : x.to # "rsp2"
    BY <1>1, <1>2, <1>3
  <2>6. (t.st = "sent" /\ t.type \in {FULL, FALLBACK}) \/ (t.st = "done" /\ t.type = RESUME)
    <3>1. ResumedBy(h, s, t, m) => t.st = "done" /\ t.type = RESUME
      BY DoneFields DEF ResumedBy
    <3> QED
      BY <1>5, <1>6, <3>1, Zenon
  <2>7. Refused(ini'[h], rsp'[h], Msgs(h)')
    BY <1>4, <2>2, <2>3, <2>4, <2>5, <2>6, Zenon DEF Refused
  <2>8. Phase(h, ini'[h], rsp'[h], Msgs(h)')
    BY <2>7, Zenon DEF Phase
  <2>9. /\ ini[h].st # "done" /\ rsp'[h] = rsp[h]
        /\ rsp[h].st = "done" => Starts(rsp[h].keys.chain, h)
    BY <1>1, <2>2, Zenon DEF HandshakeInv, KeysOf
  <2> QED
    BY <1>t, <2>2, <2>3, <2>8, <2>9, Frame, Zenon
<1>9. CASE ReplyConfirmed(h, m)
  <2> DEFINE sym == ReplySym(h, t.local, m.type, Base(s, m.type))
             x == ConfirmMsg(h, s.local, sym)
             d == Done(m.type, ConfirmSym(h, s.local, sym), s.local, t.local, Payload(h, "rsp"))
  <2>1. /\ m.type # RESUME /\ ReplyBundleOk(s, m.type, t.local)
        /\ Confirm(h, s, m.type, sym, t.local, Payload(h, "rsp"))
    BY <1>9, Zenon DEF ReplyConfirmed
  <2>2. /\ net' = net \cup {x} /\ ini' = [ini EXCEPT ![h] = d] /\ Remember(s.local.party, d)
        /\ UNCHANGED <<now, version, rsp>>
    <3> HIDE DEF sym
    <3> QED
      BY <2>1, Zenon DEF Confirm, ConfirmMsg, ConfirmSym, ConfirmSigning, ConfirmPlain, Sign, Encrypt
  <2>3. x.h = h /\ x.to = "rsp2"
    BY ConfirmFields
  <2>4. /\ d.st = "done" /\ d.type = m.type /\ d.local = s.local /\ d.remote = t.local
        /\ d.keys # None /\ d.keys.chain = ConfirmSym(h, s.local, sym)
    BY NotNone DEF Done, Split
  <2>5. Starts(d.keys.chain, h)
    <3>1. Starts(sym, h)
      BY <1>7, TranscriptStarts, Zenon
    <3> HIDE DEF sym
    <3>2. Starts(ConfirmSym(h, s.local, sym), h)
      BY <3>1, TranscriptStarts, Zenon
    <3> QED
      BY <2>4, <3>2, Zenon
  <2>6. /\ d = Done(t.type, ConfirmSym(h, d.local, t.symmetric), d.local, t.local, Payload(h, "rsp"))
        /\ x = ConfirmMsg(h, d.local, t.symmetric)
    BY <1>6, <2>1, <2>4, Zenon
  <2>7. FallbackAllowed(d)
    BY <2>1, <2>4, Zenon DEF FallbackAllowed, ReplyBundleOk
  <2> HIDE DEF x, d, sym
  <2>8. ConfirmedBy(h, d, t)
    BY <1>5, <1>6, <2>1, <2>4, <2>6, Zenon DEF ConfirmedBy
  <2>9. /\ ini'[h] = d /\ DOMAIN ini' = Handshakes
        /\ \A g \in Handshakes : g # h => ini'[g] = ini[g]
    BY <1>t, <2>2, Zenon
  <2>10. Msgs(h)' = {i, m, x}
    BY <1>2, <2>2, <2>3, NetAdds, ZenonT(30)
  <2>11. \A y \in {i, m, x} : y.to = "rsp2" => y = ConfirmMsg(h, d.local, t.symmetric)
    BY <1>1, <1>3, <2>6, Zenon
  <2>12. Peers(d, t)
    BY <1>3, <1>4, <2>4 DEF Peers
  <2>13. Confirmed(h, d, t, {i, m, x})
    BY <1>5, <1>6, <2>1, <2>4, <2>7, <2>8, <2>11, <2>12, Zenon DEF Confirmed
  <2>14. Phase(h, ini'[h], rsp'[h], Msgs(h)')
    BY <2>2, <2>9, <2>10, <2>13, Zenon DEF Phase
  <2>15. store' = [store EXCEPT ![s.local.party] = @ \cup {[key |-> d.keys, remote |-> d.remote]}]
    BY <2>2, Zenon DEF Remember
  <2>16. DOMAIN store' = Party
    BY <1>t, <2>15
  <2>17. ASSUME NEW p \in Party, NEW r \in store'[p]
         PROVE  \/ r \in store[p]
                \/ /\ r.key # None /\ r.remote \in Bundles /\ r.remote.party # p
                   /\ LeftBy(ini'[h], p, r) \/ LeftBy(rsp'[h], p, r)
    <3>1. r \in store[p] \/ (p = s.local.party /\ r = [key |-> d.keys, remote |-> d.remote])
      BY <1>t, <2>15
    <3>2. CASE p = s.local.party /\ r = [key |-> d.keys, remote |-> d.remote]
      BY <1>4, <2>4, <2>9, <3>2, Zenon DEF LeftBy
    <3> QED
      BY <3>1, <3>2, Zenon
  <2>18. /\ ini[h].st # "done" /\ rsp'[h] = rsp[h] /\ rsp[h].st # "done" /\ ini'[h].st = "done"
    BY <1>1, <1>6, <2>1, <2>2, <2>4, <2>9, Zenon
  <2>19. \A y \in net' : y.to = "rsp" => y \in net
    BY <2>2, <2>3
  <2> QED
    BY <1>t, <2>2, <2>3, <2>5, <2>9, <2>14, <2>16, <2>17, <2>18, <2>19, Frame, ZenonT(30)
<1>10. CASE ReplyResumed(h, m)
  <2> DEFINE sym == ReplySym(h, t.local, RESUME, s.symmetric)
             d == Done(RESUME, sym, s.local, t.local, Payload(h, "rsp"))
             u == Done(RESUME, sym, t.local, s.local, Payload(h, "ini"))
  <2>1. /\ m.type = RESUME /\ ini' = [ini EXCEPT ![h] = d] /\ Remember(s.local.party, d)
        /\ UNCHANGED <<now, version, net, rsp>>
    BY <1>10 DEF ReplyResumed
  <2>2. t = u
    BY <1>5, <2>1, Zenon DEF ResumedBy
  <2>3. /\ d.st = "done" /\ d.type = RESUME /\ d.local = s.local /\ d.remote = t.local
        /\ d.keys # None /\ d.keys.chain = sym /\ d.keys = Split(sym, 13)
        /\ d.payload = Payload(h, "rsp")
    BY NotNone, ZenonT(30) DEF Done, Split
  <2>4. /\ u.st = "done" /\ u.type = RESUME /\ u.local = t.local /\ u.remote = s.local
        /\ u.keys = Split(sym, 13) /\ u.payload = Payload(h, "ini")
    BY NotNone DEF Done, Split
  <2>5. Starts(d.keys.chain, h)
    <3>1. Base(s, RESUME) = s.symmetric
      BY DEF Base, RESUME, FALLBACK
    <3>2. Starts(s.symmetric, h)
      BY <1>7, <2>1, <3>1
    <3>3. Starts(sym, h)
      BY <3>2, TranscriptStarts, Zenon
    <3> HIDE DEF sym
    <3> QED
      BY <2>3, <3>3, Zenon
  <2> HIDE DEF d, u, sym
  <2>6. Agree(h, d, t) /\ Peers(d, t)
    BY <1>3, <1>4, <2>2, <2>3, <2>4, Zenon DEF Agree, Peers
  <2>7. FallbackAllowed(d) /\ RESUME \in Types
    BY <2>3 DEF FallbackAllowed, RESUME, FALLBACK, Types
  <2>8. Finished(h, d, t)
    BY <2>2, <2>3, <2>4, <2>6, <2>7, Zenon DEF Finished
  <2>9. /\ ini'[h] = d /\ DOMAIN ini' = Handshakes
        /\ \A g \in Handshakes : g # h => ini'[g] = ini[g]
    BY <1>t, <2>1
  <2>10. Phase(h, ini'[h], rsp'[h], Msgs(h)')
    BY <2>1, <2>8, <2>9, Zenon DEF Phase
  <2>15. store' = [store EXCEPT ![s.local.party] = @ \cup {[key |-> d.keys, remote |-> d.remote]}]
    BY <2>1, Zenon DEF Remember
  <2>16. DOMAIN store' = Party
    BY <1>t, <2>15
  <2>17. ASSUME NEW p \in Party, NEW r \in store'[p]
         PROVE  \/ r \in store[p]
                \/ /\ r.key # None /\ r.remote \in Bundles /\ r.remote.party # p
                   /\ LeftBy(ini'[h], p, r) \/ LeftBy(rsp'[h], p, r)
    <3>1. r \in store[p] \/ (p = s.local.party /\ r = [key |-> d.keys, remote |-> d.remote])
      BY <1>t, <2>15
    <3>2. CASE p = s.local.party /\ r = [key |-> d.keys, remote |-> d.remote]
      BY <1>4, <2>3, <2>9, <3>2, Zenon DEF LeftBy
    <3> QED
      BY <3>1, <3>2
  <2>18. /\ ini[h].st # "done" /\ rsp'[h] = rsp[h] /\ ini'[h].st = "done"
         /\ rsp[h].st = "done" => Starts(rsp[h].keys.chain, h)
    BY <1>1, <2>1, <2>3, <2>9, Zenon DEF HandshakeInv, KeysOf
  <2> QED
    BY <1>t, <2>1, <2>5, <2>9, <2>10, <2>16, <2>17, <2>18, Frame, ZenonT(30)
<1> QED
  BY <1>1, <1>8, <1>9, <1>10, Zenon

\* The responder's side that a confirmation finishes.
ConfirmDone(h, s, t) ==
    Done(t.type, ConfirmSym(h, s.local, t.symmetric), t.local, s.local, Payload(h, "ini"))

\* A confirmation that the responder finds fails for the validity of the initiator's bundle
\* only, and finishes the handshake otherwise.
LEMMA ConfirmOutcome ==
    ASSUME HandshakeInv, NEW h \in Handshakes, RecvConfirm(h)
    PROVE  /\ rsp[h].st = "sent" /\ Confirmed(h, ini[h], rsp[h], Msgs(h))
           /\ ini[h].type = rsp[h].type /\ ini[h].remote = rsp[h].local
           /\ \/ ~Valid(ini[h].local) /\ \E why : RspFails(h, why)
              \/ /\ rsp' = [rsp EXCEPT ![h] = ConfirmDone(h, ini[h], rsp[h])]
                 /\ Remember(rsp[h].local.party, ConfirmDone(h, ini[h], rsp[h]))
                 /\ UNCHANGED <<now, version, net, ini>>
<1> DEFINE s == ini[h]
           t == rsp[h]
           signing(m) == Mix(t.symmetric, 6, m.sealed.plain)
           sym(m) == Mix(signing(m), 7, m.sign.plain)
           remote(m) == m.sealed.plain[1]
           done(m) == Done(t.type, sym(m), t.local, remote(m), m.sealed.plain[2])
<1>1. PICK m \in net :
        /\ m.to = "rsp2" /\ m.h = h /\ t.st = "sent"
        /\ IF ~Decrypts(t.symmetric, 6, m.sealed)
           THEN RspFails(h, "Inauthentic")
           ELSE IF ~Valid(remote(m))
           THEN RspFails(h, "Invalid")
           ELSE IF \/ t.expected # None /\ t.expected # remote(m).party
                   \/ t.reject_if_remote_has_reliable_storage /\ remote(m).party \in Reliable
           THEN RspFails(h, "Inauthentic")
           ELSE IF ~Verifies(signing(m), 7, remote(m), m.sign)
           THEN RspFails(h, VerifyError(signing(m), 7, remote(m), m.sign))
           ELSE /\ rsp' = [rsp EXCEPT ![h] = done(m)]
                /\ Remember(t.local.party, done(m))
                /\ UNCHANGED <<now, version, net, ini>>
  BY Zenon DEF RecvConfirm
<1>2. Confirmed(h, s, t, Msgs(h)) /\ m = ConfirmMsg(h, s.local, t.symmetric)
  BY <1>1, ConfirmCase, Zenon
<1>3. ConfirmedBy(h, s, t) /\ FallbackAllowed(s)
  BY <1>2, Zenon DEF Confirmed
<1>4. s.type = t.type /\ s.remote = t.local
  <2>1. /\ Done(t.type, ConfirmSym(h, s.local, t.symmetric), s.local, t.local, Payload(h, "rsp")).type = t.type
        /\ Done(t.type, ConfirmSym(h, s.local, t.symmetric), s.local, t.local, Payload(h, "rsp")).remote = t.local
    BY DoneFields
  <2> QED
    BY <1>3, <2>1, Zenon DEF ConfirmedBy
<1>5. /\ m.sealed.plain = ConfirmPlain(h, s.local) /\ m.sealed.key = t.symmetric /\ m.sealed.step = 6
      /\ m.sign.plain = Signature(ConfirmSigning(h, s.local, t.symmetric), 7, s.local)
      /\ m.sign.key = ConfirmSigning(h, s.local, t.symmetric) /\ m.sign.step = 7
  BY <1>2, ConfirmFields
<1>6. remote(m) = s.local /\ m.sealed.plain[2] = Payload(h, "ini")
  BY <1>5 DEF ConfirmPlain
<1>7. signing(m) = ConfirmSigning(h, s.local, t.symmetric)
  BY <1>5, Zenon DEF ConfirmSigning
<1>8. sym(m) = ConfirmSym(h, s.local, t.symmetric)
  BY <1>5, <1>7, Zenon DEF ConfirmSym
<1>9. /\ Decrypts(t.symmetric, 6, m.sealed)
      /\ Verifies(signing(m), 7, s.local, m.sign) <=> Valid(s.local)
  BY <1>5, <1>7, Zenon DEF Decrypts, Verifies, Signed
<1>10. done(m) = ConfirmDone(h, s, t)
  BY <1>6, <1>8, Zenon DEF ConfirmDone
<1>11. ~(t.expected # None /\ t.expected # s.local.party)
  BY <1>3 DEF ConfirmedBy
<1>12. ~(t.reject_if_remote_has_reliable_storage /\ s.local.party \in Reliable)
  BY <1>3, <1>4, Zenon DEF ConfirmedBy, FallbackAllowed
<1> HIDE DEF signing, sym, remote, done
<1>13. \/ ~Valid(s.local) /\ RspFails(h, "Invalid")
       \/ /\ rsp' = [rsp EXCEPT ![h] = done(m)] /\ Remember(t.local.party, done(m))
          /\ UNCHANGED <<now, version, net, ini>>
  BY <1>1, <1>6, <1>9, <1>11, <1>12, ZenonT(30)
<1> QED
  BY <1>1, <1>2, <1>4, <1>10, <1>13, Zenon

\* The responder's step at a confirmation preserves the invariant.
LEMMA RecvConfirmStep ==
    ASSUME HandshakeInv, NEW h \in Handshakes, RecvConfirm(h)
    PROVE  HandshakeInv'
<1> DEFINE s == ini[h]
           t == rsp[h]
           d == ConfirmDone(h, s, t)
<1>t. /\ DOMAIN store = Party /\ DOMAIN ini = Handshakes /\ DOMAIN rsp = Handshakes
  BY DEF HandshakeInv, Typed
<1>1. /\ t.st = "sent" /\ Confirmed(h, s, t, Msgs(h)) /\ s.type = t.type /\ s.remote = t.local
      /\ \/ \E why : RspFails(h, why)
         \/ /\ rsp' = [rsp EXCEPT ![h] = d] /\ Remember(t.local.party, d)
            /\ UNCHANGED <<now, version, net, ini>>
  BY ConfirmOutcome, Zenon
<1>2. /\ s.st = "done" /\ t.type \in {FULL, FALLBACK} /\ Peers(s, t) /\ ConfirmedBy(h, s, t)
      /\ FallbackAllowed(s)
  BY <1>1, Zenon DEF Confirmed
<1>3. Starts(s.keys.chain, h)
  BY <1>2 DEF HandshakeInv, KeysOf
<1>4. ASSUME NEW why, RspFails(h, why) PROVE HandshakeInv'
  <2>1. /\ rsp' = [rsp EXCEPT ![h] = [st |-> "failed", why |-> why]]
        /\ UNCHANGED <<now, version, store, net, ini>>
    BY <1>4 DEF RspFails
  <2>2. /\ rsp'[h].st = "failed" /\ DOMAIN rsp' = Handshakes
        /\ \A g \in Handshakes : g # h => rsp'[g] = rsp[g]
    BY <1>t, <2>1
  <2>3. Unconfirmed(ini'[h], rsp'[h])
    BY <1>1, <1>2, <2>1, <2>2, Zenon DEF Unconfirmed, Peers
  <2>4. Phase(h, ini'[h], rsp'[h], Msgs(h)')
    BY <2>3, Zenon DEF Phase
  <2> QED
    BY <1>t, <1>1, <1>2, <1>3, <2>1, <2>2, <2>4, Frame, ZenonT(30)
<1>5. CASE /\ rsp' = [rsp EXCEPT ![h] = d] /\ Remember(t.local.party, d)
           /\ UNCHANGED <<now, version, net, ini>>
  <2> DEFINE sym == ConfirmSym(h, s.local, t.symmetric)
             n == IF t.type = RESUME THEN 13 ELSE 8
             u == Done(t.type, sym, s.local, t.local, Payload(h, "rsp"))
  <2>1. /\ d.st = "done" /\ d.type = t.type /\ d.local = t.local /\ d.remote = s.local
        /\ d.keys # None /\ d.keys.chain = sym /\ d.keys = Split(sym, n)
        /\ d.payload = Payload(h, "ini")
    BY NotNone, Zenon DEF Done, Split, ConfirmDone
  <2>2. u.keys = Split(sym, n) /\ u.payload = Payload(h, "rsp")
    BY DoneFields
  <2>3. s = u
    BY <1>2, Zenon DEF ConfirmedBy
  <2> HIDE DEF d, u, sym, n
  <2>4. Agree(h, s, d) /\ Peers(s, d) /\ t.local.party \in Party /\ s.local \in Bundles
    BY <1>1, <1>2, <2>1, <2>2, <2>3, Zenon DEF Agree, Peers, Bundles
  <2>5. s.type \in Types
    BY <1>1, <1>2, Zenon DEF Types
  <2>6. Finished(h, s, d)
    BY <1>2, <2>1, <2>4, <2>5, Zenon DEF Finished
  <2>7. Starts(d.keys.chain, h)
    BY <1>3, <2>4 DEF Agree
  <2>9. /\ rsp'[h] = d /\ DOMAIN rsp' = Handshakes
        /\ \A g \in Handshakes : g # h => rsp'[g] = rsp[g]
    BY <1>t, <1>5
  <2>10. Phase(h, ini'[h], rsp'[h], Msgs(h)')
    BY <1>5, <2>6, <2>9, Zenon DEF Phase
  <2>15. store' = [store EXCEPT ![t.local.party] = @ \cup {[key |-> d.keys, remote |-> d.remote]}]
    BY <1>5, Zenon DEF Remember
  <2>16. DOMAIN store' = Party
    BY <1>t, <2>15, Zenon
  <2>17. ASSUME NEW p \in Party, NEW r \in store'[p]
         PROVE  \/ r \in store[p]
                \/ /\ r.key # None /\ r.remote \in Bundles /\ r.remote.party # p
                   /\ LeftBy(ini'[h], p, r) \/ LeftBy(rsp'[h], p, r)
    <3>1. r \in store[p] \/ (p = t.local.party /\ r = [key |-> d.keys, remote |-> d.remote])
      BY <1>t, <2>15
    <3>2. CASE p = t.local.party /\ r = [key |-> d.keys, remote |-> d.remote]
      BY <1>2, <2>1, <2>4, <2>9, <3>2, Zenon DEF LeftBy, Peers
    <3> QED
      BY <3>1, <3>2, Zenon
  <2>18. /\ rsp[h].st # "done" /\ ini'[h] = ini[h] /\ ini'[h].st = "done" /\ net' = net
    BY <1>1, <1>2, <1>5, Zenon
  <2> QED
    BY <1>t, <1>3, <1>5, <2>7, <2>9, <2>10, <2>16, <2>17, <2>18, Frame, ZenonT(30)
<1> QED
  BY <1>1, <1>4, <1>5, Zenon

-----------------------------------------------------------------------------
(* The invariant.                                                          *)

\* Nothing has begun.
LEMMA InitHandshake == Init => HandshakeInv
<1> SUFFICES ASSUME Init PROVE HandshakeInv
  OBVIOUS
<1>1. Typed
  BY HandshakeAssumption DEF Init, Typed
<1>2. \A h \in Handshakes : ini[h].st = "none" /\ rsp[h].st = "none" /\ Msgs(h) = {}
  BY DEF Init, Msgs
<1>3. Phases
  BY <1>2, Zenon DEF Phases, Phase, Before
<1>4. KeysOf
  BY <1>2, Zenon DEF KeysOf
<1>5. Stores /\ Tokens
  BY DEF Init, Stores, Tokens
<1> QED
  BY <1>1, <1>3, <1>4, <1>5, Zenon DEF HandshakeInv

\* What a clock, a new bundle and a loss leave of the invariant.
LEMMA OutsideStep ==
    ASSUME HandshakeInv, UNCHANGED <<net, ini, rsp>>, Typed',
           \A p \in Party : store'[p] \subseteq store[p]
    PROVE  HandshakeInv'
<1>i. Typed /\ Phases /\ KeysOf /\ Stores /\ Tokens
  BY DEF HandshakeInv
<1>1. \A h : Msgs(h)' = Msgs(h)
  BY Zenon DEF Msgs
<1>2. Phases'
  BY <1>i, <1>1, Zenon DEF Phases
<1>3. KeysOf'
  BY <1>i, Zenon DEF KeysOf
<1>4. Stores'
  BY <1>i, Zenon DEF Stores
<1>5. Tokens'
  BY <1>i, Zenon DEF Tokens
<1> QED
  BY <1>2, <1>3, <1>4, <1>5, Zenon DEF HandshakeInv

\* Every step preserves the invariant.
LEMMA StepHandshake == HandshakeInv /\ [Next]_vars => HandshakeInv'
<1> SUFFICES ASSUME HandshakeInv, [Next]_vars PROVE HandshakeInv'
  OBVIOUS
<1>t. Typed
  BY DEF HandshakeInv
<1>1. ASSUME NEW h \in Handshakes, NEW p \in Party, Open(h, p) PROVE HandshakeInv'
  BY <1>1, OpenStep
<1>2. ASSUME NEW h \in Handshakes, NEW q \in Party, RecvInit(h, q) PROVE HandshakeInv'
  BY <1>2, RecvInitStep
<1>3. ASSUME NEW h \in Handshakes, RecvReply(h) PROVE HandshakeInv'
  BY <1>3, RecvReplyStep
<1>4. ASSUME NEW h \in Handshakes, RecvConfirm(h) PROVE HandshakeInv'
  BY <1>4, RecvConfirmStep
<1>5. CASE Tick
  <2>1. Typed'
    BY <1>t, <1>5, HandshakeAssumption DEF Tick, Typed
  <2> QED
    BY <1>5, <2>1, OutsideStep, Zenon DEF Tick
<1>6. ASSUME NEW p \in Party, Rotate(p) PROVE HandshakeInv'
  <2>1. Typed'
    BY <1>t, <1>6, HandshakeAssumption DEF Rotate, Typed
  <2> QED
    BY <1>6, <2>1, OutsideStep, Zenon DEF Rotate
<1>7. ASSUME NEW p \in Party, Lose(p) PROVE HandshakeInv'
  <2>1. Typed'
    BY <1>t, <1>7 DEF Lose, Typed
  <2>2. \A q \in Party : store'[q] \subseteq store[q]
    BY <1>t, <1>7, Zenon DEF Lose, Typed
  <2> QED
    BY <1>7, <2>1, <2>2, OutsideStep, Zenon DEF Lose
<1>8. CASE UNCHANGED vars
  <2>1. UNCHANGED <<now, version, store, net, ini, rsp>>
    BY <1>8 DEF vars
  <2>2. Typed'
    BY <1>t, <2>1 DEF Typed
  <2> QED
    BY <2>1, <2>2, OutsideStep, Zenon
<1> QED
  BY <1>1, <1>2, <1>3, <1>4, <1>5, <1>6, <1>7, <1>8, Zenon DEF Next

\* The invariant holds always.
LEMMA AlwaysHandshake == Spec => []HandshakeInv
  BY InitHandshake, StepHandshake, PTL DEF Spec

-----------------------------------------------------------------------------
(* The properties.                                                         *)

\* A finished handshake is in one of three phases.
LEMMA DoneCase ==
    ASSUME HandshakeInv, NEW h \in Handshakes
    PROVE  /\ ini[h].st = "done" /\ rsp[h].st = "done" => Finished(h, ini[h], rsp[h])
           /\ ini[h].st = "done" => FallbackAllowed(ini[h])
           /\ ini[h].st = "done" /\ rsp[h].st # "done" => ini[h].type \in {FULL, FALLBACK}
           /\ rsp[h].st = "done" /\ ini[h].st # "done" => rsp[h].type = RESUME
<1> DEFINE s == ini[h]
           t == rsp[h]
           M == Msgs(h)
<1>1. Phase(h, s, t, M)
  BY Zenon DEF HandshakeInv, Phases
<1>2. CASE Before(s, t, M)
  BY <1>2 DEF Before
<1>3. CASE Opened(h, s, t, M)
  BY <1>3, Zenon DEF Opened, SentBy
<1>4. CASE Answered(h, s, t, M)
  <2>1. PICK i \in M, m \in M : SentBy(h, s, i) /\ AnsweredBy(h, s, t, m)
    BY <1>4, Zenon DEF Answered
  <2>2. s.st = "sent"
    BY <2>1, Zenon DEF SentBy
  <2>3. t.st = "done" => ResumedBy(h, s, t, m)
    BY <2>1, Zenon DEF AnsweredBy, AskedBy
  <2>4. t.st = "done" => t.type = RESUME
    BY <2>3, DoneFields DEF ResumedBy
  <2> QED
    BY <2>2, <2>4, Zenon
<1>5. CASE Refused(s, t, M)
  BY <1>5, Zenon DEF Refused
<1>6. CASE Confirmed(h, s, t, M)
  <2>1. s.type = t.type
    BY <1>6, DoneIs DEF Confirmed, ConfirmedBy
  <2> QED
    BY <1>6, <2>1, Zenon DEF Confirmed
<1>7. CASE Unconfirmed(s, t)
  BY <1>7, Zenon DEF Unconfirmed
<1>8. CASE Finished(h, s, t)
  BY <1>8 DEF Finished
<1> QED
  BY <1>1, <1>2, <1>3, <1>4, <1>5, <1>6, <1>7, <1>8, ZenonT(30) DEF Phase

\* Whatever path a handshake took, its two finished sides hold the same keys, the same kind
\* of handshake, each other's bundles and payloads (Agreement).
THEOREM SidesAgree == Spec => []Agreement
<1>1. HandshakeInv => Agreement
  BY DoneCase, Zenon DEF Agreement, Finished, Agree
<1> QED
  BY <1>1, AlwaysHandshake, PTL

\* A side finishes only after the other has proved itself (CompletionOrder): process_reply
\* of a resumed handshake, process_confirm of any other.
THEOREM InOrder == Spec => []CompletionOrder
<1>1. ASSUME HandshakeInv, NEW h \in Handshakes
      PROVE  /\ ini[h].st = "done" /\ ini[h].type = RESUME =>
                    rsp[h].st = "done" /\ rsp[h].keys = ini[h].keys
             /\ rsp[h].st = "done" /\ rsp[h].type # RESUME =>
                    ini[h].st = "done" /\ ini[h].keys = rsp[h].keys
  <2>1. RESUME \notin {FULL, FALLBACK}
    BY DEF RESUME, FULL, FALLBACK
  <2> QED
    BY <1>1, <2>1, DoneCase, Zenon DEF Finished, Agree
<1>2. HandshakeInv => CompletionOrder
  BY <1>1, Zenon DEF CompletionOrder
<1> QED
  BY <1>2, AlwaysHandshake, PTL

\* Two parties that promise reliable storage never finish a fallback: process_reply and
\* process_confirm refuse it (NoFallbackWithReliableStorage).
THEOREM NoFallback == Spec => []NoFallbackWithReliableStorage
<1>1. ASSUME HandshakeInv, NEW h \in Handshakes
      PROVE  /\ ini[h].st = "done" => FallbackAllowed(ini[h])
             /\ rsp[h].st = "done" => FallbackAllowed(rsp[h])
  <2>1. FALLBACK # RESUME
    BY DEF RESUME, FALLBACK
  <2> QED
    BY <1>1, <2>1, DoneCase, Zenon DEF Finished, Agree, FallbackAllowed
<1>2. HandshakeInv => NoFallbackWithReliableStorage
  BY <1>1, Zenon DEF NoFallbackWithReliableStorage, FallbackAllowed
<1> QED
  BY <1>2, AlwaysHandshake, PTL

\* The sides of a handshake are records of one of their states, with bundles of real
\* parties, and no resumed handshake waits for a confirmation (TypeOK).
THEOREM TypeCorrect == Spec => []TypeOK
<1>1. ASSUME HandshakeInv, NEW h \in Handshakes
      PROVE  /\ ini[h].st \in {"none", "sent", "done", "failed", "panicked"}
             /\ rsp[h].st \in {"none", "sent", "done", "failed"}
             /\ Started(ini[h]) => ini[h].local \in Bundles
             /\ Started(rsp[h]) => rsp[h].local \in Bundles /\ rsp[h].type \in Types
             /\ rsp[h].st = "sent" => rsp[h].type # RESUME
  <2> DEFINE s == ini[h]
             t == rsp[h]
             M == Msgs(h)
  <2>1. Phase(h, s, t, M)
    BY <1>1 DEF HandshakeInv, Phases
  <2>r. RESUME \notin {FULL, FALLBACK} /\ {FULL, FALLBACK} \subseteq Types /\ RESUME \in Types
    BY DEF RESUME, FULL, FALLBACK, Types
  <2>2. CASE Before(s, t, M)
    BY <2>2, Zenon DEF Before, Started
  <2>3. CASE Opened(h, s, t, M)
    BY <2>3 DEF Opened, SentBy, Started
  <2>4. CASE Answered(h, s, t, M)
    <3>1. PICK i \in M, m \in M : SentBy(h, s, i) /\ AnsweredBy(h, s, t, m)
      BY <2>4, Zenon DEF Answered
    <3>2. s.st = "sent" /\ s.local \in Bundles
      BY <3>1, Zenon DEF SentBy
    <3>3. t.st \in {"sent", "done"} /\ t.local \in Bundles
      BY <3>1, Zenon DEF AnsweredBy
    <3>4. CASE AskedBy(h, s, t, m)
      <4>1. t.st = "sent" /\ t.type \in {FULL, FALLBACK}
        BY <3>4, RspSentFields DEF AskedBy
      <4> QED
        BY <2>r, <3>2, <3>3, <4>1, Zenon DEF Started
    <3>5. CASE ResumedBy(h, s, t, m)
      <4>1. t.st = "done" /\ t.type = RESUME
        BY <3>5, DoneFields DEF ResumedBy
      <4> QED
        BY <2>r, <3>2, <3>3, <4>1, Zenon DEF Started
    <3> QED
      BY <3>1, <3>4, <3>5, Zenon DEF AnsweredBy
  <2>5. CASE Refused(s, t, M)
    BY <2>r, <2>5 DEF Refused, Started
  <2>6. CASE Confirmed(h, s, t, M)
    BY <2>r, <2>6, Zenon DEF Confirmed, Started, Peers
  <2>7. CASE Unconfirmed(s, t)
    BY <2>7, Zenon DEF Unconfirmed, Started
  <2>8. CASE Finished(h, s, t)
    BY <2>8, Zenon DEF Finished, Started, Peers, Agree
  <2> QED
    BY <2>1, <2>2, <2>3, <2>4, <2>5, <2>6, <2>7, <2>8, Zenon DEF Phase
<1>2. HandshakeInv => TypeOK
  BY <1>1, Zenon DEF TypeOK, HandshakeInv, Typed, Stores
<1> QED
  BY <1>2, AlwaysHandshake, PTL

\* Which steps change the sides of a handshake.
LEMMA Changes ==
    ASSUME HandshakeInv, [Next]_vars, NEW h \in Handshakes
    PROVE  /\ ini'[h] # ini[h] => RecvReply(h) \/ \E p \in Party : Open(h, p)
           /\ rsp'[h] # rsp[h] => RecvConfirm(h) \/ \E q \in Party : RecvInit(h, q)
<1>t. DOMAIN ini = Handshakes /\ DOMAIN rsp = Handshakes
  BY DEF HandshakeInv, Typed
<1>1. ASSUME NEW g \in Handshakes, NEW p \in Party, Open(g, p), g # h
      PROVE  ini'[h] = ini[h] /\ rsp'[h] = rsp[h]
  BY <1>t, <1>1, ZenonT(30) DEF Open, OpenFull, OpenResume
<1>2. ASSUME NEW g \in Handshakes, NEW p \in Party, Open(g, p) PROVE rsp' = rsp
  BY <1>2, Zenon DEF Open, OpenFull, OpenResume
<1>3. ASSUME NEW g \in Handshakes, NEW q \in Party, RecvInit(g, q)
      PROVE  ini' = ini /\ (g # h => rsp'[h] = rsp[h])
  <2> DEFINE Sets == ini' = ini /\ \E v : rsp' = [rsp EXCEPT ![g] = v]
  <2>1. ASSUME NEW type, NEW sym, NEW expected, Incomplete(g, q, type, sym, expected) PROVE Sets
    BY <2>1, Zenon DEF Incomplete
  <2>2. ASSUME NEW why, RspFails(g, why) PROVE Sets
    BY <2>2, Zenon DEF RspFails
  <2>3. ASSUME NEW m, RecvPlain(g, q, m) PROVE Sets
    BY <2>1, <2>3, Zenon DEF RecvPlain
  <2>4. ASSUME NEW m, NEW r, RecvResume(g, q, m, r) PROVE Sets
    BY <2>1, <2>2, <2>4, Zenon DEF RecvResume
  <2>5. Sets
    BY <1>3, <2>3, <2>4, Zenon DEF RecvInit
  <2> QED
    BY <1>t, <2>5
<1>4. ASSUME NEW g \in Handshakes, RecvReply(g) PROVE rsp' = rsp /\ (g # h => ini'[h] = ini[h])
  <2> DEFINE Sets == rsp' = rsp /\ \E v : ini' = [ini EXCEPT ![g] = v]
  <2>1. PICK m \in net : ReplyRefused(g, m) \/ ReplyConfirmed(g, m) \/ ReplyResumed(g, m)
    BY <1>4, ReplyOutcome, Zenon
  <2>2. ReplyRefused(g, m) => Sets
    BY Zenon DEF ReplyRefused, IniFails
  <2>3. ReplyConfirmed(g, m) => Sets
    BY Zenon DEF ReplyConfirmed, Confirm
  <2>4. ReplyResumed(g, m) => Sets
    BY Zenon DEF ReplyResumed
  <2>5. Sets
    BY <2>1, <2>2, <2>3, <2>4, Zenon
  <2> QED
    BY <1>t, <2>5, Zenon
<1>5. ASSUME NEW g \in Handshakes, RecvConfirm(g) PROVE ini' = ini /\ (g # h => rsp'[h] = rsp[h])
  BY <1>t, <1>5, Zenon DEF RecvConfirm, RspFails
<1>6. CASE Tick \/ (\E p \in Party : Rotate(p) \/ Lose(p)) \/ UNCHANGED vars
  BY <1>6, Zenon DEF Tick, Rotate, Lose, vars
<1> QED
  BY <1>1, <1>2, <1>3, <1>4, <1>5, <1>6, Zenon DEF Next

\* An initiator with resumption data never finishes with another party (IntendedParty): the
\* check of the offline key in process_reply, and the checksum of a resumed handshake.
THEOREM PartyIsIntended == Spec => IntendedParty
<1>1. ASSUME HandshakeInv, [Next]_vars, NEW h \in Handshakes,
             ini[h].st = "sent", ini'[h].st = "done", ini[h].expected # None
      PROVE  ini'[h].remote.party = ini[h].expected.party
  <2>t. DOMAIN ini = Handshakes
    BY <1>1 DEF HandshakeInv, Typed
  <2>1. RecvReply(h)
    BY <1>1, Changes, ZenonT(30) DEF Open, OpenFull, OpenResume
  <2>2. PICK m \in net :
            /\ AnsweredBy(h, ini[h], rsp[h], m)
            /\ ReplyRefused(h, m) \/ ReplyConfirmed(h, m) \/ ReplyResumed(h, m)
    BY <1>1, <2>1, ReplyOutcome, Zenon
  <2>3. CASE ReplyRefused(h, m)
    BY <1>1, <2>t, <2>3 DEF ReplyRefused, IniFails
  <2>4. CASE ReplyConfirmed(h, m)
    <3>1. ini[h].expected.party = rsp[h].local.party
      BY <1>1, <2>4, Zenon DEF ReplyConfirmed, ReplyBundleOk
    <3>2. \E sym : ini'[h] = Done(m.type, sym, ini[h].local, rsp[h].local, Payload(h, "rsp"))
      BY <2>t, <2>4, Zenon DEF ReplyConfirmed, Confirm
    <3>3. ini'[h].remote = rsp[h].local
      BY <3>2, DoneIs
    <3> QED
      BY <3>1, <3>3
  <2>5. CASE ReplyResumed(h, m)
    <3>1. ini[h].expected = rsp[h].local
      BY <2>2, <2>5, AnswerResumes, ZenonT(30) DEF ReplyResumed
    <3>2. \E sym : ini'[h] = Done(RESUME, sym, ini[h].local, rsp[h].local, Payload(h, "rsp"))
      BY <2>t, <2>5, Zenon DEF ReplyResumed
    <3>3. ini'[h].remote = rsp[h].local
      BY <3>2, DoneIs
    <3> QED
      BY <3>1, <3>3
  <2> QED
    BY <2>2, <2>3, <2>4, <2>5, Zenon
<1>2. HandshakeInv /\ [Next]_vars =>
        [\A h \in Handshakes :
            ini[h].st = "sent" /\ ini'[h].st = "done" /\ ini[h].expected # None =>
                ini'[h].remote.party = ini[h].expected.party]_vars
  BY <1>1, Zenon
<1> QED
  BY <1>2, AlwaysHandshake, PTL DEF Spec, IntendedParty

\* A responder fails at the init message for the application's resumption data or for the
\* validity of the initiator's bundle.
LEMMA InitFailure ==
    ASSUME HandshakeInv, NEW h \in Handshakes, NEW q \in Party, RecvInit(h, q),
           rsp'[h].st = "failed"
    PROVE  rsp'[h].why = "IncorrectResumption" \/ ~Valid(ini[h].local)
<1>t. DOMAIN rsp = Handshakes
  BY Zenon DEF HandshakeInv, Typed
<1>1. PICK m \in net :
        /\ m.to = "rsp" /\ m.h = h /\ rsp[h].st = "none" /\ ini[h].local.party # q
        /\ \/ RecvPlain(h, q, m)
           \/ m.token # None /\ \E r \in store[q] : RecvResume(h, q, m, r)
  BY DEF RecvInit
<1>2. SentBy(h, ini[h], m)
  BY <1>1, InitCase, Zenon
<1>3. ASSUME NEW type, NEW sym, NEW expected, Incomplete(h, q, type, sym, expected) PROVE FALSE
  <2>1. rsp'[h].st = "sent"
    BY <1>3, <1>t DEF Incomplete
  <2> QED
    BY <2>1, Zenon
<1>4. ~RecvPlain(h, q, m)
  BY <1>3, Zenon DEF RecvPlain
<1>5. PICK r \in store[q] : RecvResume(h, q, m, r) /\ m.token # None
  BY <1>1, <1>4, Zenon
<1>6. CASE m.token # r.key
  <2>1. RspFails(h, "IncorrectResumption")
    BY <1>5, <1>6, Zenon DEF RecvResume
  <2>2. rsp' = [rsp EXCEPT ![h] = [st |-> "failed", why |-> "IncorrectResumption"]]
    BY <2>1 DEF RspFails
  <2>3. rsp'[h] = [st |-> "failed", why |-> "IncorrectResumption"]
    BY <1>t, <2>2, Zenon
  <2> QED
    BY <2>3
<1>7. CASE m.token = r.key
  <2> DEFINE keyed == Mix(Mix(New(h), 9, <<m.enc_key, m.token>>), 10, r.key)
             signing == Mix(keyed, 11, m.sealed.plain)
             sym == Mix(signing, 12, m.sign.plain)
             reply == Reply(h, q, RESUME, sym)
             done == Done(RESUME, reply.sym, Bundle(q), r.remote, m.sealed.plain[2])
  <2>1. /\ Decrypts(keyed, 11, m.sealed) /\ Decrypts(signing, 12, m.sign)
        /\ Signed(signing, 12, ini[h].local, m.sign)
        /\ m.sealed.plain[1] = Checksum(keyed, ini[h].local, ini[h].expected)
    BY <1>1, <1>2, <1>5, <1>7, ResumeValues, ZenonT(30)
  <2>2. done.st = "done"
    BY DEF Done
  <2>3. /\ HasCorrectBundle(keyed, m, r, q)
        /\ ~Verifies(signing, 12, r.remote, m.sign) \/ rsp' = [rsp EXCEPT ![h] = done]
    <3> HIDE DEF keyed, done
    <3> QED
      BY <1>3, <1>5, <1>7, <2>1, Zenon DEF RecvResume, keyed, done
  <2>4. r.remote = ini[h].local
    <3>1. Checksum(keyed, ini[h].local, ini[h].expected) = Checksum(keyed, r.remote, Bundle(q))
      BY <2>1, <2>3, Zenon DEF HasCorrectBundle
    <3> QED
      BY <3>1, Zenon DEF Checksum
  <2> HIDE DEF keyed, signing, done
  <2>5. ~Verifies(signing, 12, r.remote, m.sign)
    BY <1>t, <2>2, <2>3, Zenon
  <2> QED
    BY <2>1, <2>4, <2>5, Zenon DEF Verifies
<1> QED
  BY <1>6, <1>7, Zenon

\* Between parties that follow the protocol a handshake fails for a bundle outside its
\* validity period, for an answer by somebody else, for a fallback of parties with reliable
\* storage or for wrong resumption data, and for nothing else (OnlyJustifiedFailures).
THEOREM FailuresAreJustified == Spec => OnlyJustifiedFailures
<1>1. ASSUME HandshakeInv, [Next]_vars, NEW h \in Handshakes, ini'[h].st = "failed", ini[h].st # "failed"
      PROVE  IniExcuse(h)
  <2>t. DOMAIN ini = Handshakes
    BY <1>1, Zenon DEF HandshakeInv, Typed
  <2>1. ASSUME NEW p \in Party, Open(h, p) PROVE FALSE
    <3>1. ASSUME OpenFull(h, p) PROVE FALSE
      <4>1. \E b, f, x, y : ini' = [ini EXCEPT ![h] =
                [st |-> "sent", symmetric |-> b, fallback |-> f, local |-> x, expected |-> y]]
        BY <3>1, Zenon DEF OpenFull
      <4>2. ini'[h].st = "sent"
        BY <2>t, <4>1
      <4> QED
        BY <1>1, <4>2
    <3>2. ASSUME NEW r, OpenResume(h, p, r) PROVE FALSE
      <4>1. ASSUME InitSignFits PROVE ini'[h].st = "sent"
        <5>1. \E b, f, x, y : ini' = [ini EXCEPT ![h] =
                [st |-> "sent", symmetric |-> b, fallback |-> f, local |-> x, expected |-> y]]
          BY <3>2, <4>1, ZenonT(30) DEF OpenResume
        <5> QED
          BY <2>t, <5>1
      <4>2. ASSUME ~InitSignFits PROVE ini'[h].st = "panicked"
        <5>1. ini' = [ini EXCEPT ![h] = [st |-> "panicked"]]
          BY <3>2, <4>2, Zenon DEF OpenResume
        <5> QED
          BY <2>t, <5>1
      <4> QED
        BY <1>1, <4>1, <4>2, Zenon
    <3> QED
      BY <2>1, <3>1, <3>2, Zenon DEF Open
  <2>2. RecvReply(h)
    BY <1>1, <2>1, Changes, Zenon
  <2>3. PICK m \in net :
            /\ m.to = "ini" /\ m.h = h /\ AnsweredBy(h, ini[h], rsp[h], m)
            /\ ReplyRefused(h, m) \/ ReplyConfirmed(h, m) \/ ReplyResumed(h, m)
    BY <1>1, <2>2, ReplyOutcome, Zenon
  <2>4. ~ReplyConfirmed(h, m)
    <3>1. ReplyConfirmed(h, m) =>
            \E sym : ini'[h] = Done(m.type, sym, ini[h].local, rsp[h].local, Payload(h, "rsp"))
      BY <2>t, Zenon DEF ReplyConfirmed, Confirm
    <3> QED
      BY <1>1, <3>1, DoneIs
  <2>5. ~ReplyResumed(h, m)
    <3>1. ReplyResumed(h, m) =>
            \E sym : ini'[h] = Done(RESUME, sym, ini[h].local, rsp[h].local, Payload(h, "rsp"))
      BY <2>t, Zenon DEF ReplyResumed
    <3> QED
      BY <1>1, <3>1, DoneIs
  <2>6. \/ ~Valid(rsp[h].local)
        \/ m.type # RESUME /\ ~ReplyBundleOk(ini[h], m.type, rsp[h].local)
    BY <2>3, <2>4, <2>5, Zenon DEF ReplyRefused
  <2>7. (IF m.type = RESUME THEN ini[h].expected ELSE m.sealed.plain[1]) = rsp[h].local
    <3>1. m.type = RESUME => ini[h].expected = rsp[h].local
      BY <2>3, AnswerResumes
    <3>2. m.type # RESUME => m.sealed.plain[1] = rsp[h].local
      BY <2>3, AnswerAsks
    <3> QED
      BY <3>1, <3>2, Zenon
  <2>8. \/ ~Valid(rsp[h].local)
        \/ ini[h].expected # None /\ ini[h].expected.party # rsp[h].local.party
        \/ m.type = FALLBACK /\ {rsp[h].local.party, ini[h].local.party} \subseteq Reliable
    BY <2>6, Zenon DEF ReplyBundleOk
  <2> QED
    BY <2>3, <2>7, <2>8, Zenon DEF IniExcuse
<1>2. ASSUME HandshakeInv, [Next]_vars, NEW h \in Handshakes, rsp'[h].st = "failed", rsp[h].st # "failed"
      PROVE  rsp'[h].why = "IncorrectResumption" \/ ~Valid(ini[h].local)
  <2>t. DOMAIN rsp = Handshakes
    BY <1>2, Zenon DEF HandshakeInv, Typed
  <2>1. RecvConfirm(h) \/ \E q \in Party : RecvInit(h, q)
    BY <1>2, Changes, Zenon
  <2>2. CASE RecvConfirm(h)
    <3>1. \/ ~Valid(ini[h].local)
          \/ rsp' = [rsp EXCEPT ![h] = ConfirmDone(h, ini[h], rsp[h])]
      BY <1>2, <2>2, ConfirmOutcome, Zenon
    <3>2. ConfirmDone(h, ini[h], rsp[h]).st = "done"
      BY DoneFields DEF ConfirmDone
    <3> QED
      BY <1>2, <2>t, <3>1, <3>2
  <2>3. ASSUME NEW q \in Party, RecvInit(h, q)
        PROVE  rsp'[h].why = "IncorrectResumption" \/ ~Valid(ini[h].local)
    BY <1>2, <2>3, InitFailure, Zenon
  <2> QED
    BY <2>1, <2>2, <2>3, Zenon
<1>3. HandshakeInv /\ [Next]_vars =>
        [\A h \in Handshakes :
            /\ ini'[h].st = "failed" /\ ini[h].st # "failed" => IniExcuse(h)
            /\ rsp'[h].st = "failed" /\ rsp[h].st # "failed" =>
                rsp'[h].why = "IncorrectResumption" \/ ~Valid(ini[h].local)]_vars
  BY <1>1, <1>2, Zenon
<1> QED
  BY <1>3, AlwaysHandshake, PTL DEF Spec, OnlyJustifiedFailures
=============================================================================
