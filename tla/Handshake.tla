----------------------------- MODULE Handshake ------------------------------
(***************************************************************************)
(* transport/src/{initiator,responder,key_bundle}.rs: the handshake, full, *)
(* resumed or falling back, among parties whose key bundles are replaced   *)
(* and expire and who may lose the resumption data they stored.            *)
(*                                                                         *)
(* `initialize` is Open, `process_initialize` is RecvInit, `process_reply` *)
(* is RecvReply and `process_confirm` is RecvConfirm.  Messages travel     *)
(* over a network that may lose them, delay them or carry an init message  *)
(* to another party than it was meant for.  A handshake number is answered *)
(* once (context.rs keeps it on cooldown).  Storing and finding resumption *)
(* data is left to the application by the code and is external here.       *)
(***************************************************************************)
EXTENDS Integers, SymmetricState

CONSTANTS
    Party,
    Reliable,        \* the parties whose bundles carry FLAG_RELIABLE_STORAGE
    MaxHandshake,    \* handshakes are numbered 1..MaxHandshake
    Validity,        \* sequence: not_before and not_after of a party's bundles
    MaxTime,         \* the clock stops here
    TAG_LEN, SIGN_LEN,
    InitSignTagRev   \* distance from the end of the init message where the
                     \* signature's tag ends: ONLINE_SIGN_TAG_REV_END, i.e. TAG_LEN,
                     \* in the source; 0 in every other message

ASSUME HandshakeAssumption ==
    /\ Reliable \subseteq Party
    /\ MaxHandshake \in Nat \ {0}
    /\ MaxTime \in Nat
    /\ Validity \in Seq([not_before : Nat, not_after : Nat]) /\ Len(Validity) > 0
    /\ TAG_LEN \in Nat /\ SIGN_LEN \in Nat /\ InitSignTagRev \in 0..(SIGN_LEN + TAG_LEN)

Handshakes == 1..MaxHandshake

None == [none |-> TRUE]

FULL == 0
FALLBACK == 1
RESUME == 2

VARIABLES
    now,      \* secs_since_unix_epoch, the same for all parties
    version,  \* which of its bundles a party uses
    store,    \* external: the resumption data a party holds, with the peer's bundle
    net,      \* every message sent so far
    ini,      \* initiator's side of each handshake
    rsp       \* responder's side of each handshake

vars == <<now, version, store, net, ini, rsp>>

Bundle(p) == [party |-> p, ver |-> version[p]]

\* AuthenticBundle::authenticate and verify: the validity period of a bundle.  Its
\* certificate is always good: parties send the bundles they made.
Valid(b) == now >= Validity[b.ver].not_before /\ now <= Validity[b.ver].not_after

\* SymmetricState::verify with a bundle, and the error it returns otherwise.
Verifies(sym, step_no, b, c) ==
    Decrypts(sym, step_no, c) /\ Valid(b) /\ Signed(sym, step_no, b, c)

VerifyError(sym, step_no, b, c) ==
    IF Decrypts(sym, step_no, c) /\ ~Valid(b) THEN "Invalid" ELSE "Inauthentic"

\* Payloads are told apart by handshake and side.
Payload(h, side) == <<h, side>>

\* Init message, sealed parts and the rest of it that a fallback still authenticates.
InitTail(m) == <<m.sealed, m.sign>>

\* sign copies a signature into the slice that ends InitSignTagRev before the end.
InitSignFits == (SIGN_LEN + TAG_LEN - InitSignTagRev) - TAG_LEN = SIGN_LEN

Init ==
    /\ now = 0
    /\ version = [p \in Party |-> 1]
    /\ store = [p \in Party |-> {}]
    /\ net = {}
    /\ ini = [h \in Handshakes |-> [st |-> "none"]]
    /\ rsp = [h \in Handshakes |-> [st |-> "none"]]

\* HandshakeComplete.
Done(type, sym, local, remote, payload) ==
    [st |-> "done", type |-> type, keys |-> Split(sym, IF type = RESUME THEN 13 ELSE 8),
     local |-> local, remote |-> remote, payload |-> payload]

\* The application keeps the keys of a finished handshake for later resumption.
Remember(p, done) ==
    store' = [store EXCEPT ![p] = @ \union {[key |-> done.keys, remote |-> done.remote]}]

-----------------------------------------------------------------------------

\* initialize without resumption data: the state is that of a two round trip handshake.
OpenFull(h, p) ==
    LET m == [to |-> "rsp", h |-> h, enc_key |-> <<"ek", h>>, token |-> None]
    IN
    /\ ini[h].st = "none"
    /\ net' = net \union {m}
    /\ ini' = [ini EXCEPT ![h] =
                [st |-> "sent", symmetric |-> Mix(New(h), 1, m.enc_key), fallback |-> <<>>,
                 local |-> Bundle(p), expected |-> None]]
    /\ UNCHANGED <<now, version, store, rsp>>

\* initialize with resumption data r.
OpenResume(h, p, r) ==
    LET ek == <<"ek", h>>
        base == Mix(New(h), 9, <<ek, r.key>>)
        keyed == Mix(base, 10, r.key)
        head == <<Checksum(keyed, Bundle(p), r.remote), Payload(h, "ini")>>
        sealed == Encrypt(keyed, 11, head)
        signing == Mix(keyed, 11, head)
        sign == Sign(signing, 12, Bundle(p))
        m == [to |-> "rsp", h |-> h, enc_key |-> ek, token |-> r.key,
              sealed |-> sealed, sign |-> sign]
    IN
    /\ ini[h].st = "none"
    /\ IF InitSignFits
       THEN /\ net' = net \union {m}
            /\ ini' = [ini EXCEPT ![h] =
                [st |-> "sent", symmetric |-> Mix(signing, 12, sign.plain),
                 fallback |-> Mix(base, 14, InitTail(m)),
                 local |-> Bundle(p), expected |-> r.remote]]
       ELSE /\ ini' = [ini EXCEPT ![h] = [st |-> "panicked"]]
            /\ UNCHANGED net
    /\ UNCHANGED <<now, version, store, rsp>>

Open(h, p) ==
    /\ \A g \in 1..(h - 1) : ini[g].st # "none"
    /\ \/ OpenFull(h, p)
       \/ \E r \in store[p] : OpenResume(h, p, r)

-----------------------------------------------------------------------------

\* The reply: type and symmetric state after the init message are given.
Reply(h, q, type, sym) ==
    LET keyed == Mix(Mix(sym, 2, <<type, <<"ct", h>>>>), 3, <<"ss", h>>)
        plain == <<IF type = RESUME THEN None ELSE Bundle(q), Payload(h, "rsp")>>
        signing == Mix(keyed, 4, plain)
        sign == Sign(signing, 5, Bundle(q))
    IN [msg |-> [to |-> "ini", h |-> h, type |-> type, ciphertext |-> <<"ct", h>>,
                 sealed |-> Encrypt(keyed, 4, plain), sign |-> sign],
        sym |-> Mix(signing, 5, sign.plain)]

RspFails(h, why) ==
    /\ rsp' = [rsp EXCEPT ![h] = [st |-> "failed", why |-> why]]
    /\ UNCHANGED <<now, version, store, net, ini>>

\* The responder answers and waits for the confirmation.
Incomplete(h, q, type, sym, expected) ==
    LET r == Reply(h, q, type, sym) IN
    /\ net' = net \union {r.msg}
    /\ rsp' = [rsp EXCEPT ![h] =
                [st |-> "sent", symmetric |-> r.sym, type |-> type, local |-> Bundle(q),
                 expected |-> expected,
                 reject_if_remote_has_reliable_storage |-> type = FALLBACK /\ q \in Reliable]]
    /\ UNCHANGED <<now, version, store, ini>>

\* The checksum is not compared.
HasCorrectBundleAssumed(keyed, m, r, q) == TRUE

\* The initiator and the responder hold each other's current bundle.
HasCorrectBundle(keyed, m, r, q) ==
    m.sealed.plain[1] = Checksum(keyed, r.remote, Bundle(q))

\* process_initialize with resumption data r.
RecvResume(h, q, m, r) ==
    LET base == Mix(New(h), 9, <<m.enc_key, m.token>>)
        keyed == Mix(base, 10, r.key)
        signing == Mix(keyed, 11, m.sealed.plain)
        sym == Mix(signing, 12, m.sign.plain)
        reply == Reply(h, q, RESUME, sym)
        done == Done(RESUME, reply.sym, Bundle(q), r.remote, m.sealed.plain[2])
    IN
    IF m.token # r.key
    THEN RspFails(h, "IncorrectResumption")
    ELSE IF ~Decrypts(keyed, 11, m.sealed) \/ ~Decrypts(signing, 12, m.sign)
    THEN RspFails(h, "Inauthentic")
    ELSE IF ~HasCorrectBundle(keyed, m, r, q)
    THEN Incomplete(h, q, FULL, sym, r.remote.party)
    ELSE IF ~Verifies(signing, 12, r.remote, m.sign)
    THEN RspFails(h, VerifyError(signing, 12, r.remote, m.sign))
    ELSE /\ net' = net \union {reply.msg}
         /\ rsp' = [rsp EXCEPT ![h] = done]
         /\ Remember(q, done)
         /\ UNCHANGED <<now, version, ini>>

\* process_initialize without resumption data.
RecvPlain(h, q, m) ==
    IF m.token = None
    THEN Incomplete(h, q, FULL, Mix(New(h), 1, m.enc_key), None)
    ELSE Incomplete(h, q, FALLBACK,
            Mix(Mix(New(h), 9, <<m.enc_key, m.token>>), 14, InitTail(m)), None)

\* Party q answers an init message.  The application passes the resumption data that
\* belongs to the token, or none when it has none, or (its mistake) another one.  It has
\* none to pass for a message without a token, which is too short to be read with any.
RecvInit(h, q) ==
    \E m \in net :
        /\ m.to = "rsp" /\ m.h = h /\ rsp[h].st = "none" /\ ini[h].local.party # q
        /\ \/ /\ m.token = None \/ \A r \in store[q] : r.key # m.token
              /\ RecvPlain(h, q, m)
           \/ /\ m.token # None
              /\ \E r \in store[q] : RecvResume(h, q, m, r)

-----------------------------------------------------------------------------

IniFails(h, why) ==
    /\ ini' = [ini EXCEPT ![h] = [st |-> "failed", why |-> why]]
    /\ UNCHANGED <<now, version, store, net, rsp>>

\* The keys are split before the signature is mixed in.
ConfirmSplitsEarly(h, s, type, sym, remote, payload) ==
    LET plain == <<s.local, Payload(h, "ini")>>
        signing == Mix(sym, 6, plain)
        done == Done(type, signing, s.local, remote, payload)
    IN
    /\ net' = net \union {[to |-> "rsp2", h |-> h, sealed |-> Encrypt(sym, 6, plain),
                           sign |-> Sign(signing, 7, s.local)]}
    /\ ini' = [ini EXCEPT ![h] = done]
    /\ Remember(s.local.party, done)
    /\ UNCHANGED <<now, version, rsp>>

\* The confirmation is sent and the initiator goes on waiting.
ConfirmNotCompleted(h, s, type, sym, remote, payload) ==
    LET plain == <<s.local, Payload(h, "ini")>> IN
    /\ net' = net \union {[to |-> "rsp2", h |-> h, sealed |-> Encrypt(sym, 6, plain),
                           sign |-> Sign(Mix(sym, 6, plain), 7, s.local)]}
    /\ UNCHANGED <<now, version, store, ini, rsp>>

\* The confirmation, and the initiator's side of a finished two round trip handshake.
Confirm(h, s, type, sym, remote, payload) ==
    LET plain == <<s.local, Payload(h, "ini")>>
        signing == Mix(sym, 6, plain)
        sign == Sign(signing, 7, s.local)
        done == Done(type, Mix(signing, 7, sign.plain), s.local, remote, payload)
    IN
    /\ net' = net \union {[to |-> "rsp2", h |-> h, sealed |-> Encrypt(sym, 6, plain), sign |-> sign]}
    /\ ini' = [ini EXCEPT ![h] = done]
    /\ Remember(s.local.party, done)
    /\ UNCHANGED <<now, version, rsp>>

\* The bundle check of process_reply for a reply that carries one, without the rule on
\* reliable storage.
ReplyBundleOkLax(s, type, b) ==
    /\ Valid(b)
    /\ s.expected # None => s.expected.party = b.party

\* The bundle check without the comparison of offline keys.
ReplyBundleOkAnyone(s, type, b) ==
    /\ Valid(b)
    /\ ~(type = FALLBACK /\ {b.party, s.local.party} \subseteq Reliable)

\* The bundle a reply of type FULL or FALLBACK carries is accepted.
ReplyBundleOk(s, type, b) ==
    /\ Valid(b)
    /\ ~(type = FALLBACK /\ {b.party, s.local.party} \subseteq Reliable)
    /\ s.expected # None => s.expected.party = b.party

\* process_reply.
RecvReply(h) ==
    \E m \in net :
        LET s == ini[h]
            base == IF m.type = FALLBACK THEN s.fallback ELSE s.symmetric
            keyed == Mix(Mix(base, 2, <<m.type, m.ciphertext>>), 3, <<"ss", m.ciphertext[2]>>)
            signing == Mix(keyed, 4, m.sealed.plain)
            sym == Mix(signing, 5, m.sign.plain)
            remote == IF m.type = RESUME THEN s.expected ELSE m.sealed.plain[1]
            payload == m.sealed.plain[2]
            done == Done(RESUME, sym, s.local, remote, payload)
        IN
        /\ m.to = "ini" /\ m.h = h /\ s.st = "sent"
        /\ IF \/ m.type = FALLBACK /\ s.fallback = <<>>
              \/ ~Decrypts(keyed, 4, m.sealed)
              \/ m.type # RESUME /\ ~ReplyBundleOk(s, m.type, remote)
           THEN IniFails(h, "Inauthentic")
           ELSE IF m.type = RESUME /\ s.expected = None
           THEN IniFails(h, "Invalid")
           ELSE IF ~Verifies(signing, 5, remote, m.sign)
           THEN IniFails(h, VerifyError(signing, 5, remote, m.sign))
           ELSE IF m.type # RESUME
           THEN Confirm(h, s, m.type, sym, remote, payload)
           ELSE /\ ini' = [ini EXCEPT ![h] = done]
                /\ Remember(s.local.party, done)
                /\ UNCHANGED <<now, version, net, rsp>>

\* process_confirm.
RecvConfirm(h) ==
    \E m \in net :
        LET s == rsp[h]
            signing == Mix(s.symmetric, 6, m.sealed.plain)
            sym == Mix(signing, 7, m.sign.plain)
            remote == m.sealed.plain[1]
            done == Done(s.type, sym, s.local, remote, m.sealed.plain[2])
        IN
        /\ m.to = "rsp2" /\ m.h = h /\ s.st = "sent"
        /\ IF ~Decrypts(s.symmetric, 6, m.sealed)
           THEN RspFails(h, "Inauthentic")
           ELSE IF ~Valid(remote)
           THEN RspFails(h, "Invalid")
           ELSE IF \/ s.expected # None /\ s.expected # remote.party
                   \/ s.reject_if_remote_has_reliable_storage /\ remote.party \in Reliable
           THEN RspFails(h, "Inauthentic")
           ELSE IF ~Verifies(signing, 7, remote, m.sign)
           THEN RspFails(h, VerifyError(signing, 7, remote, m.sign))
           ELSE /\ rsp' = [rsp EXCEPT ![h] = done]
                /\ Remember(s.local.party, done)
                /\ UNCHANGED <<now, version, net, ini>>

-----------------------------------------------------------------------------

\* External: time passes, a party changes to its next bundle, a party without reliable
\* storage loses its resumption data.
Tick ==
    /\ now < MaxTime
    /\ now' = now + 1
    /\ UNCHANGED <<version, store, net, ini, rsp>>

Rotate(p) ==
    /\ version[p] < Len(Validity)
    /\ version' = [version EXCEPT ![p] = @ + 1]
    /\ UNCHANGED <<now, store, net, ini, rsp>>

Lose(p) ==
    /\ p \notin Reliable /\ store[p] # {}
    /\ store' = [store EXCEPT ![p] = {}]
    /\ UNCHANGED <<now, version, net, ini, rsp>>

Next ==
    \/ \E h \in Handshakes, p \in Party : Open(h, p)
    \/ \E h \in Handshakes, q \in Party : RecvInit(h, q)
    \/ \E h \in Handshakes : RecvReply(h)
    \/ \E h \in Handshakes : RecvConfirm(h)
    \/ Tick
    \/ \E p \in Party : Rotate(p)
    \/ \E p \in Party : Lose(p)

Spec == Init /\ [][Next]_vars
-----------------------------------------------------------------------------

Bundles == [party : Party, ver : DOMAIN Validity]

Types == {FULL, FALLBACK, RESUME}

Started(s) == s.st \in {"sent", "done"}

\* Every side of a handshake is in one of its states, with bundles of real parties,
\* and nobody waits for a confirmation of a resumed handshake.
TypeOK ==
    /\ now \in 0..MaxTime
    /\ version \in [Party -> DOMAIN Validity]
    /\ \A p \in Party : \A r \in store[p] : r.remote \in Bundles /\ r.remote.party # p
    /\ \A h \in Handshakes :
        /\ ini[h].st \in {"none", "sent", "done", "failed", "panicked"}
        /\ rsp[h].st \in {"none", "sent", "done", "failed"}
        /\ Started(ini[h]) => ini[h].local \in Bundles
        /\ Started(rsp[h]) => rsp[h].local \in Bundles /\ rsp[h].type \in Types
        /\ rsp[h].st = "sent" => rsp[h].type # RESUME

\* Both sides of a finished handshake have the same keys and the same kind of
\* handshake, each holds the very bundle the other used, and each received the other's
\* payload: whatever path (full, resumed, fallback, full after a stale bundle) was
\* taken, split is reached over equal transcripts.
Agreement ==
    \A h \in Handshakes :
        ini[h].st = "done" /\ rsp[h].st = "done" =>
            /\ ini[h].keys = rsp[h].keys
            /\ ini[h].type = rsp[h].type
            /\ ini[h].remote = rsp[h].local /\ rsp[h].remote = ini[h].local
            /\ ini[h].payload = Payload(h, "rsp") /\ rsp[h].payload = Payload(h, "ini")

\* A side finishes only after the other one has proved itself: the initiator of a
\* resumed handshake after the responder finished with the same keys, the responder of
\* any other one after the initiator did.
CompletionOrder ==
    \A h \in Handshakes :
        /\ ini[h].st = "done" /\ ini[h].type = RESUME =>
            rsp[h].st = "done" /\ rsp[h].keys = ini[h].keys
        /\ rsp[h].st = "done" /\ rsp[h].type # RESUME =>
            ini[h].st = "done" /\ ini[h].keys = rsp[h].keys

\* "A party's offline key is their id and it must never change": an initiator that
\* started from resumption data never finishes with anybody else, even when its init
\* message was answered by another party.
IntendedParty ==
    [][\A h \in Handshakes :
        ini[h].st = "sent" /\ ini'[h].st = "done" /\ ini[h].expected # None =>
            ini'[h].remote.party = ini[h].expected.party]_vars

\* Parties that both promise reliable storage never finish a handshake in which one of
\* them has forgotten the other.
NoFallbackWithReliableStorage ==
    \A h \in Handshakes :
        /\ ini[h].st = "done" /\ ini[h].type = FALLBACK =>
            ~({ini[h].local.party, ini[h].remote.party} \subseteq Reliable)
        /\ rsp[h].st = "done" /\ rsp[h].type = FALLBACK =>
            ~({rsp[h].local.party, rsp[h].remote.party} \subseteq Reliable)

\* What may make the initiator refuse the reply: the responder's bundle is not valid
\* now, it is not the party to resume with, or both promise reliable storage.
IniExcuse(h) ==
    \E m \in net :
        LET s == ini[h]
            b == IF m.type = RESUME THEN s.expected ELSE m.sealed.plain[1]
        IN
        /\ m.to = "ini" /\ m.h = h
        /\ \/ ~Valid(b)
           \/ s.expected # None /\ s.expected.party # b.party
           \/ m.type = FALLBACK /\ {b.party, s.local.party} \subseteq Reliable

\* Honest parties with intact messages fail for one of four reasons only: a bundle is
\* outside its validity period, an initiator with resumption data reached somebody
\* else, a fallback between parties with reliable storage, or the application passed
\* resumption data of another token.  No path of the protocol makes the two
\* transcripts differ.
OnlyJustifiedFailures ==
    [][\A h \in Handshakes :
        /\ ini'[h].st = "failed" /\ ini[h].st # "failed" => IniExcuse(h)
        /\ rsp'[h].st = "failed" /\ rsp[h].st # "failed" =>
            rsp'[h].why = "IncorrectResumption" \/ ~Valid(ini[h].local)]_vars

\* "In this case, we want to use the resumption key to resume this socket with 1-rtt":
\* initialize with resumption data returns a message.
ResumptionInitializes == \A h \in Handshakes : ini[h].st # "panicked"
=============================================================================
