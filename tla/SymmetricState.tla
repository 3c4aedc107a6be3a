--------------------------- MODULE SymmetricState ---------------------------
(***************************************************************************)
(* transport/src/symmetric_state.rs, symbolically: the key buffer is the   *)
(* sequence of everything hashed into it, <<step_no, data>> by             *)
(* <<step_no, data>>.  Two buffers are equal exactly when the same data    *)
(* was mixed in the same order (the hash is taken to be injective).        *)
(***************************************************************************)
EXTENDS Sequences

Mix(sym, step_no, data) == Append(sym, <<step_no, data>>)

New(aad) == Mix(<<>>, 0, aad)

\* What encrypt_and_mix leaves in the message.  The hash of the ciphertext is that of
\* its plaintext: the key it was made with is already in the buffer.
Encrypt(sym, step_no, plain) == [key |-> sym, step |-> step_no, plain |-> plain]

\* decrypt_and_mix succeeds.
Decrypts(sym, step_no, c) == c.key = sym /\ c.step = step_no

Checksum(sym, input0, input1) == <<sym, input0, input1>>

\* The signature covers the step number and the channel binding.
Signature(sym, step_no, bundle) == [by |-> bundle, ctx |-> step_no, data |-> sym]

\* What sign leaves in the message.
Sign(sym, step_no, bundle) == Encrypt(sym, step_no, Signature(sym, step_no, bundle))

\* The signature check of verify, made after decrypting.
Signed(sym, step_no, bundle, c) == c.plain = Signature(sym, step_no, bundle)

Split(sym, step_no) == [chain |-> sym, step |-> step_no]
=============================================================================
