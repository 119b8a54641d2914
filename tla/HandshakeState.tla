---------------------------- MODULE HandshakeState ----------------------------
(***************************************************************************)
(* HandshakeState (handshake.hpp, handshake.cpp): the XX and IK patterns   *)
(* as operators from the object to the object after the call.  A call that *)
(* fails half-way returns the object as the completed tokens left it: the  *)
(* code has no rollback.                                                   *)
(***************************************************************************)
EXTENDS SymmetricState, Sequences

Prologue            == <<"goodnet/v1/noise">>
protocol_name(p)    == <<"protocol", p>>
pattern_total_steps == [XX |-> 3, IK |-> 2]

(***************************************************************************)
(* A wire message is a sequence of fields, each with its length in bytes.  *)
(* take reads the next len bytes: a field when the read is aligned with    *)
(* one, bytes that no step computed otherwise.                             *)
(***************************************************************************)
NoBytes == [size |-> 0, fields |-> <<>>]

put(m, len, val) ==
    IF len = 0 THEN m
    ELSE [size |-> m.size + len, fields |-> Append(m.fields, [len |-> len, val |-> val])]

aligned(m, len) == m.fields # <<>> /\ Head(m.fields).len = len

take(m, len) ==
    IF aligned(m, len)
    THEN [val |-> Head(m.fields).val,
          rest |-> [size |-> m.size - len, fields |-> Tail(m.fields)]]
    ELSE [val |-> Garbage, rest |-> put(NoBytes, m.size - len, Garbage)]

\* All the remaining bytes as one buffer.
remainder(m) == CASE m.size = 0          -> Empty
                  [] Len(m.fields) = 1   -> Head(m.fields).val
                  [] OTHER               -> <<"bytes", m.fields>>

(***************************************************************************)
(* Constructor.  pre_known_rs is Empty for the null pointer.               *)
(***************************************************************************)
construct(pattern, initiator, static, pre_known_rs) ==
    LET named    == mix_hash(initialize(protocol_name(pattern)), Prologue)
        pins_rs  == pattern = "IK" /\ initiator /\ pre_known_rs # Empty
        pre      == CASE pins_rs                      -> mix_hash(named, pre_known_rs)
                      [] pattern = "IK" /\ ~initiator -> mix_hash(named, static)
                      [] OTHER                        -> named
    IN  [pattern |-> pattern, initiator |-> initiator, step |-> 0, symmetric |-> pre,
         s_sk |-> static, s_pk |-> static, e_sk |-> Zero, e_pk |-> Zero,
         rs |-> IF pins_rs THEN pre_known_rs ELSE Zero, re |-> Zero,
         rs_known |-> pins_rs]

wipe_dh_arrays(hs) ==
    [hs EXCEPT !.s_sk = Zero, !.s_pk = Zero, !.e_sk = Zero,
               !.e_pk = Zero, !.rs = Zero, !.re = Zero]

\* What the destructors of HandshakeState, SymmetricState and CipherState
\* leave in the memory of the object.
destroyed(hs) == [wipe_dh_arrays(hs) EXCEPT !.symmetric = symmetric_destroyed]

\* Mutants: the arrays of the source are not wiped; the step is not moved.
Leaky_handshake_move(hs) ==
    LET symmetric == symmetric_move(hs.symmetric)
    IN  [to |-> [hs EXCEPT !.symmetric = symmetric.to],
         from |-> [hs EXCEPT !.symmetric = symmetric.from]]

Restarting_handshake_move(hs) ==
    LET symmetric == symmetric_move(hs.symmetric)
    IN  [to |-> [hs EXCEPT !.symmetric = symmetric.to, !.step = 0],
         from |-> [wipe_dh_arrays(hs) EXCEPT !.symmetric = symmetric.from]]

\* The pattern, the role, the step and rs_known also stay in the source.
handshake_move(hs) ==
    LET symmetric == symmetric_move(hs.symmetric)
    IN  [to |-> [hs EXCEPT !.symmetric = symmetric.to],
         from |-> [wipe_dh_arrays(hs) EXCEPT !.symmetric = symmetric.from]]

is_complete(hs) == hs.step >= pattern_total_steps[hs.pattern]

(***************************************************************************)
(* Token steps.  They are chained over a call in progress: ok, the object, *)
(* and the bytes written so far or still to read.  Once a token has failed *)
(* the later ones do nothing.                                              *)
(***************************************************************************)
call(hs, bytes) == [ok |-> TRUE, hs |-> hs, bytes |-> bytes]
failed(c)       == [c EXCEPT !.ok = FALSE]

\* sk and pk name the fields of the object that are multiplied.
mix_dh(c, sk, pk) ==
    IF ~c.ok THEN c
    ELSE IF ~dh_ok(c.hs[pk]) THEN failed(c)
    ELSE [c EXCEPT !.hs.symmetric = mix_key(@, dh(c.hs[sk], c.hs[pk]))]

write_e(c, e) ==
    [c EXCEPT !.hs.e_pk = e, !.hs.e_sk = e,
              !.hs.symmetric = mix_hash(@, e),
              !.bytes = put(@, DH_PUBLIC_KEY_BYTES, e)]

sealed_size(sym, plain_size) ==
    plain_size + (IF sym.cipher.has_key THEN AEAD_TAG_BYTES ELSE 0)

write_sealed(c, plain, plain_size) ==
    IF ~c.ok THEN c
    ELSE LET enc == encrypt_and_hash(c.hs.symmetric, plain)
         IN  [c EXCEPT !.hs.symmetric = enc.sym,
                       !.bytes = put(@, sealed_size(c.hs.symmetric, plain_size), enc.out)]

encrypt_static(c)  == write_sealed(c, c.hs.s_pk, DH_PUBLIC_KEY_BYTES)
encrypt_payload(c) == write_sealed(c, Empty, 0)   \* the provider's payload is {}

read_e(c) ==
    IF c.bytes.size < DH_PUBLIC_KEY_BYTES THEN failed(c)
    ELSE LET t == take(c.bytes, DH_PUBLIC_KEY_BYTES)
         IN  [c EXCEPT !.hs.re = t.val, !.hs.symmetric = mix_hash(@, t.val),
                       !.bytes = t.rest]

\* The hash of a static that does not open is left alone; a plaintext of
\* another length than a key (an unkeyed cipher) fails after it was mixed.
read_encrypted_static(c) ==
    LET enc_len == DH_PUBLIC_KEY_BYTES + AEAD_TAG_BYTES
        t       == take(c.bytes, enc_len)
        plain   == decrypt_and_hash(c.hs.symmetric, t.val)
        sizes_match == enc_len = sealed_size(c.hs.symmetric, DH_PUBLIC_KEY_BYTES)
    IN  CASE ~c.ok -> c
          [] c.ok /\ c.bytes.size < enc_len -> failed(c)
          [] OTHER ->
               IF plain.ok /\ sizes_match
               THEN [c EXCEPT !.hs.symmetric = plain.sym, !.hs.rs = plain.out,
                              !.hs.rs_known = TRUE, !.bytes = t.rest]
               ELSE failed([c EXCEPT !.hs.symmetric = plain.sym])

read_payload(c) ==
    IF ~c.ok THEN c
    ELSE LET plain == decrypt_and_hash(c.hs.symmetric, remainder(c.bytes))
         IN  [c EXCEPT !.ok = plain.ok, !.hs.symmetric = plain.sym, !.bytes = NoBytes]

\* ++step_ is the last statement of both functions.
advance(c) == IF c.ok THEN [c EXCEPT !.hs.step = @ + 1] ELSE c

(***************************************************************************)
(* write_message and read_message.  e is the next ephemeral of the random  *)
(* generator.  Neither checks that it is this side's turn.                 *)
(***************************************************************************)
writes_ephemeral(hs) == ~is_complete(hs) /\ hs.step < 2

\* Mutant: a complete handshake is not refused, so IK runs into case 2.
Unguarded_write_message(hs, e) ==
    LET c == call(hs, NoBytes)
    IN  advance(encrypt_payload(
           CASE hs.step = 0 /\ hs.pattern = "IK" ->
                  mix_dh(encrypt_static(mix_dh(write_e(c, e), "e_sk", "rs")), "s_sk", "rs")
             [] hs.step = 0 /\ hs.pattern = "XX" -> write_e(c, e)
             [] hs.step = 1 /\ hs.pattern = "IK" ->
                  mix_dh(mix_dh(write_e(c, e), "e_sk", "re"), "s_sk", "re")
             [] hs.step = 1 /\ hs.pattern = "XX" ->
                  mix_dh(encrypt_static(mix_dh(write_e(c, e), "e_sk", "re")), "s_sk", "re")
             [] hs.step = 2 -> mix_dh(encrypt_static(c), "s_sk", "re")
             [] OTHER -> failed(c)))

write_message(hs, e) ==
    LET c == call(hs, NoBytes)
    IN  IF is_complete(hs) THEN failed(c)
        ELSE advance(encrypt_payload(
               CASE hs.step = 0 /\ hs.pattern = "IK" ->
                      mix_dh(encrypt_static(mix_dh(write_e(c, e), "e_sk", "rs")), "s_sk", "rs")
                 [] hs.step = 0 /\ hs.pattern = "XX" -> write_e(c, e)
                 [] hs.step = 1 /\ hs.pattern = "IK" ->
                      mix_dh(mix_dh(write_e(c, e), "e_sk", "re"), "s_sk", "re")
                 [] hs.step = 1 /\ hs.pattern = "XX" ->
                      mix_dh(encrypt_static(mix_dh(write_e(c, e), "e_sk", "re")), "s_sk", "re")
                 [] hs.step = 2 -> mix_dh(encrypt_static(c), "s_sk", "re")
                 [] OTHER -> failed(c)))

read_message(hs, message) ==
    LET c == call(hs, message)
    IN  IF is_complete(hs) THEN failed(c)
        ELSE advance(read_payload(
               CASE hs.step = 0 /\ hs.pattern = "IK" ->
                      mix_dh(read_encrypted_static(mix_dh(read_e(c), "s_sk", "re")), "s_sk", "rs")
                 [] hs.step = 0 /\ hs.pattern = "XX" -> read_e(c)
                 [] hs.step = 1 /\ hs.pattern = "IK" ->
                      mix_dh(mix_dh(read_e(c), "e_sk", "re"), "e_sk", "rs")
                 [] hs.step = 1 /\ hs.pattern = "XX" ->
                      mix_dh(read_encrypted_static(mix_dh(read_e(c), "e_sk", "re")), "e_sk", "rs")
                 [] hs.step = 2 -> mix_dh(read_encrypted_static(c), "e_sk", "rs")
                 [] OTHER -> failed(c)))

\* Mutants: the pair is not swapped for the responder; the peer ephemeral
\* is not wiped.
Unswapped_handshake_split(hs) ==
    LET pair == split(hs.symmetric)
    IN  [send |-> pair.first, recv |-> pair.second,
         hs   |-> [hs EXCEPT !.symmetric = pair.sym, !.s_sk = Zero,
                             !.e_sk = Zero, !.e_pk = Zero, !.re = Zero]]

PartialWipe_handshake_split(hs) ==
    LET pair == split(hs.symmetric)
    IN  [send |-> IF hs.initiator THEN pair.first ELSE pair.second,
         recv |-> IF hs.initiator THEN pair.second ELSE pair.first,
         hs   |-> [hs EXCEPT !.symmetric = pair.sym, !.s_sk = Zero,
                             !.e_sk = Zero, !.e_pk = Zero]]

\* HandshakeState::split: the transport pair by role, and the eager wipe.
\* The peer static, the hash and the handshake cipher stay.
handshake_split(hs) ==
    LET pair == split(hs.symmetric)
    IN  [send |-> IF hs.initiator THEN pair.first ELSE pair.second,
         recv |-> IF hs.initiator THEN pair.second ELSE pair.first,
         hs   |-> [hs EXCEPT !.symmetric = pair.sym, !.s_sk = Zero,
                             !.e_sk = Zero, !.e_pk = Zero, !.re = Zero]]
==============================================================================
