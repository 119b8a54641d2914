---------------------------- MODULE SymmetricState ----------------------------
(***************************************************************************)
(* SymmetricState (symmetric.hpp, symmetric.cpp): chaining key, handshake  *)
(* hash and the handshake cipher.                                          *)
(***************************************************************************)
EXTENDS CipherState

\* Both protocol names fit in HASHLEN, so h is the padded name and ck = h.
initialize(protocol_name) ==
    [ck |-> protocol_name, h |-> protocol_name, cipher |-> zeroized]

symmetric_destroyed == [ck |-> Zero, h |-> Zero, cipher |-> zeroized]

symmetric_move(sym) ==
    LET cipher == cipher_move(sym.cipher)
    IN  [to |-> [sym EXCEPT !.cipher = cipher.to],
         from |-> [ck |-> Zero, h |-> Zero, cipher |-> cipher.from]]

mix_hash(sym, data) == [sym EXCEPT !.h = blake2b(@, data)]

mix_key(sym, input_key_material) ==
    LET out == hkdf2(sym.ck, input_key_material)
    IN  [sym EXCEPT !.ck = out.output1,
                    !.cipher = initialize_key(CipherKey(out.output2))]

encrypt_and_hash(sym, pt) ==
    LET e == encrypt_with_ad(sym.cipher, sym.h, pt)
    IN  [sym |-> mix_hash([sym EXCEPT !.cipher = e.cipher], e.out), out |-> e.out]

\* Mutant: the reader forgets to mix the ciphertext.
NoMix_decrypt_and_hash(sym, ct) ==
    LET d == decrypt_with_ad(sym.cipher, sym.h, ct)
    IN  [ok |-> d.ok, sym |-> [sym EXCEPT !.cipher = d.cipher], out |-> d.out]

\* The hash is mixed only on success.
decrypt_and_hash(sym, ct) ==
    LET d == decrypt_with_ad(sym.cipher, sym.h, ct)
    IN  [ok  |-> d.ok,
         sym |-> IF d.ok THEN mix_hash([sym EXCEPT !.cipher = d.cipher], ct) ELSE sym,
         out |-> d.out]

\* Split leaves the handshake hash and the handshake cipher in place; only
\* the chaining key is wiped.
split(sym) ==
    LET out == hkdf2(sym.ck, Empty)
    IN  [first  |-> initialize_key(CipherKey(out.output1)),
         second |-> initialize_key(CipherKey(out.output2)),
         sym    |-> [sym EXCEPT !.ck = Zero]]
==============================================================================
