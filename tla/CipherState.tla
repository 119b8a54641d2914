----------------------------- MODULE CipherState -----------------------------
(***************************************************************************)
(* CipherState (cipher.hpp, cipher.cpp): a key, a 64-bit nonce counter and *)
(* has_key.  An operation is an operator from the object to the object     *)
(* after the call and the call's result.                                   *)
(***************************************************************************)
EXTENDS NoisePrimitives

CONSTANT NONCE_MAX   \* numeric_limits<uint64_t>::max(), the largest nonce

\* The cipher is used at most three times under one key during a handshake.
ASSUME NonceMaxAssumption == NONCE_MAX \in Nat /\ NONCE_MAX > 2

(***************************************************************************)
(* A cipher key: the 32 bytes it was derived from and how many times       *)
(* REKEY has been applied to them since.                                   *)
(***************************************************************************)
CipherKey(base) == [base |-> base, gen |-> 0]
NoKey           == CipherKey(Zero)

\* Default construction, and what zeroize() leaves.
zeroized == [k |-> NoKey, n |-> 0, has_key |-> FALSE]

\* Mutant: the source keeps its key.
Copying_cipher_move(c) == [to |-> c, from |-> c]

\* The move constructor and the move assignment from another object: what
\* the target holds afterwards, and what is left in the source.
cipher_move(c) == [to |-> c, from |-> zeroized]

initialize_key(key) == [k |-> key, n |-> 0, has_key |-> TRUE]

\* ChaCha20-Poly1305 output: opens under exactly this key, nonce and ad.
seal(key, n, ad, pt) == <<"aead", key, n, ad, pt>>
is_seal(ct)          == ct[1] = "aead"

\* Mutant: the associated data is not authenticated.
NoAd_opens(ct, key, n, ad) == is_seal(ct) /\ ct[2] = key /\ ct[3] = n

opens(ct, key, n, ad) == is_seal(ct) /\ ct[2] = key /\ ct[3] = n /\ ct[4] = ad
plaintext(ct)        == ct[5]

\* Mutant: the increment is missing.
Stuck_incr(n) == n

\* ++n_ on a uint64_t.
incr(n) == IF n = NONCE_MAX THEN 0 ELSE n + 1

\* Mutant: the last nonce is used.
Never_would_abort(c) == FALSE

\* The guard in front of both AEAD calls: the process aborts.
would_abort(c) == c.has_key /\ c.n = NONCE_MAX

\* Mutant: the counter does not advance.
NonceStuck_encrypt_with_ad(c, ad, pt) ==
    [cipher |-> c, out |-> IF c.has_key THEN seal(c.k, c.n, ad, pt) ELSE pt]

encrypt_with_ad(c, ad, pt) ==
    IF c.has_key
    THEN [cipher |-> [c EXCEPT !.n = incr(@)], out |-> seal(c.k, c.n, ad, pt)]
    ELSE [cipher |-> c, out |-> pt]

\* Mutant: the counter does not advance.
NonceStuck_decrypt_with_ad(c, ad, ct) ==
    IF ~c.has_key
    THEN [ok |-> TRUE, cipher |-> c, out |-> ct]
    ELSE [ok |-> opens(ct, c.k, c.n, ad), cipher |-> c,
          out |-> IF opens(ct, c.k, c.n, ad) THEN plaintext(ct) ELSE Empty]

\* A ciphertext shorter than the tag is not a seal, so it fails like a
\* forged one: the object is left alone.
decrypt_with_ad(c, ad, ct) ==
    IF ~c.has_key
    THEN [ok |-> TRUE, cipher |-> c, out |-> ct]
    ELSE IF opens(ct, c.k, c.n, ad)
    THEN [ok |-> TRUE, cipher |-> [c EXCEPT !.n = incr(@)], out |-> plaintext(ct)]
    ELSE [ok |-> FALSE, cipher |-> c, out |-> Empty]

\* REKEY: the next key is a function of the current one; the nonce stays.
rekey(c) == IF c.has_key THEN [c EXCEPT !.k.gen = @ + 1] ELSE c

reset_nonce_to_zero(c) == [c EXCEPT !.n = 0]
==============================================================================
