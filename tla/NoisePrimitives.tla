--------------------------- MODULE NoisePrimitives ---------------------------
(***************************************************************************)
(* The primitives under the Noise state machines (hash.cpp, hmac.cpp,      *)
(* hkdf.cpp and the libsodium calls), as constructors of symbolic terms.   *)
(* A buffer is the term that says how its bytes were computed, so two      *)
(* buffers are equal exactly when they were computed in the same way (no   *)
(* collisions).  A term is a tuple whose first element is its tag.         *)
(***************************************************************************)
EXTENDS Naturals

Zero    == <<"zero">>      \* an all-zero buffer: wiped, or a low-order point
Garbage == <<"garbage">>   \* bytes that no step of the program computed
Empty   == <<"empty">>     \* the zero-length span

DH_PUBLIC_KEY_BYTES == 32
AEAD_TAG_BYTES      == 16

(***************************************************************************)
(* Keys are named; the two halves of one X25519 pair share the name and    *)
(* are told apart by the field that holds them (s_sk/s_pk, e_sk/e_pk).     *)
(* Ed25519 names and X25519 names are different terms.                     *)
(***************************************************************************)
Ed25519(id)       == <<"ed25519", id>>
X25519(id)        == <<"x25519", id>>
MalformedKey      == <<"malformed">>

\* Mutant: a generator that returns the same pair every time.
Repeating_generate_keypair(n) == <<"ephemeral", 1>>

generate_keypair(n) == <<"ephemeral", n>>

\* crypto_sign_ed25519_{sk,pk}_to_curve25519: refuses a malformed key, maps
\* any other to the X25519 form.
convertible(ed)       == ed[1] = "ed25519"
ed25519_to_x25519(ed) == X25519(ed[2])

\* BLAKE2b over the concatenation of two ranges.
blake2b(a, b) == <<"blake2b", a, b>>

\* HMAC-BLAKE2b, kept as a primitive of its own here.
hmac_blake2b(key, message) == <<"hmac", key, message>>

\* Two-output HKDF: temp_key, output1 over the byte 1, output2 over
\* output1 || 2.
hkdf2(chaining_key, input_key_material) ==
    LET temp_key == hmac_blake2b(chaining_key, input_key_material)
        output1  == hmac_blake2b(temp_key, <<"byte", 1>>)
        output2  == hmac_blake2b(temp_key, <<"cat", output1, <<"byte", 2>>>>)
    IN  [output1 |-> output1, output2 |-> output2]

\* X25519 ECDH.  The shared secret depends on the two names only, not on
\* which side holds which half; a low-order public key is refused.
dh_ok(pk)  == pk # Zero
dh(sk, pk) == <<"dh", {sk, pk}>>
==============================================================================
